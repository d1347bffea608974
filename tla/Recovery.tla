------------------------------ MODULE Recovery ------------------------------
(***************************************************************************)
(* The journal (src/core/src/journal.c), the snapshot and the recovery     *)
(* that joins them (src/core/src/snapshot.c).  A process writes each input *)
(* to the journal before it applies it, now and then writes a snapshot of  *)
(* its state, and is killed or loses its power at any point; the next one  *)
(* recovers from the two files and appends to the same journal.            *)
(*                                                                         *)
(* An input is a record [seq, id]: seq is the number the journal keeps, id *)
(* tells two inputs apart that are given one number in different lives of  *)
(* the process.  A record in the file is `whole' when all its bytes and    *)
(* its CRC are there.                                                      *)
(***************************************************************************)
EXTENDS Naturals, Sequences

CONSTANTS
  MaxInputs,    \* inputs ever given to the journal
  MaxStops,     \* kills and power failures
  MaxFailures,  \* writes the disk refuses
  MaxRots       \* snapshots the disk damages after they were written

ASSUME BoundsAssumption ==
  /\ MaxInputs \in Nat
  /\ MaxStops \in Nat
  /\ MaxFailures \in Nat
  /\ MaxRots \in Nat

VARIABLES
  pc,        \* "down", "ready", or how far an append or a snapshot has got
  state,     \* the inputs the process has applied, in order
  next,      \* the number its next input gets
  res,       \* what recover() reported when it started
  jfile,     \* the journal file
  synced,    \* how many of its records fsync has put on the disk
  snap,      \* the file at the snapshot's path
  disk,      \* the file that path may name again after a power failure
  tmp,       \* the file at path.tmp
  given,     \* how many inputs were given to journal_append
  acked,     \* the inputs it answered with ERR_OK
  promised,  \* of those, the ones with no torn record before them
  spent      \* how often each kind of failure has happened

mem == <<state, next, res>>
journal == <<jfile, synced>>
snapshots == <<snap, disk, tmp>>
ghosts == <<given, acked, promised>>
vars == <<pc, mem, journal, snapshots, ghosts, spent>>

NoFile == [kind |-> "none"]
Damaged == [kind |-> "damaged"]
Image(upto, body, safe) ==
  [kind |-> "image", upto |-> upto, body |-> body, safe |-> safe]

Failures == {"stops", "failures", "rots"}

LastSeq(s) == IF s = <<>> THEN 0 ELSE s[Len(s)].seq
Ids(s) == {s[i].id : i \in DOMAIN s}
Torn(j) == {i \in DOMAIN j : ~j[i].whole}
Current(whole) == [seq |-> next, id |-> given + 1, whole |-> whole]

Init ==
  /\ pc = "down"
  /\ state = <<>>
  /\ next = 1
  /\ res = [used_snapshot |-> FALSE, snapshot_bad |-> FALSE, journal_torn |-> FALSE]
  /\ jfile = <<>>
  /\ synced = 0
  /\ snap = NoFile
  /\ disk = NoFile
  /\ tmp = NoFile
  /\ given = 0
  /\ acked = {}
  /\ promised = {}
  /\ spent = [f \in Failures |-> 0]

Spend(kind, bound) ==
  /\ spent[kind] < bound
  /\ spent' = [spent EXCEPT ![kind] = @ + 1]

-----------------------------------------------------------------------------
(* Replay hands over the records up to the first that is not whole: a short  *)
(* header or payload, a wrong magic or length, a CRC that does not match.    *)
played(j) == IF Torn(j) = {} THEN Len(j)
             ELSE (CHOOSE i \in Torn(j) : \A k \in Torn(j) : i <= k) - 1

journal_replay(j) == [i \in 1..played(j) |-> [seq |-> j[i].seq, id |-> j[i].id]]

(* Faulty: the last record the snapshot holds is applied again.              *)
on_journal_rec_off_by_one(applied, rec, from) ==
  IF rec.seq >= from THEN Append(applied, rec) ELSE applied

(* Faulty: a journal is only replayed when there is no snapshot.             *)
on_journal_rec_only_snapshot(applied, rec, from) ==
  IF from = 0 THEN Append(applied, rec) ELSE applied

(* What the snapshot already holds is passed over.                           *)
on_journal_rec(applied, rec, from) ==
  IF rec.seq > from THEN Append(applied, rec) ELSE applied

(* The inputs applied after each of the records replay hands over.           *)
replayed(body, records, from) ==
  LET after[i \in 0..Len(records)] ==
        IF i = 0 THEN body ELSE on_journal_rec(after[i - 1], records[i], from)
  IN  after

(* A snapshot that cannot be read counts as none: the whole journal is       *)
(* replayed.  The journal is then opened for appending, at its end.          *)
used == snap.kind = "image"
recovered ==
  LET body == IF used THEN snap.body ELSE <<>>
      from == IF used THEN snap.upto ELSE 0
  IN  replayed(body, journal_replay(jfile), from)[played(jfile)]

loaded ==
  /\ pc = "down"
  /\ pc' = "ready"
  /\ state' = recovered
  /\ next' = LastSeq(recovered) + 1
  /\ res' = [used_snapshot |-> used,
             snapshot_bad |-> snap.kind = "damaged",
             journal_torn |-> Torn(jfile) # {}]

recover ==
  /\ loaded
  /\ UNCHANGED <<journal, snapshots, ghosts, spent>>

-----------------------------------------------------------------------------
(* journal_append: one fwrite and an fflush hand the record to the kernel    *)
(* and fsync puts it on the disk.  Only then is it answered with ERR_OK, and *)
(* the caller applies it.                                                    *)
append_flush ==
  /\ pc = "ready"
  /\ given < MaxInputs
  /\ pc' = "flushed"
  /\ jfile' = Append(jfile, Current(TRUE))
  /\ given' = given + 1
  /\ UNCHANGED <<mem, synced, snapshots, acked, promised, spent>>

(* Faulty: answered when the kernel has the record.                          *)
append_sync_fflush_only ==
  /\ pc = "flushed"
  /\ pc' = "ready"
  /\ state' = Append(state, [seq |-> next, id |-> given])
  /\ next' = next + 1
  /\ acked' = acked \cup {given}
  /\ promised' = IF Torn(jfile) = {} THEN promised \cup {given} ELSE promised
  /\ UNCHANGED <<res, journal, snapshots, given, spent>>

append_sync ==
  /\ pc = "flushed"
  /\ pc' = "ready"
  /\ synced' = Len(jfile)
  /\ state' = Append(state, [seq |-> next, id |-> given])
  /\ next' = next + 1
  /\ acked' = acked \cup {given}
  /\ promised' = IF Torn(jfile) = {} THEN promised \cup {given} ELSE promised
  /\ UNCHANGED <<res, jfile, snapshots, given, spent>>

(* A refused write leaves nothing, a part or all of the record in the file,  *)
(* and is not undone.  The caller drops the input and goes on with the next  *)
(* number (bench_pipeline.c).                                                *)
append_fails ==
  /\ \/ /\ pc = "ready" /\ given < MaxInputs
        /\ given' = given + 1
        /\ \/ UNCHANGED jfile
           \/ jfile' = Append(jfile, Current(FALSE))
     \/ pc = "flushed" /\ UNCHANGED <<jfile, given>>
  /\ Spend("failures", MaxFailures)
  /\ pc' = "ready"
  /\ next' = next + 1
  /\ UNCHANGED <<state, res, synced, snapshots, acked, promised>>

-----------------------------------------------------------------------------
(* snapshot_write: the temporary file is opened (and emptied), written,      *)
(* synced and renamed; a failure removes it.                                 *)
snapshot_open ==
  /\ pc = "ready"
  /\ pc' = "opened"
  /\ tmp' = Damaged
  /\ UNCHANGED <<mem, journal, snap, disk, ghosts, spent>>

snapshot_fill ==
  /\ pc = "opened"
  /\ pc' = "written"
  /\ tmp' = Image(LastSeq(state), state, FALSE)
  /\ UNCHANGED <<mem, journal, snap, disk, ghosts, spent>>

(* Faulty: renamed before its bytes are on the disk.                         *)
snapshot_sync_skipped ==
  /\ pc = "written"
  /\ pc' = "safe"
  /\ UNCHANGED <<mem, journal, snapshots, ghosts, spent>>

snapshot_sync ==
  /\ pc = "written"
  /\ pc' = "safe"
  /\ tmp' = [tmp EXCEPT !.safe = TRUE]
  /\ UNCHANGED <<mem, journal, snap, disk, ghosts, spent>>

snapshot_rename ==
  /\ pc = "safe"
  /\ pc' = "ready"
  /\ snap' = tmp
  /\ tmp' = NoFile
  /\ UNCHANGED <<mem, journal, disk, ghosts, spent>>

snapshot_fails ==
  /\ pc \in {"opened", "written", "safe"}
  /\ Spend("failures", MaxFailures)
  /\ pc' = "ready"
  /\ tmp' = NoFile
  /\ UNCHANGED <<mem, journal, snap, disk, ghosts>>

-----------------------------------------------------------------------------
(* A process that is killed leaves the files as they are; killed inside the  *)
(* fwrite, it leaves a part of the record.                                   *)
Kill ==
  /\ pc # "down"
  /\ Spend("stops", MaxStops)
  /\ pc' = "down"
  /\ \/ UNCHANGED <<jfile, given>>
     \/ /\ pc = "ready" /\ given < MaxInputs
        /\ jfile' = Append(jfile, Current(FALSE))
        /\ given' = given + 1
  /\ UNCHANGED <<mem, synced, snapshots, acked, promised>>

(* The power goes: of the records that were not synced a beginning is left,  *)
(* and a part of the next; a file whose bytes were not synced is damaged,    *)
(* and a rename may be undone.                                               *)
AfterPower(f) == IF f.kind = "image" /\ ~f.safe THEN Damaged ELSE f

PowerFails ==
  /\ pc # "down"
  /\ Spend("stops", MaxStops)
  /\ pc' = "down"
  /\ \E n \in synced..Len(jfile) :
       \/ jfile' = SubSeq(jfile, 1, n)
       \/ n < Len(jfile) /\ jfile' = Append(SubSeq(jfile, 1, n), [jfile[n + 1] EXCEPT !.whole = FALSE])
  /\ synced' = Len(jfile')
  /\ \E f \in {snap, disk} : snap' = AfterPower(f) /\ disk' = AfterPower(f)
  /\ tmp' = AfterPower(tmp)
  /\ UNCHANGED <<mem, ghosts>>

(* A snapshot decays on the disk long after it was written.                  *)
Rot ==
  /\ snap.kind = "image"
  /\ Spend("rots", MaxRots)
  /\ snap' = Damaged
  /\ disk' = Damaged
  /\ UNCHANGED <<pc, mem, journal, tmp, ghosts>>

Next ==
  \/ recover
  \/ append_flush \/ append_sync \/ append_fails
  \/ snapshot_open \/ snapshot_fill \/ snapshot_sync \/ snapshot_rename \/ snapshot_fails
  \/ Kill \/ PowerFails \/ Rot

Spec == Init /\ [][Next]_vars

-----------------------------------------------------------------------------
(* Nothing that was acknowledged while every record before it was whole is   *)
(* ever missing from a running process, whatever kills, power failures,      *)
(* refused writes and damaged snapshots came in between (journal.h: "what    *)
(* must not be lost").  After a torn record nothing is promised: the file    *)
(* is opened with "ab" and what is written behind the torn bytes cannot be   *)
(* reached by a replay.                                                      *)
PromisedSurvives == pc # "down" => promised \subseteq Ids(state)

(* When an acknowledged input is missing all the same, recover() has said    *)
(* that the journal was torn: a loss is never silent.                        *)
LossIsReported ==
  pc # "down" /\ ~(acked \subseteq Ids(state)) => res.journal_torn

(* No input is applied twice and none out of order, though a snapshot and    *)
(* the journal overlap and numbers are given again after a loss.             *)
InOrderOnce ==
  \A i, k \in DOMAIN state :
    i < k => state[i].seq < state[k].seq /\ state[i].id < state[k].id

(* The file at the snapshot's path is an old snapshot or a new one and never *)
(* a half, at whatever moment the process or the power goes (snapshot.h);    *)
(* only the disk itself can damage it.                                       *)
SnapshotWhole == snap.kind = "damaged" => spent["rots"] > 0
=============================================================================
