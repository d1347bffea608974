--------------------------- MODULE RecoveryProofs ---------------------------
(***************************************************************************)
(* For every bound on inputs, kills, power failures, refused writes and    *)
(* decayed files:                                                          *)
(*                                                                         *)
(*   - the file at the snapshot's path is never a half-written one,        *)
(*     because nothing is renamed to that path before its bytes are on the *)
(*     disk, and what is on the disk a power failure cannot change;        *)
(*   - a running process has applied its inputs in order and once;         *)
(*   - it has applied every input that was promised, and when one that was *)
(*     acknowledged is missing it was told that the journal is torn.       *)
(*                                                                         *)
(* The last three rest on one invariant, RInv.  It says of whatever holds  *)
(* applied inputs (the memory of the process, the file the snapshot's path *)
(* names, the file it may name after a power failure) that it `fits' the   *)
(* journal: what a replay would add to it comes after all of it, and what  *)
(* a replay would pass over is in it if it was promised.                   *)
(***************************************************************************)
EXTENDS Recovery, SequenceTheorems, WellFoundedInduction, TLAPS

Input == [seq : Nat, id : Nat]
Entry == [seq : Nat, id : Nat, whole : BOOLEAN]

Sorted(s) ==
  \A i, k \in 1..Len(s) : i < k => s[i].seq < s[k].seq /\ s[i].id < s[k].id

\* Every record up to the i-th is whole: a replay gets that far.
Reached(j, i) == \A k \in 1..i : j[k].whole

\* Inputs a process may hold when g were given: in order, each once.
BodyOK(s, g) ==
  /\ s \in Seq(Input)
  /\ Sorted(s)
  /\ \A i \in 1..Len(s) : s[i].seq >= 1 /\ s[i].id <= g

\* A journal of g given inputs: ids ascend throughout; numbers ascend as far as
\* a replay gets, and behind a torn record they may be given again.
JournalOK(j, g) ==
  /\ j \in Seq(Entry)
  /\ \A i \in 1..Len(j) : j[i].seq >= 1 /\ j[i].id >= 1 /\ j[i].id <= g
  /\ \A i, k \in 1..Len(j) : i < k => j[i].id < j[k].id
  /\ \A i, k \in 1..Len(j) : i < k /\ Reached(j, k) => j[i].seq < j[k].seq

\* s goes with the journal j: what a replay adds to s comes after all of s, and
\* what it passes over is in s if it was promised.
Fits(s, j, P) ==
  \A i \in 1..Len(j) : Reached(j, i) =>
    /\ j[i].seq > LastSeq(s) => \A n \in 1..Len(s) : s[n].id < j[i].id
    /\ j[i].seq <= LastSeq(s) /\ j[i].id \in P => j[i].id \in Ids(s)

\* A nonempty set of natural numbers has a least one.
LEMMA LeastOf ==
  ASSUME NEW S, S \subseteq Nat, S # {}
  PROVE  \E x \in S : \A y \in S : x <= y
<1> DEFINE R == {p \in Nat \X Nat : p[1] < p[2]}
<1>0. IsWellFoundedOn(R, Nat)
  BY NatLessThanWellFounded, Zenon DEF OpToRel
<1>1. PICK x \in S : \A y \in S : ~(<<y, x>> \in R)
  <2> HIDE DEF R
  <2> QED
    BY <1>0, WFMin
<1>2. ASSUME NEW y \in S PROVE x <= y
  <2>1. x \in Nat /\ y \in Nat /\ ~(<<y, x>> \in R)
    BY <1>1
  <2> QED
    BY <2>1
<1> QED
  BY <1>2

\* Replay hands over exactly the records before the first torn one.
LEMMA PlayedIsReached ==
  ASSUME NEW j \in Seq(Entry)
  PROVE  /\ played(j) \in 0..Len(j)
         /\ \A i \in 1..Len(j) : Reached(j, i) <=> i <= played(j)
<1>0. Len(j) \in Nat /\ DOMAIN j = 1..Len(j) /\ \A i \in 1..Len(j) : j[i] \in Entry
  OBVIOUS
<1>1. CASE Torn(j) = {}
  <2>1. played(j) = Len(j) /\ \A i \in 1..Len(j) : j[i].whole
    BY <1>0, <1>1 DEF played, Torn
  <2> QED
    BY <1>0, <2>1 DEF Reached
<1>2. CASE Torn(j) # {}
  <2>1. Torn(j) \subseteq Nat
    BY <1>0 DEF Torn
  <2>2. \E x \in Torn(j) : \A y \in Torn(j) : x <= y
    BY <1>2, <2>1, LeastOf
  <2> DEFINE t == CHOOSE i \in Torn(j) : \A k \in Torn(j) : i <= k
  <2>3. t \in Torn(j) /\ \A k \in Torn(j) : t <= k
    BY <2>2
  <2>4. played(j) = t - 1
    BY <1>2 DEF played
  <2> HIDE DEF t
  <2>5. t \in 1..Len(j) /\ ~j[t].whole
    BY <1>0, <2>3 DEF Torn
  <2>6. ASSUME NEW k \in 1..Len(j), k < t PROVE j[k].whole
    BY <1>0, <2>3, <2>5, <2>6 DEF Torn
  <2> QED
    BY <1>0, <2>4, <2>5, <2>6 DEF Reached
<1> QED
  BY <1>1, <1>2

-----------------------------------------------------------------------------
\* after says what is applied after each of the records.
Replays(after, body, records, from, n) ==
  /\ after \in [0..n -> Seq(Input)]
  /\ after[0] = body
  /\ \A i \in 1..n : after[i] = on_journal_rec(after[i - 1], records[i], from)

\* The recursion replayed is written with defines such a function: there is one
\* for every beginning of the records, or there would be a shortest beginning
\* without.
LEMMA ReplayIsDefined ==
  ASSUME NEW body \in Seq(Input), NEW records \in Seq(Input), NEW from \in Nat
  PROVE  Replays(replayed(body, records, from), body, records, from, Len(records))
<1> DEFINE Bad == {n \in 0..Len(records) : ~\E F : Replays(F, body, records, from, n)}
<1>0. Len(records) \in Nat /\ \A i \in 1..Len(records) : records[i] \in Input
  OBVIOUS
<1>1. Bad = {}
  <2> SUFFICES ASSUME Bad # {} PROVE FALSE
    OBVIOUS
  <2>1. Bad \subseteq Nat
    BY <1>0
  <2>2. PICK n \in Bad : \A y \in Bad : n <= y
    <3> HIDE DEF Bad
    <3> QED
      BY <2>1, LeastOf
  <2>3. n \in 0..Len(records) /\ ~\E F : Replays(F, body, records, from, n)
    BY <2>2
  <2>4. n # 0
    <3>1. Replays([i \in 0..0 |-> body], body, records, from, 0)
      BY DEF Replays
    <3> QED
      BY <2>3, <3>1
  <2>5. n - 1 \in 0..Len(records) /\ n - 1 \notin Bad
    BY <1>0, <2>2, <2>3, <2>4
  <2>6. PICK F : Replays(F, body, records, from, n - 1)
    BY <2>5
  <2> DEFINE last == on_journal_rec(F[n - 1], records[n], from)
             G == [i \in 0..n |-> IF i < n THEN F[i] ELSE last]
  <2>7. F[n - 1] \in Seq(Input) /\ records[n] \in Input
    BY <1>0, <2>3, <2>4, <2>6 DEF Replays
  <2>8. last \in Seq(Input)
    BY <2>7 DEF on_journal_rec
  <2>9. G[n] = last /\ \A i \in 0..(n - 1) : G[i] = F[i]
    BY <2>3, <2>4
  <2>10. G \in [0..n -> Seq(Input)]
    BY <2>3, <2>4, <2>6, <2>8 DEF Replays
  <2>11. \A i \in 1..n : G[i] = on_journal_rec(G[i - 1], records[i], from)
    <3> HIDE DEF G
    <3> TAKE i \in 1..n
    <3>1. CASE i = n
      <4>1. G[n - 1] = F[n - 1]
        BY <2>3, <2>4, <2>9
      <4> QED
        BY <3>1, <4>1, <2>9
    <3>2. CASE i # n
      <4>1. i \in 1..(n - 1) /\ i - 1 \in 0..(n - 1) /\ i \in 0..(n - 1)
        BY <2>3, <3>2
      <4>2. G[i] = F[i] /\ G[i - 1] = F[i - 1]
        BY <2>9, <4>1
      <4> QED
        BY <2>6, <4>1, <4>2 DEF Replays
    <3> QED
      BY <3>1, <3>2
  <2>12. G[0] = body
    BY <2>3, <2>4, <2>6 DEF Replays
  <2>13. Replays(G, body, records, from, n)
    <3> HIDE DEF G
    <3> QED
      BY <2>10, <2>11, <2>12 DEF Replays
  <2> QED
    BY <2>3, <2>13
<1>2. PICK F : Replays(F, body, records, from, Len(records))
  BY <1>0, <1>1
<1> DEFINE E(f) == f = [i \in 0..Len(records) |->
                          IF i = 0 THEN body ELSE on_journal_rec(f[i - 1], records[i], from)]
<1>3. E(F)
  BY <1>0, <1>2 DEF Replays
<1>4. replayed(body, records, from) = CHOOSE f : E(f)
  BY DEF replayed
<1>5. E(replayed(body, records, from))
  <2> HIDE DEF E
  <2> QED
    BY <1>3, <1>4
<1> DEFINE r == replayed(body, records, from)
<1>6. /\ DOMAIN r = 0..Len(records)
      /\ r[0] = body
      /\ \A i \in 1..Len(records) : r[i] = on_journal_rec(r[i - 1], records[i], from)
  <2> HIDE DEF r
  <2>1. r = [i \in 0..Len(records) |->
                IF i = 0 THEN body ELSE on_journal_rec(r[i - 1], records[i], from)]
    BY <1>5 DEF r
  <2> QED
    BY <1>0, <2>1
<1>7. \A i \in 0..Len(records) : r[i] \in Seq(Input)
  <2> HIDE DEF r, E, Bad
  <2> DEFINE Wrong == {i \in 0..Len(records) : r[i] \notin Seq(Input)}
  <2> SUFFICES ASSUME Wrong # {} PROVE FALSE
    OBVIOUS
  <2>1. Wrong \subseteq Nat
    BY <1>0
  <2>2. PICK n \in Wrong : \A y \in Wrong : n <= y
    <3> HIDE DEF Wrong
    <3> QED
      BY <2>1, LeastOf
  <2>3. n \in 0..Len(records) /\ r[n] \notin Seq(Input)
    BY <2>2
  <2>4. n # 0
    BY <1>6, <2>3
  <2>5. n - 1 \in 0..Len(records) /\ n - 1 \notin Wrong
    BY <1>0, <2>2, <2>3, <2>4
  <2>6. r[n - 1] \in Seq(Input) /\ records[n] \in Input
    BY <1>0, <2>3, <2>4, <2>5
  <2>7. r[n] = on_journal_rec(r[n - 1], records[n], from)
    BY <1>6, <2>3, <2>4
  <2> QED
    BY <2>3, <2>6, <2>7 DEF on_journal_rec
<1> QED
  <2> HIDE DEF r, E, Bad
  <2>0. r = [i \in 0..Len(records) |-> r[i]]
    <3>1. r = [i \in 0..Len(records) |->
                IF i = 0 THEN body ELSE on_journal_rec(r[i - 1], records[i], from)]
      BY <1>5 DEF r, E
    <3> QED
      BY <1>6, <3>1
  <2>1. r \in [0..Len(records) -> Seq(Input)]
    BY <1>7, <2>0
  <2>2. Replays(r, body, records, from, Len(records))
    BY <1>6, <2>1 DEF Replays
  <2> QED
    BY <2>2 DEF r

-----------------------------------------------------------------------------
(* What a replay adds to the inputs it starts from.                         *)

LEMMA LastSeqIsGreatest ==
  ASSUME NEW s \in Seq(Input), Sorted(s)
  PROVE  LastSeq(s) \in Nat /\ \A i \in 1..Len(s) : s[i].seq <= LastSeq(s)
<1>0. Len(s) \in Nat /\ \A i \in 1..Len(s) : s[i] \in Input
  OBVIOUS
<1>1. CASE s = <<>>
  BY <1>1 DEF LastSeq
<1>2. CASE s # <<>>
  <2>1. Len(s) \in 1..Len(s) /\ LastSeq(s) = s[Len(s)].seq
    BY <1>0, <1>2 DEF LastSeq
  <2>2. \A i \in 1..Len(s) : s[i].seq \in Nat
    BY <1>0 DEF Input
  <2>3. ASSUME NEW i \in 1..Len(s) PROVE s[i].seq <= s[Len(s)].seq
    <3>1. CASE i = Len(s)
      BY <2>2, <3>1
    <3>2. CASE i # Len(s)
      <4>1. i < Len(s)
        BY <1>0, <3>2
      <4> QED
        BY <2>1, <2>2, <4>1 DEF Sorted
    <3> QED
      BY <3>1, <3>2
  <2> QED
    BY <2>1, <2>2, <2>3
<1> QED
  BY <1>1, <1>2

\* One more input, after all the others in number and in id.
LEMMA AppendInput ==
  ASSUME NEW g \in Nat, NEW s, BodyOK(s, g), NEW e \in Input,
         e.seq > LastSeq(s), e.id <= g, \A n \in 1..Len(s) : s[n].id < e.id
  PROVE  /\ BodyOK(Append(s, e), g)
         /\ LastSeq(Append(s, e)) = e.seq
         /\ Ids(Append(s, e)) = Ids(s) \cup {e.id}
<1> DEFINE t == Append(s, e)
<1>0. /\ s \in Seq(Input) /\ Sorted(s) /\ Len(s) \in Nat
      /\ \A i \in 1..Len(s) : s[i] \in Input /\ s[i].seq >= 1 /\ s[i].id <= g
  BY DEF BodyOK
<1>1. LastSeq(s) \in Nat /\ \A i \in 1..Len(s) : s[i].seq <= LastSeq(s)
  BY <1>0, LastSeqIsGreatest
<1>2. /\ t \in Seq(Input) /\ Len(t) = Len(s) + 1 /\ t[Len(s) + 1] = e
      /\ \A i \in 1..Len(s) : t[i] = s[i]
  BY <1>0
<1> HIDE DEF t
<1>3. e.seq \in Nat /\ e.id \in Nat /\ \A i \in 1..Len(s) : s[i].seq \in Nat /\ s[i].id \in Nat
  BY <1>0 DEF Input
<1>4. Sorted(t)
  <2> SUFFICES ASSUME NEW i \in 1..Len(t), NEW k \in 1..Len(t), i < k
               PROVE  t[i].seq < t[k].seq /\ t[i].id < t[k].id
    BY DEF Sorted
  <2>1. i \in 1..Len(s) /\ t[i] = s[i]
    BY <1>0, <1>2
  <2>2. CASE k = Len(s) + 1
    BY <1>1, <1>2, <1>3, <2>1, <2>2
  <2>3. CASE k # Len(s) + 1
    <3>1. k \in 1..Len(s) /\ t[k] = s[k]
      BY <1>0, <1>2, <2>3
    <3> QED
      BY <1>0, <2>1, <3>1 DEF Sorted
  <2> QED
    BY <2>2, <2>3
<1>5. ASSUME NEW i \in 1..Len(t) PROVE t[i].seq >= 1 /\ t[i].id <= g
  <2>1. CASE i = Len(s) + 1
    BY <1>1, <1>2, <1>3, <2>1
  <2>2. CASE i # Len(s) + 1
    BY <1>0, <1>2, <2>2
  <2> QED
    BY <2>1, <2>2
<1>6. LastSeq(t) = e.seq
  BY <1>0, <1>2 DEF LastSeq
<1>7. Ids(t) = Ids(s) \cup {e.id}
  <2>1. DOMAIN t = 1..(Len(s) + 1) /\ DOMAIN s = 1..Len(s)
    BY <1>0, <1>2
  <2>2. 1..(Len(s) + 1) = 1..Len(s) \cup {Len(s) + 1}
    BY <1>0
  <2> QED
    BY <1>2, <2>1, <2>2 DEF Ids
<1> QED
  BY <1>2, <1>4, <1>5, <1>6, <1>7 DEF BodyOK, t

\* What has been applied after i records of the replay.
ReplayOK(after, body, j, g, i) ==
  /\ BodyOK(after, g)
  /\ LastSeq(after) >= LastSeq(body)
  /\ \A p \in Ids(body) : p \in Ids(after)
  /\ \A k \in 1..i : /\ j[k].seq <= LastSeq(after)
                     /\ j[k].seq > LastSeq(body) => j[k].id \in Ids(after)
  /\ \A k \in (i + 1)..played(j) : j[k].seq > LastSeq(body) =>
       /\ j[k].seq > LastSeq(after)
       /\ \A n \in 1..Len(after) : after[n].id < j[k].id

LEMMA RecordsOf ==
  ASSUME NEW j \in Seq(Entry)
  PROVE  /\ journal_replay(j) \in Seq(Input)
         /\ Len(journal_replay(j)) = played(j)
         /\ \A i \in 1..played(j) : /\ journal_replay(j)[i] = [seq |-> j[i].seq, id |-> j[i].id]
                                   /\ i \in 1..Len(j) /\ Reached(j, i)
<1>1. played(j) \in Nat /\ \A i \in 1..played(j) : i \in 1..Len(j) /\ Reached(j, i)
  BY PlayedIsReached
<1>2. \A i \in 1..played(j) : [seq |-> j[i].seq, id |-> j[i].id] \in Input
  <2>1. \A i \in 1..played(j) : j[i] \in Entry
    BY <1>1
  <2> QED
    BY <2>1 DEF Input, Entry
<1> DEFINE r == [i \in 1..played(j) |-> [seq |-> j[i].seq, id |-> j[i].id]]
<1>3. r \in Seq(Input) /\ Len(r) = played(j)
  <2>1. r \in [1..played(j) -> Input]
    BY <1>2
  <2> HIDE DEF r
  <2>2. DOMAIN r = 1..played(j)
    BY <2>1
  <2> QED
    BY <1>1, <2>1, <2>2
<1>4. journal_replay(j) = r
  BY DEF journal_replay
<1>5. \A i \in 1..played(j) : r[i] = [seq |-> j[i].seq, id |-> j[i].id]
  OBVIOUS
<1> HIDE DEF r
<1> QED
  BY <1>1, <1>3, <1>4, <1>5

\* One record more.
LEMMA ReplayStep ==
  ASSUME NEW g \in Nat, NEW j, JournalOK(j, g), NEW body,
         NEW i \in 1..played(j), NEW s, ReplayOK(s, body, j, g, i - 1),
         BodyOK(body, g)
  PROVE  ReplayOK(on_journal_rec(s, journal_replay(j)[i], LastSeq(body)), body, j, g, i)
<1> DEFINE rec == journal_replay(j)[i]
<1>0. /\ j \in Seq(Entry) /\ Len(j) \in Nat
      /\ \A k \in 1..Len(j) : j[k] \in Entry /\ j[k].seq >= 1 /\ j[k].id >= 1 /\ j[k].id <= g
      /\ \A k, m \in 1..Len(j) : k < m => j[k].id < j[m].id
      /\ \A k, m \in 1..Len(j) : k < m /\ Reached(j, m) => j[k].seq < j[m].seq
  BY DEF JournalOK
<1>1. /\ rec = [seq |-> j[i].seq, id |-> j[i].id]
      /\ played(j) \in 0..Len(j)
      /\ \A k \in 1..played(j) : k \in 1..Len(j) /\ Reached(j, k)
  BY <1>0, RecordsOf, PlayedIsReached
<1> HIDE DEF rec
<1>2. rec \in Input /\ rec.seq = j[i].seq /\ rec.id = j[i].id
  BY <1>0, <1>1 DEF Input, Entry
<1>3. \A k \in 1..Len(j) : j[k].seq \in Nat /\ j[k].id \in Nat
  BY <1>0 DEF Entry
<1>4. i \in Nat /\ (i - 1) + 1 = i /\ played(j) \in Nat
  BY <1>1
<1>5. /\ BodyOK(s, g) /\ LastSeq(s) >= LastSeq(body)
      /\ \A p \in Ids(body) : p \in Ids(s)
      /\ \A k \in 1..(i - 1) : j[k].seq <= LastSeq(s) /\ (j[k].seq > LastSeq(body) => j[k].id \in Ids(s))
      /\ \A k \in i..played(j) : j[k].seq > LastSeq(body) =>
             j[k].seq > LastSeq(s) /\ \A n \in 1..Len(s) : s[n].id < j[k].id
  BY <1>4 DEF ReplayOK
<1>6. LastSeq(s) \in Nat /\ LastSeq(body) \in Nat
  BY <1>5, LastSeqIsGreatest DEF BodyOK
<1>7. \A k \in 1..i : k \in 1..(i - 1) \/ k = i
  BY <1>4
<1>8. i \in i..played(j) /\ \A k \in (i + 1)..played(j) : k \in i..played(j) /\ i < k
  BY <1>4
<1>9. CASE rec.seq > LastSeq(body)
  <2> DEFINE t == Append(s, rec)
  <2>1. rec.seq > LastSeq(s) /\ rec.id <= g /\ \A n \in 1..Len(s) : s[n].id < rec.id
    BY <1>0, <1>1, <1>2, <1>5, <1>8, <1>9
  <2>2. BodyOK(t, g) /\ LastSeq(t) = rec.seq /\ Ids(t) = Ids(s) \cup {rec.id}
    BY <1>2, <1>5, <2>1, AppendInput
  <2>3. /\ Len(s) \in Nat /\ Len(t) = Len(s) + 1
        /\ \A n \in 1..Len(t) : t[n] = rec \/ (n \in 1..Len(s) /\ t[n] = s[n])
    BY <1>5 DEF BodyOK
  <2> HIDE DEF t
  <2>4. LastSeq(t) >= LastSeq(body)
    BY <1>2, <1>3, <1>1, <1>6, <1>9, <2>2
  <2>5. ASSUME NEW k \in 1..i
        PROVE  j[k].seq <= LastSeq(t) /\ (j[k].seq > LastSeq(body) => j[k].id \in Ids(t))
    <3>1. CASE k = i
      BY <1>1, <1>2, <1>3, <2>2, <3>1
    <3>2. CASE k \in 1..(i - 1)
      <4>1. k \in 1..Len(j) /\ i \in 1..Len(j)
        BY <1>0, <1>1, <1>4, <3>2
      <4> QED
        BY <1>2, <1>3, <1>5, <1>6, <2>1, <2>2, <3>2, <4>1
    <3> QED
      BY <1>7, <3>1, <3>2
  <2>6. ASSUME NEW k \in (i + 1)..played(j), j[k].seq > LastSeq(body)
        PROVE  j[k].seq > LastSeq(t) /\ \A n \in 1..Len(t) : t[n].id < j[k].id
    <3>1. k \in i..played(j) /\ i < k /\ k \in 1..Len(j) /\ i \in 1..Len(j) /\ Reached(j, k)
      BY <1>1, <1>4, <1>8
    <3>2. j[i].seq < j[k].seq /\ j[i].id < j[k].id
      BY <1>0, <3>1
    <3>3. \A n \in 1..Len(s) : s[n].id < j[k].id
      BY <1>5, <2>6, <3>1
    <3> QED
      BY <1>2, <2>2, <2>3, <3>2, <3>3
  <2>7. on_journal_rec(s, rec, LastSeq(body)) = t
    BY <1>9 DEF on_journal_rec, t
  <2>8. ReplayOK(t, body, j, g, i)
    BY <1>5, <2>2, <2>4, <2>5, <2>6 DEF ReplayOK
  <2> QED
    BY <2>7, <2>8 DEF rec
<1>10. CASE ~(rec.seq > LastSeq(body))
  <2>1. on_journal_rec(s, rec, LastSeq(body)) = s
    BY <1>10 DEF on_journal_rec
  <2>2. j[i].seq <= LastSeq(s) /\ ~(j[i].seq > LastSeq(body))
    BY <1>1, <1>2, <1>3, <1>5, <1>6, <1>10
  <2>3. ReplayOK(s, body, j, g, i)
    BY <1>5, <1>7, <1>8, <2>2 DEF ReplayOK
  <2> QED
    BY <2>1, <2>3 DEF rec
<1> QED
  BY <1>9, <1>10

\* What a recovery starts from holds, in order and once, all that a snapshot
\* and the journal it goes with have of what was promised.
Recovers(r, body, j, g, P) ==
  /\ BodyOK(r, g)
  /\ LastSeq(r) >= LastSeq(body)
  /\ \A i \in 1..Len(j) : Reached(j, i) =>
       /\ j[i].seq <= LastSeq(r)
       /\ j[i].id \in P => j[i].id \in Ids(r)

LEMMA ReplayRecovers ==
  ASSUME NEW g \in Nat, NEW j, JournalOK(j, g), NEW P, NEW body,
         BodyOK(body, g), Fits(body, j, P)
  PROVE  Recovers(replayed(body, journal_replay(j), LastSeq(body))[played(j)], body, j, g, P)
<1> DEFINE after == replayed(body, journal_replay(j), LastSeq(body))
<1>0. /\ j \in Seq(Entry) /\ played(j) \in 0..Len(j) /\ Len(j) \in Nat
      /\ \A i \in 1..Len(j) : Reached(j, i) <=> i <= played(j)
  BY PlayedIsReached DEF JournalOK
<1>1. body \in Seq(Input) /\ Sorted(body) /\ Len(body) \in Nat
  BY DEF BodyOK
<1>2. LastSeq(body) \in Nat /\ \A n \in 1..Len(body) : body[n].seq <= LastSeq(body)
  BY <1>1, LastSeqIsGreatest
<1>3. journal_replay(j) \in Seq(Input) /\ Len(journal_replay(j)) = played(j)
  BY <1>0, RecordsOf
<1>4. Replays(after, body, journal_replay(j), LastSeq(body), played(j))
  BY <1>1, <1>2, <1>3, ReplayIsDefined
<1> HIDE DEF after
<1>5. /\ after[0] = body
      /\ \A i \in 1..played(j) :
            after[i] = on_journal_rec(after[i - 1], journal_replay(j)[i], LastSeq(body))
  BY <1>4 DEF Replays
<1>6. ReplayOK(after[0], body, j, g, 0)
  <2>1. \A k \in (0 + 1)..played(j) : k \in 1..Len(j) /\ Reached(j, k)
    BY <1>0
  <2>2. \A k \in (0 + 1)..played(j) : j[k].seq > LastSeq(body) =>
          \A n \in 1..Len(body) : body[n].id < j[k].id
    BY <2>1 DEF Fits
  <2>3. 1..0 = {} /\ LastSeq(body) >= LastSeq(body)
    BY <1>2
  <2> QED
    BY <1>5, <2>2, <2>3 DEF ReplayOK
<1>7. \A i \in 0..played(j) : ReplayOK(after[i], body, j, g, i)
  <2> DEFINE Wrong == {i \in 0..played(j) : ~ReplayOK(after[i], body, j, g, i)}
  <2> SUFFICES ASSUME Wrong # {} PROVE FALSE
    OBVIOUS
  <2>1. Wrong \subseteq Nat
    BY <1>0
  <2>2. PICK n \in Wrong : \A y \in Wrong : n <= y
    <3> HIDE DEF Wrong
    <3> QED
      BY <2>1, LeastOf
  <2>3. n \in 0..played(j) /\ ~ReplayOK(after[n], body, j, g, n)
    BY <2>2
  <2>4. n # 0
    BY <1>6, <2>3
  <2>5. n \in 1..played(j) /\ n - 1 \in 0..played(j) /\ n - 1 \notin Wrong
    BY <1>0, <2>2, <2>3, <2>4
  <2>6. ReplayOK(after[n - 1], body, j, g, n - 1)
    BY <2>5
  <2> HIDE DEF Wrong
  <2>7. ReplayOK(on_journal_rec(after[n - 1], journal_replay(j)[n], LastSeq(body)), body, j, g, n)
    BY <2>5, <2>6, ReplayStep
  <2>8. after[n] = on_journal_rec(after[n - 1], journal_replay(j)[n], LastSeq(body))
    BY <1>5, <2>5
  <2> QED
    BY <2>3, <2>7, <2>8
<1> DEFINE r == after[played(j)]
<1>8. ReplayOK(r, body, j, g, played(j))
  BY <1>0, <1>7
<1> HIDE DEF r
<1>9. /\ BodyOK(r, g) /\ LastSeq(r) >= LastSeq(body)
      /\ \A p \in Ids(body) : p \in Ids(r)
      /\ \A k \in 1..played(j) : j[k].seq <= LastSeq(r)
                               /\ (j[k].seq > LastSeq(body) => j[k].id \in Ids(r))
  BY <1>8 DEF ReplayOK
<1>10. ASSUME NEW i \in 1..Len(j), Reached(j, i)
       PROVE  j[i].seq <= LastSeq(r) /\ (j[i].id \in P => j[i].id \in Ids(r))
  <2>0. j[i] \in Entry /\ i >= 1 /\ i <= played(j)
    BY <1>0, <1>10
  <2>1. i \in 1..played(j) /\ j[i].seq \in Nat
    BY <1>0, <2>0 DEF Entry
  <2>2. j[i].seq > LastSeq(body) \/ j[i].seq <= LastSeq(body)
    BY <1>2, <2>1
  <2>3. j[i].seq <= LastSeq(body) /\ j[i].id \in P => j[i].id \in Ids(body)
    BY <1>10 DEF Fits
  <2> QED
    BY <1>9, <2>1, <2>2, <2>3
<1>11. Recovers(r, body, j, g, P)
  BY <1>9, <1>10 DEF Recovers
<1> QED
  BY <1>11 DEF r, after

-----------------------------------------------------------------------------
(* What happens to the journal: it is cut, torn or written to.              *)

\* j2 is a beginning of j, its last record perhaps torn.
Cut(j2, j) ==
  /\ j2 \in Seq(Entry)
  /\ Len(j2) <= Len(j)
  /\ \A i \in 1..Len(j2) : /\ j2[i].seq = j[i].seq /\ j2[i].id = j[i].id
                           /\ j2[i].whole => j[i].whole

\* All that a replay of j2 hands over a replay of j does as well.
Within(j2, j) ==
  \A i \in 1..Len(j2) : Reached(j2, i) =>
    i \in 1..Len(j) /\ Reached(j, i) /\ j2[i].seq = j[i].seq /\ j2[i].id = j[i].id

LEMMA CutKeeps ==
  ASSUME NEW g, NEW j, JournalOK(j, g), NEW j2, Cut(j2, j)
  PROVE  JournalOK(j2, g) /\ Within(j2, j)
<1>1. Len(j) \in Nat /\ Len(j2) \in Nat /\ Len(j2) <= Len(j) /\ j2 \in Seq(Entry)
  BY DEF Cut, JournalOK
<1>2. ASSUME NEW i \in 1..Len(j2), Reached(j2, i) PROVE i \in 1..Len(j) /\ Reached(j, i)
  BY <1>1, <1>2 DEF Cut, Reached
<1>3. \A i \in 1..Len(j2) : i \in 1..Len(j)
  BY <1>1
<1>4. Within(j2, j)
  BY <1>2 DEF Within, Cut
<1> QED
  BY <1>1, <1>2, <1>3, <1>4 DEF JournalOK, Cut

LEMMA FitsWithin ==
  ASSUME NEW s, NEW j, NEW j2, NEW P, Fits(s, j, P), Within(j2, j)
  PROVE  Fits(s, j2, P)
BY DEF Fits, Within

\* A record at the end of the journal, given the number n and the next id.
LEMMA AppendRecord ==
  ASSUME NEW g \in Nat, NEW j, JournalOK(j, g), NEW n \in Nat, n >= 1, NEW w \in BOOLEAN,
         w => \A i \in 1..Len(j) : Reached(j, i) => j[i].seq < n
  PROVE  LET e == [seq |-> n, id |-> g + 1, whole |-> w] IN
         /\ JournalOK(Append(j, e), g + 1)
         /\ ~w => Within(Append(j, e), j)
         /\ Len(Append(j, e)) = Len(j) + 1
         /\ Append(j, e)[Len(j) + 1] = e
         /\ \A i \in 1..Len(j) : /\ Append(j, e)[i] = j[i]
                                 /\ Reached(Append(j, e), i) <=> Reached(j, i)
         /\ Reached(Append(j, e), Len(j) + 1) => w /\ \A i \in 1..Len(j) : Reached(j, i)
<1> DEFINE e == [seq |-> n, id |-> g + 1, whole |-> w]
           t == Append(j, e)
<1>0. /\ j \in Seq(Entry) /\ Len(j) \in Nat
      /\ \A i \in 1..Len(j) : j[i] \in Entry /\ j[i].seq >= 1 /\ j[i].id >= 1 /\ j[i].id <= g
      /\ \A i, k \in 1..Len(j) : i < k => j[i].id < j[k].id
      /\ \A i, k \in 1..Len(j) : i < k /\ Reached(j, k) => j[i].seq < j[k].seq
  BY DEF JournalOK
<1>1. e \in Entry /\ e.seq = n /\ e.id = g + 1 /\ e.whole = w
  BY DEF Entry
<1> HIDE DEF e
<1>2. /\ t \in Seq(Entry) /\ Len(t) = Len(j) + 1 /\ t[Len(j) + 1] = e
      /\ \A i \in 1..Len(j) : t[i] = j[i]
  BY <1>0, <1>1
<1> HIDE DEF t
<1>3. ASSUME NEW i \in 1..Len(j) PROVE Reached(t, i) <=> Reached(j, i)
  BY <1>0, <1>2 DEF Reached
<1>4. Reached(t, Len(j) + 1) => w /\ \A i \in 1..Len(j) : Reached(j, i)
  BY <1>0, <1>1, <1>2 DEF Reached
<1>5. \A i \in 1..Len(t) : i \in 1..Len(j) \/ i = Len(j) + 1
  BY <1>0, <1>2
<1>6. \A i \in 1..Len(j) : j[i].seq \in Nat /\ j[i].id \in Nat
  BY <1>0 DEF Entry
<1>7. \A i \in 1..Len(t) : t[i].seq >= 1 /\ t[i].id >= 1 /\ t[i].id <= g + 1
  BY <1>0, <1>1, <1>2, <1>5, <1>6
<1>8. ASSUME NEW i \in 1..Len(t), NEW k \in 1..Len(t), i < k
      PROVE  t[i].id < t[k].id /\ (Reached(t, k) => t[i].seq < t[k].seq)
  <2>1. i \in 1..Len(j)
    BY <1>0, <1>2, <1>8
  <2>2. CASE k \in 1..Len(j)
    BY <1>0, <1>2, <1>3, <1>8, <2>1, <2>2
  <2>3. CASE k = Len(j) + 1
    BY <1>0, <1>1, <1>2, <1>4, <1>6, <2>1, <2>3
  <2> QED
    BY <1>5, <2>2, <2>3
<1>9. JournalOK(t, g + 1)
  BY <1>2, <1>7, <1>8 DEF JournalOK
<1>10. ~w => Within(t, j)
  BY <1>2, <1>3, <1>4, <1>5 DEF Within
<1> QED
  BY <1>2, <1>3, <1>4, <1>9, <1>10 DEF e, t

\* A whole record at the end of the journal comes after all that was applied.
LEMMA FitsAppended ==
  ASSUME NEW g \in Nat, NEW j, JournalOK(j, g), NEW n \in Nat, n >= 1,
         \A i \in 1..Len(j) : Reached(j, i) => j[i].seq < n,
         NEW P, P \subseteq 1..g, NEW s, BodyOK(s, g), Fits(s, j, P)
  PROVE  Fits(s, Append(j, [seq |-> n, id |-> g + 1, whole |-> TRUE]), P)
<1> DEFINE t == Append(j, [seq |-> n, id |-> g + 1, whole |-> TRUE])
<1>1. /\ Len(t) = Len(j) + 1 /\ t[Len(j) + 1] = [seq |-> n, id |-> g + 1, whole |-> TRUE]
      /\ \A i \in 1..Len(j) : t[i] = j[i] /\ (Reached(t, i) <=> Reached(j, i))
  BY AppendRecord
<1> HIDE DEF t
<1>2. Len(j) \in Nat /\ Len(s) \in Nat /\ \A i \in 1..Len(s) : s[i] \in Input /\ s[i].id <= g
  BY DEF JournalOK, BodyOK
<1>3. \A i \in 1..Len(s) : s[i].id < g + 1
  BY <1>2 DEF Input
<1>4. ASSUME NEW i \in 1..Len(t), Reached(t, i)
      PROVE  /\ t[i].seq > LastSeq(s) => \A m \in 1..Len(s) : s[m].id < t[i].id
             /\ t[i].seq <= LastSeq(s) /\ t[i].id \in P => t[i].id \in Ids(s)
  <2>1. CASE i = Len(j) + 1
    BY <1>1, <1>3, <2>1
  <2>2. CASE i # Len(j) + 1
    <3>1. i \in 1..Len(j)
      BY <1>1, <1>2, <2>2
    <3> QED
      BY <1>1, <1>4, <3>1 DEF Fits
  <2> QED
    BY <2>1, <2>2
<1>5. Fits(s, t, P)
  BY <1>4 DEF Fits
<1> QED
  BY <1>5 DEF t

\* The last record of the journal is promised: s, which ends before it, still
\* goes with the journal.
LEMMA FitsPromise ==
  ASSUME NEW g \in Nat, NEW j, JournalOK(j, g), j # <<>>, NEW P, NEW s, Fits(s, j, P),
         j[Len(j)].seq > LastSeq(s), Sorted(s), s \in Seq(Input)
  PROVE  Fits(s, j, P \cup {j[Len(j)].id})
<1>1. /\ Len(j) \in Nat /\ Len(j) \in 1..Len(j)
      /\ \A i \in 1..Len(j) : j[i] \in Entry
      /\ \A i, k \in 1..Len(j) : i < k => j[i].id < j[k].id
  BY DEF JournalOK
<1>2. \A i \in 1..Len(j) : j[i].id \in Nat /\ j[i].seq \in Nat
  BY <1>1 DEF Entry
<1>3. \A i \in 1..Len(j) : j[i].id = j[Len(j)].id => i = Len(j)
  BY <1>1, <1>2
<1>4. LastSeq(s) \in Nat
  BY LastSeqIsGreatest
<1>5. \A i \in 1..Len(j) : j[i].seq <= LastSeq(s) => j[i].id # j[Len(j)].id
  BY <1>1, <1>2, <1>3, <1>4
<1> QED
  BY <1>5 DEF Fits

LEMMA BodyGrows ==
  ASSUME NEW g \in Nat, NEW s, BodyOK(s, g)
  PROVE  BodyOK(s, g + 1)
<1>1. \A i \in 1..Len(s) : s[i] \in Input /\ s[i].id <= g
  BY DEF BodyOK
<1> QED
  BY <1>1 DEF BodyOK, Input

LEMMA JournalGrows ==
  ASSUME NEW g \in Nat, NEW j, JournalOK(j, g)
  PROVE  JournalOK(j, g + 1)
<1>1. \A i \in 1..Len(j) : j[i] \in Entry /\ j[i].id <= g
  BY DEF JournalOK
<1>2. \A i \in 1..Len(j) : j[i].id <= g + 1
  BY <1>1 DEF Entry
<1> QED
  BY <1>2 DEF JournalOK

-----------------------------------------------------------------------------
(* The invariant.                                                           *)

FileOK(f, g, j, P) ==
  f.kind = "image" => /\ f.upto = LastSeq(f.body)
                      /\ BodyOK(f.body, g)
                      /\ Fits(f.body, j, P)

CountsOK == given \in Nat /\ acked \subseteq 1..given /\ promised \subseteq acked

WrittenOK == JournalOK(jfile, given) /\ synced \in 0..Len(jfile)

\* The two files the path may name; the one a power failure may bring back is
\* not the newer.
ImagesOK ==
  /\ FileOK(snap, given, jfile, promised)
  /\ FileOK(disk, given, jfile, promised)
  /\ disk.kind = "image" => snap.kind = "image" /\ disk.upto <= snap.upto

TmpOK ==
  pc \in {"written", "safe"} => tmp.kind = "image" /\ tmp.upto = LastSeq(state) /\ tmp.body = state

\* What was promised is on the disk where a replay gets to it; what was only
\* acknowledged lies behind a torn record that no power failure takes away.
PromisesKept ==
  /\ \A p \in promised : \E i \in 1..synced : jfile[i].id = p /\ Reached(jfile, i)
  /\ acked # promised => \E i \in 1..synced : ~jfile[i].whole

MemoryOK ==
  /\ BodyOK(state, given)
  /\ pc # "down" =>
    /\ Fits(state, jfile, promised)
    /\ promised \subseteq Ids(state)
    /\ ~res.journal_torn => acked \subseteq Ids(state)
    /\ next \in Nat /\ next > LastSeq(state)
    /\ snap.kind = "image" => snap.upto <= LastSeq(state)

\* No number is given twice to records a replay gets to.
NumbersOK ==
  /\ pc \notin {"down", "flushed"} => \A i \in 1..Len(jfile) : Reached(jfile, i) => jfile[i].seq < next
  /\ pc = "flushed" =>
       /\ jfile # <<>> /\ jfile[Len(jfile)] = [seq |-> next, id |-> given, whole |-> TRUE]
       /\ \A i \in 1..Len(jfile) : Reached(jfile, i) => jfile[i].seq <= next
       /\ \A n \in 1..Len(state) : state[n].id < given

RInv == CountsOK /\ WrittenOK /\ ImagesOK /\ TmpOK /\ PromisesKept /\ MemoryOK /\ NumbersOK

LEMMA InitRInv == Init => RInv
<1> SUFFICES ASSUME Init PROVE RInv
  OBVIOUS
<1>1. JournalOK(<<>>, 0) /\ BodyOK(<<>>, 0) /\ Len(<<>>) = 0
  BY DEF JournalOK, BodyOK, Sorted
<1> QED
  BY <1>1 DEF Init, NoFile, RInv, CountsOK, WrittenOK, ImagesOK, FileOK, TmpOK, PromisesKept,
     MemoryOK, NumbersOK

LEMMA RecoverRInv == RInv /\ recover => RInv'
<1> SUFFICES ASSUME RInv, recover PROVE RInv'
  OBVIOUS
<1>0. CountsOK /\ WrittenOK /\ ImagesOK /\ TmpOK /\ PromisesKept
  BY DEF RInv
<1>1. /\ pc = "down" /\ pc' = "ready" /\ state' = recovered /\ next' = LastSeq(recovered) + 1
      /\ res'.journal_torn = (Torn(jfile) # {})
      /\ UNCHANGED <<jfile, synced, snap, disk, tmp, given, acked, promised>>
  BY DEF recover, loaded, journal, snapshots, ghosts
<1> DEFINE body == IF used THEN snap.body ELSE <<>>
<1>2. given \in Nat /\ JournalOK(jfile, given) /\ synced \in 0..Len(jfile) /\ jfile \in Seq(Entry)
  BY <1>0 DEF CountsOK, WrittenOK, JournalOK
<1>3. BodyOK(body, given) /\ Fits(body, jfile, promised)
      /\ (IF used THEN snap.upto ELSE 0) = LastSeq(body)
  <2>1. CASE used
    BY <1>0, <2>1 DEF used, ImagesOK, FileOK
  <2>2. CASE ~used
    <3>1. body = <<>> /\ Len(<<>>) = 0 /\ LastSeq(body) = 0
      BY <2>2 DEF LastSeq
    <3>2. BodyOK(<<>>, given)
      BY DEF BodyOK, Sorted
    <3>3. \A i \in 1..Len(jfile) : jfile[i].seq >= 1 /\ jfile[i].seq \in Nat
      <4>1. \A i \in 1..Len(jfile) : jfile[i] \in Entry /\ jfile[i].seq >= 1
        BY <1>2 DEF JournalOK
      <4> QED
        BY <4>1 DEF Entry
    <3>4. Fits(<<>>, jfile, promised)
      BY <3>1, <3>3 DEF Fits, LastSeq
    <3> QED
      BY <2>2, <3>1, <3>2, <3>4
  <2> QED
    BY <2>1, <2>2
<1>4. recovered = replayed(body, journal_replay(jfile), LastSeq(body))[played(jfile)]
  BY <1>3 DEF recovered
<1>5. used => LastSeq(body) = snap.upto
  BY <1>3
<1> HIDE DEF body
<1>6. Recovers(recovered, body, jfile, given, promised)
  BY <1>2, <1>3, <1>4, ReplayRecovers
<1>7. /\ BodyOK(recovered, given) /\ LastSeq(recovered) >= LastSeq(body)
      /\ \A i \in 1..Len(jfile) : Reached(jfile, i) =>
            jfile[i].seq <= LastSeq(recovered) /\ (jfile[i].id \in promised => jfile[i].id \in Ids(recovered))
  BY <1>6 DEF Recovers
<1>8. /\ LastSeq(recovered) \in Nat /\ LastSeq(body) \in Nat
      /\ \A i \in 1..Len(jfile) : jfile[i].seq \in Nat
  <2>1. \A i \in 1..Len(jfile) : jfile[i] \in Entry
    BY <1>2
  <2>2. \A i \in 1..Len(jfile) : jfile[i].seq \in Nat
    BY <2>1 DEF Entry
  <2> QED
    BY <1>3, <1>7, <2>2, LastSeqIsGreatest DEF BodyOK
<1>9. promised \subseteq Ids(recovered)
  <2> SUFFICES ASSUME NEW p \in promised PROVE p \in Ids(recovered)
    OBVIOUS
  <2>1. PICK i \in 1..synced : jfile[i].id = p /\ Reached(jfile, i)
    BY <1>0 DEF PromisesKept
  <2>2. i \in 1..Len(jfile)
    BY <1>2, <2>1
  <2> QED
    BY <1>7, <2>1, <2>2
<1>10. Torn(jfile) = {} => acked \subseteq Ids(recovered)
  <2> SUFFICES ASSUME Torn(jfile) = {} PROVE acked = promised
    BY <1>9
  <2>1. \A i \in 1..synced : jfile[i].whole
    BY <1>2 DEF Torn
  <2> QED
    BY <1>0, <2>1 DEF PromisesKept
<1>11. Fits(recovered, jfile, promised)
  BY <1>7, <1>8 DEF Fits
<1> HIDE DEF recovered
<1>12. MemoryOK'
  <2>1. BodyOK(state, given)' /\ Fits(state, jfile, promised)'
    BY <1>1, <1>7, <1>11
  <2>2. promised' \subseteq Ids(state') /\ (~res'.journal_torn => acked' \subseteq Ids(state'))
    BY <1>1, <1>9, <1>10
  <2>3. next' \in Nat /\ next' > LastSeq(state')
    BY <1>1, <1>8
  <2>4. snap'.kind = "image" => snap'.upto <= LastSeq(state')
    BY <1>1, <1>5, <1>7, <1>8 DEF used
  <2> QED
    BY <2>1, <2>2, <2>3, <2>4 DEF MemoryOK
<1>13. NumbersOK'
  BY <1>1, <1>7, <1>8 DEF NumbersOK
<1>14. CountsOK' /\ WrittenOK' /\ ImagesOK' /\ TmpOK' /\ PromisesKept'
  BY <1>0, <1>1 DEF CountsOK, WrittenOK, ImagesOK, TmpOK, PromisesKept
<1> QED
  BY <1>12, <1>13, <1>14 DEF RInv

LEMMA FlushRInv == RInv /\ append_flush => RInv'
<1> SUFFICES ASSUME RInv, append_flush PROVE RInv'
  OBVIOUS
<1>0. CountsOK /\ WrittenOK /\ ImagesOK /\ PromisesKept /\ MemoryOK /\ NumbersOK
  BY DEF RInv
<1> DEFINE e == [seq |-> next, id |-> given + 1, whole |-> TRUE]
<1>1. /\ pc = "ready" /\ pc' = "flushed" /\ given' = given + 1 /\ jfile' = Append(jfile, e)
      /\ UNCHANGED <<state, next, res, synced, snap, disk, tmp, acked, promised>>
  BY DEF append_flush, Current, mem, snapshots
<1>2. /\ given \in Nat /\ acked \subseteq 1..given /\ promised \subseteq acked
      /\ JournalOK(jfile, given) /\ synced \in 0..Len(jfile) /\ Len(jfile) \in Nat
  BY <1>0 DEF CountsOK, WrittenOK, JournalOK
<1>3. /\ BodyOK(state, given) /\ Fits(state, jfile, promised) /\ next \in Nat /\ next > LastSeq(state)
      /\ LastSeq(state) \in Nat
      /\ \A i \in 1..Len(jfile) : Reached(jfile, i) => jfile[i].seq < next
  BY <1>0, <1>1, LastSeqIsGreatest DEF MemoryOK, NumbersOK, BodyOK
<1>4. next >= 1
  BY <1>3
<1>5. /\ JournalOK(Append(jfile, e), given + 1)
      /\ Len(Append(jfile, e)) = Len(jfile) + 1 /\ Append(jfile, e)[Len(jfile) + 1] = e
      /\ \A i \in 1..Len(jfile) : /\ Append(jfile, e)[i] = jfile[i]
                                  /\ Reached(Append(jfile, e), i) <=> Reached(jfile, i)
  BY <1>2, <1>3, <1>4, AppendRecord
<1>6. ASSUME NEW s, BodyOK(s, given), Fits(s, jfile, promised)
      PROVE  BodyOK(s, given') /\ Fits(s, jfile', promised)
  <2>1. promised \subseteq 1..given
    BY <1>2
  <2> QED
    BY <1>1, <1>2, <1>3, <1>4, <1>6, <2>1, FitsAppended, BodyGrows
<1>7. ASSUME NEW f, FileOK(f, given, jfile, promised)
      PROVE  FileOK(f, given', jfile', promised)
  BY <1>6, <1>7 DEF FileOK
<1>8. /\ Len(jfile') = Len(jfile) + 1 /\ jfile'[Len(jfile')] = e /\ e.seq = next
      /\ \A i \in 1..Len(jfile) : jfile'[i] = jfile[i] /\ (Reached(jfile', i) <=> Reached(jfile, i))
  BY <1>1, <1>5
<1>9. CountsOK' /\ WrittenOK'
  <2>1. 1..given \subseteq 1..(given + 1) /\ given + 1 \in Nat
    BY <1>2
  <2> QED
    BY <1>1, <1>2, <1>5, <1>8, <2>1 DEF CountsOK, WrittenOK
<1>10. ImagesOK' /\ TmpOK'
  BY <1>0, <1>1, <1>7 DEF ImagesOK, TmpOK
<1>11. PromisesKept'
  <2>1. \A i \in 1..synced : i \in 1..Len(jfile)
    BY <1>2
  <2> QED
    BY <1>0, <1>1, <1>8, <2>1 DEF PromisesKept
<1>12. MemoryOK'
  BY <1>0, <1>1, <1>3, <1>6 DEF MemoryOK
<1>13. NumbersOK'
  <2>1. \A i \in 1..Len(jfile') : Reached(jfile', i) => jfile'[i].seq <= next
    <3>1. \A i \in 1..Len(jfile') : i \in 1..Len(jfile) \/ i = Len(jfile')
      BY <1>2, <1>8
    <3>2. \A i \in 1..Len(jfile) : Reached(jfile, i) => jfile[i].seq <= next
      <4>1. \A i \in 1..Len(jfile) : jfile[i] \in Entry
        BY <1>2 DEF JournalOK
      <4> QED
        BY <1>3, <4>1 DEF Entry
    <3>3. next <= next
      BY <1>3
    <3> QED
      BY <1>8, <3>1, <3>2, <3>3
  <2>2. \A n \in 1..Len(state) : state[n].id < given + 1
    <3>1. \A n \in 1..Len(state) : state[n] \in Input /\ state[n].id <= given
      BY <1>3 DEF BodyOK
    <3> QED
      BY <1>2, <3>1 DEF Input
  <2>3. jfile' # <<>>
    BY <1>2, <1>8
  <2> QED
    BY <1>1, <1>8, <2>1, <2>2, <2>3 DEF NumbersOK
<1> QED
  BY <1>9, <1>10, <1>11, <1>12, <1>13 DEF RInv

LEMMA SyncRInv == RInv /\ append_sync => RInv'
<1> SUFFICES ASSUME RInv, append_sync PROVE RInv'
  OBVIOUS
<1>0. CountsOK /\ WrittenOK /\ ImagesOK /\ PromisesKept /\ MemoryOK /\ NumbersOK
  BY DEF RInv
<1> DEFINE e == [seq |-> next, id |-> given]
           P == promised'
<1>1. /\ pc = "flushed" /\ pc' = "ready" /\ synced' = Len(jfile) /\ state' = Append(state, e)
      /\ next' = next + 1 /\ acked' = acked \cup {given}
      /\ P = IF Torn(jfile) = {} THEN promised \cup {given} ELSE promised
      /\ UNCHANGED <<res, jfile, snap, disk, tmp, given>>
  BY DEF append_sync, snapshots
<1>2. /\ given \in Nat /\ acked \subseteq 1..given /\ promised \subseteq acked
      /\ JournalOK(jfile, given) /\ synced \in 0..Len(jfile) /\ Len(jfile) \in Nat
      /\ jfile \in Seq(Entry)
  BY <1>0 DEF CountsOK, WrittenOK, JournalOK
<1>3. /\ BodyOK(state, given) /\ Fits(state, jfile, promised) /\ promised \subseteq Ids(state)
      /\ ~res.journal_torn => acked \subseteq Ids(state)
      /\ next \in Nat /\ next > LastSeq(state)
      /\ snap.kind = "image" => snap.upto <= LastSeq(state)
  BY <1>0, <1>1 DEF MemoryOK
<1>4. /\ jfile # <<>> /\ jfile[Len(jfile)] = [seq |-> next, id |-> given, whole |-> TRUE]
      /\ \A i \in 1..Len(jfile) : Reached(jfile, i) => jfile[i].seq <= next
      /\ \A n \in 1..Len(state) : state[n].id < given
  BY <1>0, <1>1 DEF NumbersOK
<1>5. Len(jfile) \in 1..Len(jfile) /\ jfile[Len(jfile)].seq = next /\ jfile[Len(jfile)].id = given
  BY <1>2, <1>4
<1>6. given \in 1..given
  BY <1>2, <1>5 DEF JournalOK
<1>7. BodyOK(state', given) /\ LastSeq(state') = next /\ Ids(state') = Ids(state) \cup {given}
  <2>1. e \in Input /\ e.seq = next /\ e.id = given /\ e.id <= given
    BY <1>2, <1>3 DEF Input
  <2> HIDE DEF e
  <2> QED
    BY <1>1, <1>2, <1>3, <1>4, <2>1, AppendInput
<1>8. LastSeq(state) \in Nat
  BY <1>3, LastSeqIsGreatest DEF BodyOK
<1>9. ASSUME NEW s, BodyOK(s, given), Fits(s, jfile, promised), LastSeq(s) <= LastSeq(state)
      PROVE  Fits(s, jfile, P)
  <2>1. s \in Seq(Input) /\ Sorted(s) /\ LastSeq(s) \in Nat
    BY <1>9, LastSeqIsGreatest DEF BodyOK
  <2>2. next > LastSeq(s)
    BY <1>3, <1>8, <1>9, <2>1
  <2>3. Fits(s, jfile, promised \cup {given})
    BY <1>2, <1>4, <1>5, <1>9, <2>1, <2>2, FitsPromise
  <2> QED
    BY <1>1, <1>9, <2>3
<1>10. ASSUME NEW f, FileOK(f, given, jfile, promised), f.kind = "image" => f.upto <= LastSeq(state)
       PROVE  FileOK(f, given, jfile, P)
  BY <1>9, <1>10 DEF FileOK
<1>11. disk.kind = "image" => disk.upto <= LastSeq(state)
  <2> SUFFICES ASSUME disk.kind = "image" PROVE disk.upto <= LastSeq(state)
    OBVIOUS
  <2>1. snap.kind = "image" /\ disk.upto <= snap.upto /\ snap.upto <= LastSeq(state)
    BY <1>0, <1>3 DEF ImagesOK
  <2>2. disk.upto = LastSeq(disk.body) /\ snap.upto = LastSeq(snap.body)
        /\ BodyOK(disk.body, given) /\ BodyOK(snap.body, given)
    BY <1>0, <2>1 DEF ImagesOK, FileOK
  <2>3. disk.upto \in Nat /\ snap.upto \in Nat
    BY <2>2, LastSeqIsGreatest DEF BodyOK
  <2> QED
    BY <1>8, <2>1, <2>3
<1>12. ImagesOK'
  BY <1>0, <1>1, <1>3, <1>10, <1>11 DEF ImagesOK
<1>13. CountsOK' /\ WrittenOK' /\ TmpOK'
  BY <1>0, <1>1, <1>2, <1>6 DEF CountsOK, WrittenOK, TmpOK
<1>14. PromisesKept'
  <2>1. \A i \in 1..synced : i \in 1..Len(jfile)
    BY <1>2
  <2>2. CASE Torn(jfile) = {}
    <3>1. \A i \in 1..Len(jfile) : jfile[i].whole
      BY <1>2, <2>2 DEF Torn
    <3>2. Reached(jfile, Len(jfile))
      BY <3>1 DEF Reached
    <3>3. acked = promised
      BY <1>0, <2>1, <3>1 DEF PromisesKept
    <3>4. P = acked'
      BY <1>1, <2>2, <3>3
    <3> QED
      BY <1>0, <1>1, <1>5, <2>1, <2>2, <3>2, <3>4 DEF PromisesKept
  <2>3. CASE Torn(jfile) # {}
    <3>1. \E i \in 1..Len(jfile) : ~jfile[i].whole
      BY <1>2, <2>3 DEF Torn
    <3> QED
      BY <1>0, <1>1, <2>1, <2>3, <3>1 DEF PromisesKept
  <2> QED
    BY <2>2, <2>3
<1>15. P \subseteq Ids(state') /\ (~res.journal_torn => acked' \subseteq Ids(state'))
  BY <1>1, <1>3, <1>7
<1>16. Fits(state', jfile, P)
  <2>1. \A i \in 1..Len(jfile) : jfile[i] \in Entry
    BY <1>2
  <2>2. \A i \in 1..Len(jfile) : jfile[i].seq \in Nat
    BY <2>1 DEF Entry
  <2> QED
    BY <1>3, <1>4, <1>7, <1>15, <2>2 DEF Fits
<1>17. MemoryOK'
  <2>1. next' \in Nat /\ next' > LastSeq(state')
    BY <1>1, <1>3, <1>7
  <2>2. snap'.kind = "image" => snap'.upto <= LastSeq(state')
    <3>1. snap.kind = "image" => snap.upto \in Nat
      <4>1. snap.kind = "image" => snap.upto = LastSeq(snap.body) /\ BodyOK(snap.body, given)
        BY <1>0 DEF ImagesOK, FileOK
      <4> QED
        BY <4>1, LastSeqIsGreatest DEF BodyOK
    <3> QED
      BY <1>1, <1>3, <1>7, <1>8, <3>1
  <2> QED
    BY <1>1, <1>7, <1>15, <1>16, <2>1, <2>2 DEF MemoryOK
<1>18. NumbersOK'
  <2>1. \A i \in 1..Len(jfile) : jfile[i] \in Entry
    BY <1>2
  <2>2. \A i \in 1..Len(jfile) : jfile[i].seq \in Nat
    BY <2>1 DEF Entry
  <2> QED
    BY <1>1, <1>3, <1>4, <2>2 DEF NumbersOK
<1> QED
  BY <1>12, <1>13, <1>14, <1>17, <1>18 DEF RInv

\* A snapshot goes with a journal that has lost records.
LEMMA WithinKeepsImages ==
  ASSUME ImagesOK, NEW j2, Within(j2, jfile),
         NEW g2, \A s : BodyOK(s, given) => BodyOK(s, g2)
  PROVE  /\ FileOK(snap, g2, j2, promised)
         /\ FileOK(disk, g2, j2, promised)
<1>1. \A s : Fits(s, jfile, promised) => Fits(s, j2, promised)
  BY FitsWithin
<1> QED
  BY <1>1 DEF ImagesOK, FileOK

\* The three ways the journal file changes when an append fails or the process
\* is killed: not at all, or a torn record is left, with or without the number
\* of inputs given growing.
LEMMA TornRecord ==
  ASSUME CountsOK, WrittenOK, PromisesKept, next \in Nat, next >= 1,
         NEW j2, NEW g2,
         \/ j2 = jfile /\ g2 \in {given, given + 1}
         \/ j2 = Append(jfile, Current(FALSE)) /\ g2 = given + 1
  PROVE  /\ g2 \in Nat /\ 1..given \subseteq 1..g2
         /\ JournalOK(j2, g2) /\ synced \in 0..Len(j2) /\ Within(j2, jfile)
         /\ \A s : BodyOK(s, given) => BodyOK(s, g2)
         /\ \A p \in promised : \E i \in 1..synced : j2[i].id = p /\ Reached(j2, i)
         /\ acked # promised => \E i \in 1..synced : ~j2[i].whole
<1>1. /\ given \in Nat /\ JournalOK(jfile, given) /\ synced \in 0..Len(jfile) /\ Len(jfile) \in Nat
      /\ \A i \in 1..synced : i \in 1..Len(jfile)
  BY DEF CountsOK, WrittenOK, JournalOK
<1>2. /\ \A p \in promised : \E i \in 1..synced : jfile[i].id = p /\ Reached(jfile, i)
      /\ acked # promised => \E i \in 1..synced : ~jfile[i].whole
  BY DEF PromisesKept
<1>3. g2 \in Nat /\ 1..given \subseteq 1..g2 /\ \A s : BodyOK(s, given) => BodyOK(s, g2)
  <2>1. g2 = given \/ g2 = given + 1
    OBVIOUS
  <2>2. \A s : BodyOK(s, given) => BodyOK(s, given + 1)
    BY <1>1, BodyGrows
  <2>3. g2 \in Nat /\ 1..given \subseteq 1..g2
    BY <1>1, <2>1
  <2> QED
    BY <2>1, <2>2, <2>3
<1>4. CASE j2 = jfile
  <2>1. Within(jfile, jfile)
    BY DEF Within
  <2>2. JournalOK(jfile, g2)
    BY <1>1, JournalGrows
  <2> QED
    BY <1>1, <1>2, <1>3, <1>4, <2>1, <2>2
<1>5. CASE j2 = Append(jfile, Current(FALSE)) /\ g2 = given + 1
  <2>1. /\ JournalOK(j2, given + 1) /\ Within(j2, jfile) /\ Len(j2) = Len(jfile) + 1
        /\ \A i \in 1..Len(jfile) : j2[i] = jfile[i] /\ (Reached(j2, i) <=> Reached(jfile, i))
    <3> DEFINE e == [seq |-> next, id |-> given + 1, whole |-> FALSE]
    <3>1. j2 = Append(jfile, e)
      BY <1>5 DEF Current
    <3>2. /\ JournalOK(Append(jfile, e), given + 1) /\ Within(Append(jfile, e), jfile)
          /\ Len(Append(jfile, e)) = Len(jfile) + 1
          /\ \A i \in 1..Len(jfile) : /\ Append(jfile, e)[i] = jfile[i]
                                      /\ Reached(Append(jfile, e), i) <=> Reached(jfile, i)
      BY <1>1, AppendRecord
    <3> QED
      BY <3>1, <3>2
  <2>2. synced \in 0..Len(j2)
    BY <1>1, <2>1
  <2> QED
    BY <1>1, <1>2, <1>3, <1>5, <2>1, <2>2
<1> QED
  BY <1>4, <1>5

LEMMA FailRInv == RInv /\ append_fails => RInv'
<1> SUFFICES ASSUME RInv, append_fails PROVE RInv'
  OBVIOUS
<1>0. CountsOK /\ WrittenOK /\ ImagesOK /\ PromisesKept /\ MemoryOK /\ NumbersOK
  BY DEF RInv
<1>1. /\ pc \in {"ready", "flushed"} /\ pc' = "ready" /\ next' = next + 1
      /\ UNCHANGED <<state, res, synced, snap, disk, tmp, acked, promised>>
      /\ \/ jfile' = jfile /\ given' \in {given, given + 1}
         \/ jfile' = Append(jfile, Current(FALSE)) /\ given' = given + 1
  BY DEF append_fails, snapshots
<1>2. /\ BodyOK(state, given) /\ Fits(state, jfile, promised) /\ promised \subseteq Ids(state)
      /\ ~res.journal_torn => acked \subseteq Ids(state)
      /\ next \in Nat /\ next > LastSeq(state)
      /\ snap.kind = "image" => snap.upto <= LastSeq(state)
  BY <1>0, <1>1 DEF MemoryOK
<1>3. LastSeq(state) \in Nat /\ next >= 1 /\ next + 1 > LastSeq(state) /\ next + 1 \in Nat
  <2>1. LastSeq(state) \in Nat
    BY <1>2, LastSeqIsGreatest DEF BodyOK
  <2> QED
    BY <1>2, <2>1
<1>4. /\ given' \in Nat /\ 1..given \subseteq 1..given'
      /\ JournalOK(jfile', given') /\ synced \in 0..Len(jfile') /\ Within(jfile', jfile)
      /\ \A s : BodyOK(s, given) => BodyOK(s, given')
      /\ \A p \in promised : \E i \in 1..synced : jfile'[i].id = p /\ Reached(jfile', i)
      /\ acked # promised => \E i \in 1..synced : ~jfile'[i].whole
  BY <1>0, <1>1, <1>2, <1>3, TornRecord
<1>5. CountsOK' /\ WrittenOK' /\ TmpOK' /\ PromisesKept'
  BY <1>0, <1>1, <1>4 DEF CountsOK, WrittenOK, TmpOK, PromisesKept
<1>6. ImagesOK'
  BY <1>0, <1>1, <1>4, WithinKeepsImages DEF ImagesOK
<1>7. MemoryOK'
  BY <1>1, <1>2, <1>3, <1>4, FitsWithin DEF MemoryOK
<1>8. NumbersOK'
  <2>1. \A i \in 1..Len(jfile) : jfile[i] \in Entry
    BY <1>0 DEF WrittenOK, JournalOK
  <2>2. \A i \in 1..Len(jfile) : jfile[i].seq \in Nat
    BY <2>1 DEF Entry
  <2>3. \A i \in 1..Len(jfile) : Reached(jfile, i) => jfile[i].seq < next + 1
    BY <1>0, <1>1, <1>2, <2>2 DEF NumbersOK
  <2> QED
    BY <1>1, <1>4, <2>3 DEF NumbersOK, Within
<1> QED
  BY <1>5, <1>6, <1>7, <1>8 DEF RInv

LEMMA KillRInv == RInv /\ Kill => RInv'
<1> SUFFICES ASSUME RInv, Kill PROVE RInv'
  OBVIOUS
<1>0. CountsOK /\ WrittenOK /\ ImagesOK /\ PromisesKept /\ MemoryOK
  BY DEF RInv
<1>1. /\ pc # "down" /\ pc' = "down"
      /\ UNCHANGED <<state, synced, snap, disk, acked, promised>>
      /\ \/ jfile' = jfile /\ given' \in {given, given + 1}
         \/ jfile' = Append(jfile, Current(FALSE)) /\ given' = given + 1
  BY DEF Kill, snapshots, mem
<1>2. next \in Nat /\ next >= 1
  <2>1. LastSeq(state) \in Nat /\ next \in Nat /\ next > LastSeq(state)
    BY <1>0, <1>1, LastSeqIsGreatest DEF MemoryOK, BodyOK
  <2> QED
    BY <2>1
<1>3. /\ given' \in Nat /\ 1..given \subseteq 1..given'
      /\ JournalOK(jfile', given') /\ synced \in 0..Len(jfile') /\ Within(jfile', jfile)
      /\ \A s : BodyOK(s, given) => BodyOK(s, given')
      /\ \A p \in promised : \E i \in 1..synced : jfile'[i].id = p /\ Reached(jfile', i)
      /\ acked # promised => \E i \in 1..synced : ~jfile'[i].whole
  BY <1>0, <1>1, <1>2, TornRecord
<1>4. CountsOK' /\ WrittenOK' /\ TmpOK' /\ PromisesKept' /\ MemoryOK' /\ NumbersOK'
  BY <1>0, <1>1, <1>3 DEF CountsOK, WrittenOK, TmpOK, PromisesKept, MemoryOK, NumbersOK
<1>5. ImagesOK'
  BY <1>0, <1>1, <1>3, WithinKeepsImages DEF ImagesOK
<1> QED
  BY <1>4, <1>5 DEF RInv

LEMMA PowerRInv == RInv /\ PowerFails => RInv'
<1> SUFFICES ASSUME RInv, PowerFails PROVE RInv'
  OBVIOUS
<1>0. CountsOK /\ WrittenOK /\ ImagesOK /\ PromisesKept /\ BodyOK(state, given)
  BY DEF RInv, MemoryOK
<1>1. /\ pc' = "down" /\ synced' = Len(jfile') /\ UNCHANGED <<state, given, acked, promised>>
      /\ \E f \in {snap, disk} : snap' = AfterPower(f) /\ disk' = AfterPower(f)
      /\ \E n \in synced..Len(jfile) :
           \/ jfile' = SubSeq(jfile, 1, n)
           \/ /\ n < Len(jfile)
              /\ jfile' = Append(SubSeq(jfile, 1, n), [jfile[n + 1] EXCEPT !.whole = FALSE])
  BY DEF PowerFails, ghosts, mem
<1>2. /\ jfile \in Seq(Entry) /\ Len(jfile) \in Nat /\ synced \in 0..Len(jfile)
      /\ JournalOK(jfile, given) /\ \A i \in 1..Len(jfile) : jfile[i] \in Entry
  BY <1>0 DEF WrittenOK, JournalOK
<1>3. PICK n \in synced..Len(jfile) :
        \/ jfile' = SubSeq(jfile, 1, n)
        \/ /\ n < Len(jfile)
           /\ jfile' = Append(SubSeq(jfile, 1, n), [jfile[n + 1] EXCEPT !.whole = FALSE])
  BY <1>1
<1> DEFINE start == SubSeq(jfile, 1, n)
<1>4. /\ start \in Seq(Entry) /\ Len(start) = n /\ n \in Nat /\ n <= Len(jfile)
      /\ \A i \in 1..n : start[i] = jfile[i]
  BY <1>2
<1> HIDE DEF start
<1>5. /\ Cut(jfile', jfile) /\ n <= Len(jfile')
      /\ \A i \in 1..n : jfile'[i] = jfile[i]
  <2>1. CASE jfile' = start
    BY <1>4, <2>1 DEF Cut
  <2>2. CASE n < Len(jfile) /\ jfile' = Append(start, [jfile[n + 1] EXCEPT !.whole = FALSE])
    <3> DEFINE e == [jfile[n + 1] EXCEPT !.whole = FALSE]
    <3>1. n + 1 \in 1..Len(jfile) /\ jfile[n + 1] \in Entry
      BY <1>2, <1>4, <2>2
    <3>2. e \in Entry /\ e.seq = jfile[n + 1].seq /\ e.id = jfile[n + 1].id /\ ~e.whole
      BY <3>1 DEF Entry
    <3> HIDE DEF e
    <3>3. jfile' = Append(start, e)
      BY <2>2 DEF e
    <3>4. /\ jfile' \in Seq(Entry) /\ Len(jfile') = n + 1 /\ jfile'[n + 1] = e
          /\ \A i \in 1..n : jfile'[i] = jfile[i]
      BY <1>4, <3>2, <3>3
    <3>5. \A i \in 1..Len(jfile') : i \in 1..n \/ i = n + 1
      BY <1>4, <3>4
    <3>6. \A i \in 1..Len(jfile') : /\ jfile'[i].seq = jfile[i].seq /\ jfile'[i].id = jfile[i].id
                                    /\ jfile'[i].whole => jfile[i].whole
      BY <3>2, <3>4, <3>5
    <3>7. n + 1 <= Len(jfile) /\ n <= n + 1
      BY <1>2, <1>4, <2>2
    <3> QED
      BY <3>4, <3>6, <3>7 DEF Cut
  <2> QED
    BY <1>3, <2>1, <2>2 DEF start
<1>6. JournalOK(jfile', given) /\ Within(jfile', jfile)
  BY <1>2, <1>5, CutKeeps
<1>7. FileOK(snap, given, jfile', promised) /\ FileOK(disk, given, jfile', promised)
  BY <1>0, <1>6, WithinKeepsImages
<1>8. PICK f \in {snap, disk} : snap' = AfterPower(f) /\ disk' = AfterPower(f)
  BY <1>1
<1>9. FileOK(AfterPower(f), given, jfile', promised)
  BY <1>7, <1>8 DEF FileOK, AfterPower, Damaged
<1>10. disk' = snap' /\ (disk'.kind = "image" => disk'.upto <= snap'.upto)
  <2>1. disk'.kind = "image" => disk'.upto \in Nat
    <3>1. disk'.kind = "image" => disk'.upto = LastSeq(disk'.body) /\ BodyOK(disk'.body, given)
      BY <1>8, <1>9 DEF FileOK
    <3> QED
      BY <3>1, LastSeqIsGreatest DEF BodyOK
  <2> QED
    BY <1>8, <2>1
<1>11. ImagesOK'
  BY <1>1, <1>8, <1>9, <1>10 DEF ImagesOK
<1>12. PromisesKept'
  <2>1. \A i \in 1..synced : i \in 1..n /\ i \in 1..Len(jfile')
    <3>1. Len(jfile') \in Nat
      BY <1>5 DEF Cut
    <3> QED
      BY <1>2, <1>3, <1>4, <1>5, <3>1
  <2>2. \A i \in 1..synced : Reached(jfile, i) => Reached(jfile', i)
    BY <1>2, <1>4, <1>5, <2>1 DEF Reached
  <2> QED
    BY <1>0, <1>1, <1>5, <2>1, <2>2 DEF PromisesKept
<1>13. CountsOK' /\ WrittenOK' /\ TmpOK' /\ MemoryOK' /\ NumbersOK'
  <2>1. Len(jfile') \in 0..Len(jfile')
    BY <1>5 DEF Cut
  <2> QED
    BY <1>0, <1>1, <1>6, <2>1 DEF CountsOK, WrittenOK, TmpOK, MemoryOK, NumbersOK
<1> QED
  BY <1>11, <1>12, <1>13 DEF RInv

-----------------------------------------------------------------------------
(* The files of the snapshot.                                               *)

Rotten == spent["rots"] > 0

\* A file that may stand at the snapshot's path: none, or one whose bytes are
\* all on the disk, or one the disk has damaged since.
Settled(f) == \/ f.kind = "none"
              \/ f.kind = "damaged" /\ Rotten
              \/ f.kind = "image" /\ f.safe

\* The strengthening SnapshotWhole needs: the path may name either of two files
\* until a power failure decides, so both are settled; and the temporary file
\* has become what the step of snapshot_write before the next one made it.
IInv == /\ spent \in [Failures -> Nat]
        /\ Settled(snap)
        /\ Settled(disk)
        /\ pc = "written" => tmp.kind = "image" /\ DOMAIN tmp = {"kind", "upto", "body", "safe"}
        /\ pc = "safe" => tmp.kind = "image" /\ tmp.safe

\* Counting a failure keeps the counters natural numbers and never takes back
\* that a file has decayed.
LEMMA SpendCounts ==
  ASSUME NEW kind \in Failures, NEW bound, spent \in [Failures -> Nat], Spend(kind, bound)
  PROVE  /\ spent' \in [Failures -> Nat]
         /\ Rotten => Rotten'
         /\ kind = "rots" => Rotten'
<1>1. spent' = [spent EXCEPT ![kind] = spent[kind] + 1] /\ "rots" \in Failures
  BY DEF Spend, Failures
<1>2. spent[kind] \in Nat /\ spent["rots"] \in Nat
  BY <1>1
<1>3. spent' \in [Failures -> Nat]
  BY <1>1, <1>2
<1>4. spent'["rots"] = IF kind = "rots" THEN spent["rots"] + 1 ELSE spent["rots"]
  BY <1>1
<1> QED
  BY <1>2, <1>3, <1>4 DEF Rotten

\* A power failure leaves a settled file as it is.
LEMMA PowerSparesSettled ==
  ASSUME NEW f, Settled(f)
  PROVE  AfterPower(f) = f
  BY DEF Settled, AfterPower

LEMMA InitIInv == Init => IInv
  BY DEF Init, IInv, Settled, NoFile, Failures

LEMMA NextIInv == IInv /\ [Next]_vars => IInv'
<1> SUFFICES ASSUME IInv, [Next]_vars PROVE IInv'
  OBVIOUS
<1>0. /\ spent \in [Failures -> Nat]
      /\ Settled(snap) /\ Settled(disk)
      /\ pc = "written" => tmp.kind = "image" /\ DOMAIN tmp = {"kind", "upto", "body", "safe"}
      /\ pc = "safe" => tmp.kind = "image" /\ tmp.safe
  BY DEF IInv
<1>1. CASE recover
  BY <1>0, <1>1 DEF recover, loaded, snapshots, IInv, Settled, Rotten
<1>2. CASE append_flush
  BY <1>0, <1>2 DEF append_flush, snapshots, IInv, Settled, Rotten
<1>3. CASE append_sync
  BY <1>0, <1>3 DEF append_sync, snapshots, IInv, Settled, Rotten
<1>4. CASE append_fails
  <2>1. /\ pc' = "ready" /\ UNCHANGED snapshots
        /\ Spend("failures", MaxFailures) /\ "failures" \in Failures
    BY <1>4 DEF append_fails, Failures
  <2>2. spent' \in [Failures -> Nat] /\ (Rotten => Rotten')
    BY <1>0, <2>1, SpendCounts
  <2> QED
    BY <1>0, <2>1, <2>2 DEF IInv, Settled, snapshots
<1>5. CASE snapshot_open
  BY <1>0, <1>5 DEF snapshot_open, IInv, Settled, Rotten
<1>6. CASE snapshot_fill
  BY <1>0, <1>6 DEF snapshot_fill, Image, IInv, Settled, Rotten
<1>7. CASE snapshot_sync
  <2>1. tmp' = [tmp EXCEPT !.safe = TRUE] /\ pc = "written" /\ pc' = "safe"
    BY <1>7 DEF snapshot_sync
  <2>2. tmp'.kind = "image" /\ tmp'.safe
    BY <1>0, <2>1
  <2> QED
    BY <1>0, <1>7, <2>1, <2>2 DEF snapshot_sync, IInv, Settled, Rotten
<1>8. CASE snapshot_rename
  BY <1>0, <1>8 DEF snapshot_rename, IInv, Settled, Rotten
<1>9. CASE snapshot_fails
  <2>1. /\ pc' = "ready" /\ UNCHANGED <<snap, disk>>
        /\ Spend("failures", MaxFailures) /\ "failures" \in Failures
    BY <1>9 DEF snapshot_fails, Failures
  <2>2. spent' \in [Failures -> Nat] /\ (Rotten => Rotten')
    BY <1>0, <2>1, SpendCounts
  <2> QED
    BY <1>0, <2>1, <2>2 DEF IInv, Settled
<1>10. CASE Kill
  <2>1. /\ pc' = "down" /\ UNCHANGED snapshots
        /\ Spend("stops", MaxStops) /\ "stops" \in Failures
    BY <1>10 DEF Kill, Failures
  <2>2. spent' \in [Failures -> Nat] /\ (Rotten => Rotten')
    BY <1>0, <2>1, SpendCounts
  <2> QED
    BY <1>0, <2>1, <2>2 DEF IInv, Settled, snapshots
<1>11. CASE PowerFails
  <2>1. /\ pc' = "down" /\ Spend("stops", MaxStops) /\ "stops" \in Failures
        /\ \E f \in {snap, disk} : snap' = AfterPower(f) /\ disk' = AfterPower(f)
    BY <1>11 DEF PowerFails, Failures
  <2>2. spent' \in [Failures -> Nat] /\ (Rotten => Rotten')
    BY <1>0, <2>1, SpendCounts
  <2>3. PICK f \in {snap, disk} : snap' = AfterPower(f) /\ disk' = AfterPower(f)
    BY <2>1
  <2>4. Settled(f) /\ snap' = f /\ disk' = f
    BY <1>0, <2>3, PowerSparesSettled
  <2> QED
    BY <2>1, <2>2, <2>4 DEF IInv, Settled
<1>12. CASE Rot
  <2>1. /\ snap' = Damaged /\ disk' = Damaged /\ UNCHANGED <<pc, tmp>>
        /\ Spend("rots", MaxRots) /\ "rots" \in Failures
    BY <1>12 DEF Rot, Failures
  <2>2. spent' \in [Failures -> Nat] /\ Rotten'
    BY <1>0, <2>1, SpendCounts
  <2> QED
    BY <1>0, <2>1, <2>2 DEF IInv, Settled, Damaged
<1>13. CASE UNCHANGED vars
  BY <1>0, <1>13 DEF vars, snapshots, IInv, Settled, Rotten
<1> QED
  BY <1>1, <1>2, <1>3, <1>4, <1>5, <1>6, <1>7, <1>8, <1>9, <1>10, <1>11, <1>12, <1>13 DEF Next


-----------------------------------------------------------------------------
\* The steps that leave the journal and what was given, acknowledged and
\* promised as they are.
QuietStep ==
  /\ UNCHANGED <<state, next, res, jfile, synced, given, acked, promised>>
  /\ pc' = "down" <=> pc = "down"
  /\ pc' = "flushed" <=> pc = "flushed"

LEMMA QuietKeeps ==
  ASSUME RInv, QuietStep
  PROVE  CountsOK' /\ WrittenOK' /\ PromisesKept' /\ NumbersOK'
<1>1. CountsOK /\ WrittenOK /\ PromisesKept /\ NumbersOK
  BY DEF RInv
<1> QED
  BY <1>1 DEF QuietStep, CountsOK, WrittenOK, PromisesKept, NumbersOK

LEMMA SnapshotRInv ==
  ASSUME RInv, IInv,
         snapshot_open \/ snapshot_fill \/ snapshot_sync \/ snapshot_rename \/ snapshot_fails
  PROVE  RInv'
<1>0. ImagesOK /\ TmpOK /\ MemoryOK
  BY DEF RInv
<1>1. QuietStep /\ pc # "down"
  BY DEF snapshot_open, snapshot_fill, snapshot_sync, snapshot_rename, snapshot_fails,
         mem, journal, ghosts, QuietStep
<1>2. CountsOK' /\ WrittenOK' /\ PromisesKept' /\ NumbersOK'
  BY <1>1, QuietKeeps
<1>3. /\ BodyOK(state, given) /\ Fits(state, jfile, promised)
      /\ snap.kind = "image" => snap.upto <= LastSeq(state)
      /\ LastSeq(state) \in Nat
  BY <1>0, <1>1, LastSeqIsGreatest DEF MemoryOK, BodyOK
<1>4. TmpOK'
  <2>1. CASE snapshot_fill
    BY <1>1, <2>1 DEF QuietStep, snapshot_fill, Image, TmpOK
  <2>2. CASE snapshot_sync
    <3>1. pc = "written" /\ tmp' = [tmp EXCEPT !.safe = TRUE]
      BY <2>2 DEF snapshot_sync
    <3>2. /\ tmp.kind = "image" /\ tmp.upto = LastSeq(state) /\ tmp.body = state
          /\ DOMAIN tmp = {"kind", "upto", "body", "safe"}
      BY <1>0, <3>1 DEF TmpOK, IInv
    <3>3. tmp'.kind = tmp.kind /\ tmp'.upto = tmp.upto /\ tmp'.body = tmp.body
      BY <3>1, <3>2
    <3> QED
      BY <1>1, <3>2, <3>3 DEF QuietStep, TmpOK
  <2>3. CASE snapshot_open \/ snapshot_rename \/ snapshot_fails
    BY <2>3 DEF snapshot_open, snapshot_rename, snapshot_fails, TmpOK
  <2> QED
    BY <2>1, <2>2, <2>3
<1>5. CASE snapshot_rename
  <2>1. /\ snap' = tmp /\ disk' = disk
        /\ tmp.kind = "image" /\ tmp.upto = LastSeq(state) /\ tmp.body = state
    BY <1>0, <1>5 DEF snapshot_rename, TmpOK
  <2>2. FileOK(snap', given, jfile, promised)
    BY <1>3, <2>1 DEF FileOK
  <2>3. disk.kind = "image" => disk.upto <= LastSeq(state)
    <3>1. disk.kind = "image" => /\ disk.upto \in Nat /\ snap.upto \in Nat /\ snap.kind = "image"
                                /\ disk.upto <= snap.upto
      <4>1. disk.kind = "image" =>
              /\ snap.kind = "image" /\ disk.upto <= snap.upto
              /\ disk.upto = LastSeq(disk.body) /\ BodyOK(disk.body, given)
              /\ snap.upto = LastSeq(snap.body) /\ BodyOK(snap.body, given)
        BY <1>0 DEF ImagesOK, FileOK
      <4> QED
        BY <4>1, LastSeqIsGreatest DEF BodyOK
    <3> QED
      BY <1>3, <3>1
  <2>4. ImagesOK'
    BY <1>0, <1>1, <2>1, <2>2, <2>3 DEF ImagesOK, QuietStep
  <2>5. LastSeq(state) <= LastSeq(state)
    BY <1>3
  <2>6. MemoryOK'
    BY <1>0, <1>1, <2>1, <2>5 DEF MemoryOK, QuietStep
  <2> QED
    BY <1>2, <1>4, <2>4, <2>6 DEF RInv
<1>6. CASE snapshot_open \/ snapshot_fill \/ snapshot_sync \/ snapshot_fails
  <2>1. UNCHANGED <<snap, disk>>
    BY <1>6 DEF snapshot_open, snapshot_fill, snapshot_sync, snapshot_fails
  <2>2. ImagesOK' /\ MemoryOK'
    BY <1>0, <1>1, <2>1 DEF ImagesOK, MemoryOK, QuietStep
  <2> QED
    BY <1>2, <1>4, <2>2 DEF RInv
<1> QED
  BY <1>5, <1>6

LEMMA RotRInv == RInv /\ Rot => RInv'
<1> SUFFICES ASSUME RInv, Rot PROVE RInv'
  OBVIOUS
<1>1. QuietStep /\ snap' = Damaged /\ disk' = Damaged /\ UNCHANGED <<pc, tmp>>
  BY DEF Rot, mem, journal, ghosts, QuietStep
<1>2. CountsOK' /\ WrittenOK' /\ PromisesKept' /\ NumbersOK'
  BY <1>1, QuietKeeps
<1>3. ImagesOK' /\ TmpOK' /\ MemoryOK'
  BY <1>1 DEF RInv, ImagesOK, FileOK, TmpOK, MemoryOK, Damaged, QuietStep
<1> QED
  BY <1>2, <1>3 DEF RInv

LEMMA NextRInv == RInv /\ IInv /\ [Next]_vars => RInv'
<1> SUFFICES ASSUME RInv, IInv, [Next]_vars PROVE RInv'
  OBVIOUS
<1>1. CASE recover
  BY <1>1, RecoverRInv
<1>2. CASE append_flush
  BY <1>2, FlushRInv
<1>3. CASE append_sync
  BY <1>3, SyncRInv
<1>4. CASE append_fails
  BY <1>4, FailRInv
<1>5. CASE snapshot_open \/ snapshot_fill \/ snapshot_sync \/ snapshot_rename \/ snapshot_fails
  BY <1>5, SnapshotRInv
<1>6. CASE Kill
  BY <1>6, KillRInv
<1>7. CASE PowerFails
  BY <1>7, PowerRInv
<1>8. CASE Rot
  BY <1>8, RotRInv
<1>9. CASE UNCHANGED vars
  <2>1. QuietStep /\ UNCHANGED <<pc, snap, disk, tmp>>
    BY <1>9 DEF vars, mem, journal, snapshots, ghosts, QuietStep
  <2>2. CountsOK' /\ WrittenOK' /\ PromisesKept' /\ NumbersOK'
    BY <2>1, QuietKeeps
  <2>3. ImagesOK' /\ TmpOK' /\ MemoryOK'
    BY <2>1 DEF RInv, ImagesOK, FileOK, TmpOK, MemoryOK, QuietStep
  <2> QED
    BY <2>2, <2>3 DEF RInv
<1> QED
  BY <1>1, <1>2, <1>3, <1>4, <1>5, <1>6, <1>7, <1>8, <1>9 DEF Next

\* The file at the snapshot's path is an old snapshot or a new one and never a
\* half, at whatever moment snapshot_write is killed or loses its power.
THEOREM SnapshotNeverHalf == Spec => []SnapshotWhole
<1>1. IInv => SnapshotWhole
  BY DEF IInv, Settled, Rotten, SnapshotWhole
<1> QED
  BY InitIInv, NextIInv, <1>1, PTL DEF Spec

LEMMA Invariant == Spec => [](RInv /\ IInv)
BY InitIInv, NextIInv, InitRInv, NextRInv, PTL DEF Spec

\* What journal_append acknowledged behind whole records is in every process that
\* recovers from the two files, whatever has happened to it in between.
THEOREM NothingPromisedLost == Spec => []PromisedSurvives
<1>1. RInv => PromisedSurvives
  BY DEF RInv, MemoryOK, PromisedSurvives
<1> QED
  BY Invariant, <1>1, PTL

\* An acknowledged input that recover() does not bring back has made it report a
\* torn journal.
THEOREM LossNeverSilent == Spec => []LossIsReported
<1>1. RInv => LossIsReported
  BY DEF RInv, MemoryOK, LossIsReported
<1> QED
  BY Invariant, <1>1, PTL

\* The inputs a process holds ascend in number and in the order they were given:
\* recover() applies none twice and none late, though snapshot and journal
\* overlap and numbers are given again after a loss.
THEOREM AppliedInOrderOnce == Spec => []InOrderOnce
<1>1. RInv => InOrderOnce
  <2>1. RInv => state \in Seq(Input) /\ Sorted(state)
    BY DEF RInv, MemoryOK, BodyOK
  <2> QED
    BY <2>1 DEF Sorted, InOrderOnce
<1> QED
  BY Invariant, <1>1, PTL
=============================================================================
