---------------------------- MODULE AccountStore ----------------------------
(***************************************************************************)
(* One account record in shared memory, ledger/src/account.c, as worker    *)
(* processes use it: every operation takes the record's robust mutex,      *)
(* checks, saves the old values, marks the record, stores the new values   *)
(* one field at a time, clears the mark and lets go. A worker may be       *)
(* killed between any two stores; the next one to lock the record is told  *)
(* EOWNERDEAD and puts the saved values back if the mark is still set.     *)
(*                                                                         *)
(* The record lives in mem, pre, mutating and version; `mutex` and `owner` *)
(* are the pthread mutex; pc, req, new, todo and answer are each worker's  *)
(* own. Records do not interact, so one stands for the whole store.        *)
(***************************************************************************)
EXTENDS AccountOps

CONSTANTS
  Workers,    \* the processes that share the segment
  Free,       \* no owner
  Start,      \* the account at the time of the fork
  Requests,   \* the requests a worker may make
  MaxCalls,   \* bound: calls made in a behaviour
  MaxDeaths,  \* bound: workers killed in a behaviour
  KeepMark    \* TRUE: the build stores `mutating = 1` as the source says;
              \* FALSE: the optimiser drops that store (it is dead: nothing
              \* reads the field before end_write stores 0)

ASSUME StartAssumption    == Start \in Account /\ Sound(Start)
ASSUME RequestsAssumption == Requests \subseteq Request
ASSUME FreeAssumption     == Free \notin Workers
ASSUME BoundsAssumption   == MaxCalls \in Nat /\ MaxDeaths \in Nat
ASSUME KeepMarkAssumption == KeepMark \in BOOLEAN

VARIABLES mem, pre, mutating, version, mutex, owner,
          pc, req, new, todo, answer, calls, deaths

record == <<mem, pre, mutating, version>>
local  == <<pc, req, new, todo, answer>>
bounds == <<calls, deaths>>
vars   == <<mem, pre, mutating, version, mutex, owner,
            pc, req, new, todo, answer, calls, deaths>>

NoReq == [op |-> "none"]

\* The unoptimised build stores fields in the order the source lists them; the
\* optimiser may take the ones still to do in any order.
Order == [cash |-> 1, reserved |-> 2, qty |-> 3, cost |-> 4, held |-> 5, realized |-> 6]
Storable(left) ==
  {f \in left : KeepMark => \A g \in left : Order[f] <= Order[g]}

\* Where a worker can be while it owns the mutex, and everywhere else.
Inside  == {"restore", "consistent", "check", "save", "store", "bump", "unlock"}
Outside == {"idle", "lock", "return", "dead"}

Init ==
  /\ mem = Start
  /\ pre = EmptyAccount /\ mutating = FALSE /\ version = 0
  /\ mutex = "ok" /\ owner = Free
  /\ pc = [w \in Workers |-> "idle"]
  /\ req = [w \in Workers |-> NoReq]
  /\ new = [w \in Workers |-> EmptyAccount]
  /\ todo = [w \in Workers |-> {}]
  /\ answer = [w \in Workers |-> "none"]
  /\ calls = 0 /\ deaths = 0

GoTo(w, where) == pc' = [pc EXCEPT ![w] = where]
Left(w, left)  == todo' = [todo EXCEPT ![w] = left]

\* A worker starts an operation on the account.
Call(w) ==
  /\ pc[w] = "idle" /\ calls < MaxCalls
  /\ \E r \in Requests : req' = [req EXCEPT ![w] = r]
  /\ GoTo(w, "lock")
  /\ calls' = calls + 1
  /\ UNCHANGED <<record, mutex, owner, new, todo, answer, deaths>>

\* Faulty: recovery also puts back the version, which is never saved.
LockRestoringVersion(w) ==
  /\ pc[w] = "lock" /\ owner = Free
  /\ owner' = w
  /\ IF mutex = "ownerdead" /\ mutating
     THEN GoTo(w, "restore") /\ Left(w, Fields \cup {"version"})
     ELSE GoTo(w, IF mutex = "ok" THEN "check" ELSE "consistent") /\ UNCHANGED todo
  /\ UNCHANGED <<record, mutex, req, new, answer, bounds>>

\* acct_lock: an owner that died left the record either marked, to be put
\* back, or unmarked, to be kept; a mutex given up unrepaired is lost for good.
Lock(w) ==
  /\ pc[w] = "lock" /\ owner = Free
  /\ \/ /\ mutex = "ok"
        /\ owner' = w /\ GoTo(w, "check")
        /\ UNCHANGED <<todo, answer>>
     \/ /\ mutex = "ownerdead"
        /\ owner' = w
        /\ IF mutating THEN GoTo(w, "restore") /\ Left(w, Fields)
                       ELSE GoTo(w, "consistent") /\ UNCHANGED todo
        /\ UNCHANGED answer
     \/ /\ mutex = "notrecoverable"
        /\ GoTo(w, "return") /\ answer' = [answer EXCEPT ![w] = "unsupported"]
        /\ UNCHANGED <<owner, todo>>
  /\ UNCHANGED <<record, mutex, req, new, bounds>>

\* Recovery: copy the saved values back, then take the mark down.
RestoreField(w) ==
  /\ pc[w] = "restore"
  /\ \E f \in Storable(todo[w]) : /\ mem' = [mem EXCEPT ![f] = pre[f]]
                                  /\ Left(w, todo[w] \ {f})
  /\ UNCHANGED <<pre, mutating, version, mutex, owner, pc, req, new, answer, bounds>>

RestoreDone(w) ==
  /\ pc[w] = "restore" /\ todo[w] = {}
  /\ mutating' = FALSE
  /\ GoTo(w, "consistent")
  /\ UNCHANGED <<mem, pre, version, mutex, owner, req, new, todo, answer, bounds>>

\* Faulty: the mutex is not made consistent after the repair.
ConsistentForgotten(w) ==
  /\ pc[w] = "consistent"
  /\ GoTo(w, "check")
  /\ UNCHANGED <<record, mutex, owner, req, new, todo, answer, bounds>>

\* pthread_mutex_consistent.
Consistent(w) ==
  /\ pc[w] = "consistent"
  /\ mutex' = "ok"
  /\ GoTo(w, "check")
  /\ UNCHANGED <<record, owner, req, new, todo, answer, bounds>>

\* The new values are worked out in locals and refused before anything is stored.
Check(w) ==
  /\ pc[w] = "check"
  /\ IF Accepts(mem, req[w])
     THEN /\ new' = [new EXCEPT ![w] = Outcome(mem, req[w])]
          /\ Left(w, Fields)
          /\ GoTo(w, "save")
          /\ UNCHANGED answer
     ELSE /\ answer' = [answer EXCEPT ![w] = "refused"]
          /\ GoTo(w, "unlock")
          /\ UNCHANGED <<new, todo>>
  /\ UNCHANGED <<record, mutex, owner, req, bounds>>

\* begin_write: the old values first, then the mark.
SaveField(w) ==
  /\ pc[w] = "save"
  /\ \E f \in Storable(todo[w]) : /\ pre' = [pre EXCEPT ![f] = mem[f]]
                                  /\ Left(w, todo[w] \ {f})
  /\ UNCHANGED <<mem, mutating, version, mutex, owner, pc, req, new, answer, bounds>>

\* Faulty: the mark goes up before every old value is saved.
MarkEarly(w) ==
  /\ pc[w] = "save"
  /\ mutating' = KeepMark
  /\ Left(w, Written(req[w].op))
  /\ GoTo(w, "store")
  /\ UNCHANGED <<mem, pre, version, mutex, owner, req, new, answer, bounds>>

Mark(w) ==
  /\ pc[w] = "save" /\ todo[w] = {}
  /\ mutating' = KeepMark
  /\ Left(w, Written(req[w].op))
  /\ GoTo(w, "store")
  /\ UNCHANGED <<mem, pre, version, mutex, owner, req, new, answer, bounds>>

StoreField(w) ==
  /\ pc[w] = "store"
  /\ \E f \in Storable(todo[w]) : /\ mem' = [mem EXCEPT ![f] = new[w][f]]
                                  /\ Left(w, todo[w] \ {f})
  /\ UNCHANGED <<pre, mutating, version, mutex, owner, pc, req, new, answer, bounds>>

\* end_write: the mark comes down, which is what commits, then the version.
Clear(w) ==
  /\ pc[w] = "store" /\ todo[w] = {}
  /\ mutating' = FALSE
  /\ GoTo(w, "bump")
  /\ UNCHANGED <<mem, pre, version, mutex, owner, req, new, todo, answer, bounds>>

Bump(w) ==
  /\ pc[w] = "bump"
  /\ version' = version + 1
  /\ answer' = [answer EXCEPT ![w] = "ok"]
  /\ GoTo(w, "unlock")
  /\ UNCHANGED <<mem, pre, mutating, mutex, owner, req, new, todo, bounds>>

\* Unlocking a mutex that was never made consistent loses it for good.
Unlock(w) ==
  /\ pc[w] = "unlock"
  /\ owner' = Free
  /\ mutex' = IF mutex = "ownerdead" THEN "notrecoverable" ELSE mutex
  /\ GoTo(w, "return")
  /\ UNCHANGED <<record, req, new, todo, answer, bounds>>

Return(w) ==
  /\ pc[w] = "return"
  /\ GoTo(w, "idle")
  /\ answer' = [answer EXCEPT ![w] = "none"]
  /\ req' = [req EXCEPT ![w] = NoReq]
  /\ UNCHANGED <<record, mutex, owner, new, todo, bounds>>

\* Faulty: the mutex is not robust, so a dead owner keeps it.
DieOwning(w) ==
  /\ pc[w] # "dead" /\ deaths < MaxDeaths
  /\ deaths' = deaths + 1
  /\ pc' = [pc EXCEPT ![w] = "dead"]
  /\ req' = [req EXCEPT ![w] = NoReq]
  /\ new' = [new EXCEPT ![w] = EmptyAccount]
  /\ todo' = [todo EXCEPT ![w] = {}]
  /\ answer' = [answer EXCEPT ![w] = "none"]
  /\ UNCHANGED <<record, mutex, owner, calls>>

\* The worker is killed; a robust mutex it owned passes on as EOWNERDEAD.
Die(w) ==
  /\ pc[w] # "dead" /\ deaths < MaxDeaths
  /\ deaths' = deaths + 1
  /\ pc' = [pc EXCEPT ![w] = "dead"]
  /\ req' = [req EXCEPT ![w] = NoReq]
  /\ new' = [new EXCEPT ![w] = EmptyAccount]
  /\ todo' = [todo EXCEPT ![w] = {}]
  /\ answer' = [answer EXCEPT ![w] = "none"]
  /\ IF owner = w THEN owner' = Free /\ mutex' = "ownerdead"
                  ELSE UNCHANGED <<owner, mutex>>
  /\ UNCHANGED <<record, calls>>

\* The pool puts a new worker in the empty place.
Respawn(w) ==
  /\ pc[w] = "dead"
  /\ GoTo(w, "idle")
  /\ UNCHANGED <<record, mutex, owner, req, new, todo, answer, bounds>>

\* What a live worker does on its own once it has called.
Step(w) ==
  \/ Lock(w) \/ RestoreField(w) \/ RestoreDone(w) \/ Consistent(w) \/ Check(w)
  \/ SaveField(w) \/ Mark(w) \/ StoreField(w) \/ Clear(w) \/ Bump(w)
  \/ Unlock(w) \/ Return(w)

Next == \E w \in Workers : Call(w) \/ Step(w) \/ Die(w) \/ Respawn(w)

\* A scheduled process runs; nothing obliges anyone to call, die or respawn.
Fairness == \A w \in Workers : WF_vars(Step(w))

Spec     == Init /\ [][Next]_vars
FairSpec == Spec /\ Fairness

-----------------------------------------------------------------------------
TypeOK ==
  /\ mem \in Account /\ pre \in Account
  /\ mutating \in BOOLEAN /\ version \in Nat
  /\ mutex \in {"ok", "ownerdead", "notrecoverable"}
  /\ owner \in Workers \cup {Free}
  /\ pc \in [Workers -> Inside \cup Outside]
  /\ req \in [Workers -> Requests \cup {NoReq}]
  /\ new \in [Workers -> Account]
  /\ todo \in [Workers -> SUBSET Fields]
  /\ answer \in [Workers -> {"none", "ok", "refused", "unsupported"}]
  /\ calls \in Nat /\ deaths \in Nat

\* Who may be where: one worker inside at a time, and what the mutex says then.
OwnerInv ==
  /\ mutex # "notrecoverable"
  /\ \A w \in Workers :
       /\ pc[w] \in Inside <=> owner = w
       /\ pc[w] \in {"restore", "consistent"} => mutex = "ownerdead"
       /\ pc[w] \in Inside \ {"restore", "consistent"} => mutex = "ok"
       /\ pc[w] \notin {"idle", "dead"} => req[w] \in Requests
       /\ pc[w] \in {"unlock", "return"} => answer[w] \in {"ok", "refused"}

\* The account as the next one to lock it will find it: a marked record is
\* about to be put back to its saved values.
Visible == IF mutating THEN pre ELSE mem

\* The new values were worked out from account a, which accepted the request.
WorkedOut(w, a) == Accepts(a, req[w]) /\ new[w] = Outcome(a, req[w])

\* The mark is up only while the record is being stored or put back, or its
\* owner died doing so; and then the saved values are a whole, sound account.
RecordInv ==
  /\ Sound(Visible)
  /\ owner = Free /\ mutex = "ok" => ~mutating
  /\ \A w \in Workers :
       /\ pc[w] \in Inside \ {"restore", "store"} => ~mutating
       /\ pc[w] = "restore" => /\ mutating
                              /\ \A f \in Fields \ todo[w] : mem[f] = pre[f]
       /\ pc[w] = "save" => /\ WorkedOut(w, mem)
                           /\ \A f \in Fields \ todo[w] : pre[f] = mem[f]
       /\ pc[w] = "store" => /\ mutating /\ WorkedOut(w, pre)
                            /\ \A f \in Fields :
                                 mem[f] = IF f \in todo[w] THEN pre[f] ELSE new[w][f]

\* However workers are killed, whenever nobody owns the account what the next
\* owner will get satisfies both balance invariants of account.h: no death
\* leaves money reserved beyond the cash, or shares promised that are not held.
AlwaysSound == owner = Free => Sound(Visible)

\* Recovery never gives the mutex up unrepaired, so no account is lost for good.
NeverLost == mutex # "notrecoverable"

CallOf(w) ==
  CASE pc[w] = "idle" -> [at |-> "idle"]
    [] pc[w] = "dead" -> [at |-> "dead"]
    [] pc[w] = "bump" -> [at |-> "done", answer |-> "ok"]
    [] pc[w] \in {"unlock", "return"} -> [at |-> "done", answer |-> answer[w]]
    [] OTHER -> [at |-> "pending", req |-> req[w]]

Atomic == INSTANCE AtomicAccount
            WITH acct <- Visible, call <- [w \in Workers |-> CallOf(w)]

\* The field-by-field protocol implements the account that changes at one
\* instant: an answer OK means applied once and whole, a refusal means nothing
\* was touched, a death means one or the other.
IsAtomic == Atomic!Spec

\* No caller is left waiting by the death of the one who held the account.
EveryCallEnds == \A w \in Workers : pc[w] = "lock" ~> pc[w] # "lock"
=============================================================================
