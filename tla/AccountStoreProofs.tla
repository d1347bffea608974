------------------------- MODULE AccountStoreProofs -------------------------
(***************************************************************************)
(* For every set of workers, every start and every set of requests: in the *)
(* build that keeps the mark, the account record is sound whenever nobody  *)
(* owns it, its mutex is never lost, and the field-by-field protocol       *)
(* implements AtomicAccount.                                               *)
(***************************************************************************)
EXTENDS AccountStore, TLAPS

-----------------------------------------------------------------------------
(* Lemmas about the operations of one account.                             *)

LEMMA FieldNames ==
  /\ "cash" \in Fields /\ "reserved" \in Fields /\ "qty" \in Fields
  /\ "cost" \in Fields /\ "held" \in Fields /\ "realized" \in Fields
  BY DEF Fields, CashFields, PosFields

LEMMA RequestType ==
  ASSUME NEW r \in Request
  PROVE  r.op \in CashOps \cup PosOps /\ r.amount \in Int /\ r.price \in Int
  BY DEF Request

\* An accepted operation computes an account: the share of the cost a sale
\* takes out is a division by a quantity the checks have made positive.
LEMMA OutcomeType ==
  ASSUME NEW a \in Account, NEW r \in Request, Accepts(a, r)
  PROVE  Outcome(a, r) \in Account
<1> USE FieldNames DEF Account
<1>1. r.op \in CashOps \cup PosOps /\ r.amount \in Int /\ r.price \in Int
  BY RequestType
<1>2. CASE r.op = "deposit"
  BY <1>1, <1>2 DEF Outcome
<1>3. CASE r.op = "withdraw"
  BY <1>1, <1>3 DEF Outcome
<1>4. CASE r.op = "reserve"
  BY <1>1, <1>4 DEF Outcome
<1>5. CASE r.op = "release"
  BY <1>1, <1>5 DEF Outcome
<1>6. CASE r.op = "settle"
  <2>1. [a EXCEPT !.cash = a.cash - r.amount] \in Account
    BY <1>1
  <2>2. PICK b \in Account : b = [a EXCEPT !.cash = a.cash - r.amount]
    BY <2>1, Zenon
  <2>3. [b EXCEPT !.reserved = b.reserved - r.amount] \in Account
    BY <1>1
  <2> QED
    BY <1>6, <2>2, <2>3 DEF Outcome
<1>7. CASE r.op = "set_cash"
  BY <1>1, <1>7 DEF Outcome
<1>8. CASE r.op = "buy_fill"
  <2>1. r.price * r.amount \in Int
    BY <1>1
  <2>2. [a EXCEPT !.qty = a.qty + r.amount] \in Account
    BY <1>1
  <2>3. PICK b \in Account : b = [a EXCEPT !.qty = a.qty + r.amount]
    BY <2>2, Zenon
  <2>4. [b EXCEPT !.cost = b.cost + r.price * r.amount] \in Account
    BY <2>1
  <2> QED
    BY <1>8, <2>3, <2>4 DEF Outcome
<1>9. CASE r.op = "sell_reserve"
  BY <1>1, <1>9 DEF Outcome
<1>10. CASE r.op = "sell_release"
  BY <1>1, <1>10 DEF Outcome
<1>11. CASE r.op = "sell_fill"
  <2> DEFINE out == CostOut(a, r.amount)
             won == r.price * r.amount
  <2>1. r.amount > 0 /\ r.amount <= a.qty
    BY <1>11 DEF Accepts, CashOps
  <2>2. out \in Int /\ won \in Int
    BY <1>1, <2>1 DEF CostOut
  <2>3. Outcome(a, r) = [a EXCEPT !.qty = a.qty - r.amount, !.held = a.held - r.amount,
                                  !.cost = a.cost - out, !.realized = a.realized + won - out]
    BY <1>11 DEF Outcome
  <2> HIDE DEF out, won
  <2>4. [a EXCEPT !.qty = a.qty - r.amount] \in Account
    BY <1>1
  <2>5. PICK b \in Account : b = [a EXCEPT !.qty = a.qty - r.amount]
    BY <2>4, Zenon
  <2>6. [b EXCEPT !.held = b.held - r.amount] \in Account
    BY <1>1
  <2>7. PICK c \in Account : c = [b EXCEPT !.held = b.held - r.amount]
    BY <2>6, Zenon
  <2>8. [c EXCEPT !.cost = c.cost - out] \in Account
    BY <2>2
  <2>9. PICK d \in Account : d = [c EXCEPT !.cost = c.cost - out]
    BY <2>8, Zenon
  <2>10. [d EXCEPT !.realized = d.realized + won - out] \in Account
    BY <2>2
  <2> QED
    BY <2>3, <2>5, <2>7, <2>9, <2>10
<1>12. CASE r.op = "seed"
  <2>1. [a EXCEPT !.qty = r.amount, !.cost = r.price] \in Account
    BY <1>1
  <2>2. PICK b \in Account : b = [a EXCEPT !.qty = r.amount, !.cost = r.price]
    BY <2>1, Zenon
  <2>3. [b EXCEPT !.held = 0] \in Account
    OBVIOUS
  <2>4. PICK c \in Account : c = [b EXCEPT !.held = 0]
    BY <2>3, Zenon
  <2>5. [c EXCEPT !.realized = 0] \in Account
    OBVIOUS
  <2> QED
    BY <1>12, <2>2, <2>4, <2>5 DEF Outcome
<1> QED
  BY <1>1, <1>2, <1>3, <1>4, <1>5, <1>6, <1>7, <1>8, <1>9, <1>10, <1>11, <1>12
  DEF CashOps, PosOps

\* An operation leaves alone the fields it does not store.
LEMMA OutcomeFrame ==
  ASSUME NEW a \in Account, NEW r \in Request,
         NEW f \in Fields, f \notin Written(r.op)
  PROVE  Outcome(a, r)[f] = a[f]
<1> USE DEF Account
<1>1. r.op \in CashOps \cup PosOps
  BY RequestType
<1>2. CASE r.op = "set_cash"
  <2>1. f # "cash"
    BY <1>2 DEF Written, CashOps, PosOps
  <2> QED
    BY <1>2, <2>1 DEF Outcome
<1>3. CASE r.op \in CashOps \ {"set_cash"}
  <2>1. f # "cash" /\ f # "reserved"
    BY <1>3 DEF Written, CashFields, CashOps, PosOps
  <2> QED
    BY <1>3, <2>1 DEF Outcome, CashOps
<1>4. CASE r.op \in PosOps
  <2>1. f # "qty" /\ f # "cost" /\ f # "held" /\ f # "realized"
    BY <1>4 DEF Written, CashOps, PosOps, PosFields
  <2> QED
    BY <1>4, <2>1 DEF Outcome, PosOps
<1> QED
  BY <1>1, <1>2, <1>3, <1>4

\* An accepted operation keeps both balance invariants: each operation checks
\* the one it could break and does not touch the fields of the other.
LEMMA OutcomeSound ==
  ASSUME NEW a \in Account, NEW r \in Request, Sound(a), Accepts(a, r)
  PROVE  Sound(Outcome(a, r))
<1> USE FieldNames DEF Account
<1>1. r.op \in CashOps \cup PosOps /\ r.amount \in Int /\ r.price \in Int
  BY RequestType
<1>2. CASE r.op \in CashOps
  <2>1. \A f \in {"qty", "cost", "held"} : Outcome(a, r)[f] = a[f]
    BY <1>2 DEF Outcome, CashOps
  <2>2. pos_ok(Outcome(a, r))
    BY <2>1 DEF pos_ok, Sound
  <2>3. CASE r.op = "set_cash"
    BY <2>2, <2>3, <1>1 DEF Accepts, Outcome, Sound, invariant_ok
  <2>4. CASE r.op # "set_cash"
    BY <1>2, <2>2, <2>4 DEF Accepts, Sound, CashOps
  <2> QED
    BY <2>3, <2>4
<1>3. CASE r.op \in PosOps
  <2>1. \A f \in {"cash", "reserved"} : Outcome(a, r)[f] = a[f]
    BY <1>3 DEF Outcome, PosOps
  <2>2. invariant_ok(Outcome(a, r))
    BY <2>1 DEF invariant_ok, Sound
  <2>3. CASE r.op = "seed"
    <3>1. r.amount >= 0 /\ r.price >= 0
      BY <2>3 DEF Accepts, CashOps
    <3>2. /\ Outcome(a, r).qty = r.amount /\ Outcome(a, r).cost = r.price
          /\ Outcome(a, r).held = 0
      BY <2>3 DEF Outcome
    <3> QED
      BY <1>1, <2>2, <3>1, <3>2 DEF Sound, pos_ok
  <2>4. CASE r.op # "seed"
    BY <1>3, <2>2, <2>4 DEF Accepts, Sound, PosOps, CashOps
  <2> QED
    BY <2>3, <2>4
<1> QED
  BY <1>1, <1>2, <1>3

-----------------------------------------------------------------------------
(* The invariants of the protocol.                                         *)

\* Nothing but a step of one worker happens: what the proofs below split on.
AnyOf(w) ==
  \/ Call(w) \/ Lock(w) \/ RestoreField(w) \/ RestoreDone(w) \/ Consistent(w)
  \/ Check(w) \/ SaveField(w) \/ Mark(w) \/ StoreField(w) \/ Clear(w)
  \/ Bump(w) \/ Unlock(w) \/ Return(w) \/ Die(w) \/ Respawn(w)

LEMMA StepCases == Next => \E w \in Workers : AnyOf(w)
  BY DEF Next, Step, AnyOf

LEMMA InitTypes == Init => TypeOK /\ OwnerInv
<1> SUFFICES ASSUME Init PROVE TypeOK /\ OwnerInv
  OBVIOUS
<1>1. EmptyAccount \in Account /\ Start \in Account
  BY StartAssumption DEF EmptyAccount, Account
<1> QED
  BY <1>1, FreeAssumption DEF Init, TypeOK, OwnerInv, Inside, Outside

\* Every step stores values of the right type; a worker that computes new
\* values does so for a request of its own, which is why OwnerInv is needed.
LEMMA StepTypes ==
  ASSUME TypeOK, OwnerInv, Next
  PROVE  TypeOK'
<1> USE DEF TypeOK
<1>1. PICK w \in Workers : AnyOf(w)
  BY StepCases
<1>2. CASE Call(w)
  BY <1>2 DEF Call, GoTo, record, Inside, Outside
<1>3. CASE Lock(w)
  BY <1>3 DEF Lock, GoTo, Left, record, bounds, Inside, Outside
<1>4. CASE RestoreField(w)
  <2>1. PICK f \in Fields : mem' = [mem EXCEPT ![f] = pre[f]] /\ Left(w, todo[w] \ {f})
    BY <1>4 DEF RestoreField, Storable
  <2>2. mem' \in Account
    BY <2>1 DEF Account
  <2> QED
    BY <1>4, <2>1, <2>2 DEF RestoreField, Left, bounds
<1>5. CASE RestoreDone(w)
  BY <1>5 DEF RestoreDone, GoTo, bounds, Inside
<1>6. CASE Consistent(w)
  BY <1>6 DEF Consistent, GoTo, record, bounds, Inside
<1>7. CASE Check(w)
  <2>1. req[w] \in Request
    BY <1>7, RequestsAssumption DEF Check, OwnerInv
  <2>2. Accepts(mem, req[w]) => Outcome(mem, req[w]) \in Account
    BY <2>1, OutcomeType
  <2> QED
    BY <1>7, <2>2 DEF Check, GoTo, Left, record, bounds, Inside
<1>8. CASE SaveField(w)
  <2>1. PICK f \in Fields : pre' = [pre EXCEPT ![f] = mem[f]] /\ Left(w, todo[w] \ {f})
    BY <1>8 DEF SaveField, Storable
  <2>2. pre' \in Account
    BY <2>1 DEF Account
  <2> QED
    BY <1>8, <2>1, <2>2 DEF SaveField, Left, bounds
<1>9. CASE Mark(w)
  <2>1. Written(req[w].op) \in SUBSET Fields
    <3>1. req[w] \in Request
      BY <1>9, RequestsAssumption DEF Mark, OwnerInv
    <3> QED
      BY <3>1, RequestType DEF Written, Fields, CashFields, PosFields, CashOps, PosOps
  <2> QED
    BY <1>9, <2>1, KeepMarkAssumption DEF Mark, GoTo, Left, bounds, Inside
<1>10. CASE StoreField(w)
  <2>1. PICK f \in Fields : mem' = [mem EXCEPT ![f] = new[w][f]] /\ Left(w, todo[w] \ {f})
    BY <1>10 DEF StoreField, Storable
  <2>2. mem' \in Account
    BY <2>1 DEF Account
  <2> QED
    BY <1>10, <2>1, <2>2 DEF StoreField, Left, bounds
<1>11. CASE Clear(w)
  BY <1>11 DEF Clear, GoTo, bounds, Inside
<1>12. CASE Bump(w)
  BY <1>12 DEF Bump, GoTo, bounds, Inside
<1>13. CASE Unlock(w)
  BY <1>13 DEF Unlock, GoTo, record, bounds, Inside, Outside
<1>14. CASE Return(w)
  BY <1>14 DEF Return, GoTo, record, bounds, Inside, Outside
<1>15. CASE Die(w)
  <2>1. EmptyAccount \in Account
    BY DEF EmptyAccount, Account
  <2> QED
    BY <1>15, <2>1 DEF Die, record, Inside, Outside
<1>16. CASE Respawn(w)
  BY <1>16 DEF Respawn, GoTo, record, bounds, Inside, Outside
<1> QED
  BY <1>1, <1>2, <1>3, <1>4, <1>5, <1>6, <1>7, <1>8, <1>9, <1>10, <1>11, <1>12,
     <1>13, <1>14, <1>15, <1>16 DEF AnyOf

\* Ownership: a worker is between lock and unlock exactly while it owns the
\* mutex, and it has made the mutex consistent before it can give it up.
LEMMA StepOwner ==
  ASSUME TypeOK, OwnerInv, Next
  PROVE  OwnerInv'
<1> USE FreeAssumption DEF TypeOK, OwnerInv, Inside, Outside
<1>1. PICK w \in Workers : AnyOf(w)
  BY StepCases
<1>2. CASE Call(w)
  BY <1>2 DEF Call, GoTo
<1>3. CASE Lock(w)
  BY <1>3 DEF Lock, GoTo, Left
<1>4. CASE RestoreField(w) \/ SaveField(w) \/ StoreField(w)
  BY <1>4 DEF RestoreField, SaveField, StoreField
<1>5. CASE RestoreDone(w)
  BY <1>5 DEF RestoreDone, GoTo
<1>6. CASE Consistent(w)
  BY <1>6 DEF Consistent, GoTo
<1>7. CASE Check(w)
  BY <1>7 DEF Check, GoTo
<1>8. CASE Mark(w)
  BY <1>8 DEF Mark, GoTo
<1>9. CASE Clear(w)
  BY <1>9 DEF Clear, GoTo
<1>10. CASE Bump(w)
  BY <1>10 DEF Bump, GoTo
<1>11. CASE Unlock(w)
  BY <1>11 DEF Unlock, GoTo
<1>12. CASE Return(w)
  BY <1>12 DEF Return, GoTo
<1>13. CASE Die(w)
  BY <1>13 DEF Die
<1>14. CASE Respawn(w)
  BY <1>14 DEF Respawn, GoTo
<1> QED
  BY <1>1, <1>2, <1>3, <1>4, <1>5, <1>6, <1>7, <1>8, <1>9, <1>10, <1>11, <1>12,
     <1>13, <1>14 DEF AnyOf

\* Both together are inductive, in either build.
LEMMA OwnershipHolds == Spec => [](TypeOK /\ OwnerInv)
<1>1. Init => TypeOK /\ OwnerInv
  BY InitTypes
<1>2. TypeOK /\ OwnerInv /\ [Next]_vars => (TypeOK /\ OwnerInv)'
  <2> SUFFICES ASSUME TypeOK, OwnerInv, [Next]_vars
               PROVE  (TypeOK /\ OwnerInv)'
    OBVIOUS
  <2>1. CASE Next
    BY <2>1, StepTypes, StepOwner
  <2>2. CASE UNCHANGED vars
    BY <2>2 DEF vars, TypeOK, OwnerInv
  <2> QED
    BY <2>1, <2>2
<1> QED
  BY <1>1, <1>2, PTL DEF Spec

\* Type correctness of account.c's record, mutex and callers: in every
\* reachable state of either build every field holds an integer and every
\* worker is at a known place.
THEOREM TypeCorrect == Spec => []TypeOK
  BY OwnershipHolds, PTL

\* acct_lock's recovery makes the mutex consistent on every path before it can
\* be unlocked, so no account is ever lost to ENOTRECOVERABLE, whoever dies.
THEOREM MutexNeverLost == Spec => []NeverLost
<1>1. TypeOK /\ OwnerInv => NeverLost
  BY DEF OwnerInv, NeverLost
<1> QED
  BY <1>1, OwnershipHolds, PTL

-----------------------------------------------------------------------------
(* The record, in the build that keeps the mark.                           *)

LEMMA InitRecord == Init => RecordInv
<1> SUFFICES ASSUME Init PROVE RecordInv
  OBVIOUS
<1>1. Sound(Visible)
  BY StartAssumption DEF Init, Visible
<1> QED
  BY <1>1 DEF Init, RecordInv, Inside

\* The saved values are complete before the mark goes up, and the mark comes
\* down only when every stored field has its new value or its old one.
LEMMA StepRecord ==
  ASSUME KeepMark, TypeOK, OwnerInv, RecordInv, Next
  PROVE  RecordInv'
<1> USE FreeAssumption DEF TypeOK, OwnerInv, RecordInv, Inside, Outside
<1>1. PICK w \in Workers : AnyOf(w)
  BY StepCases
<1>2. CASE Call(w)
  BY <1>2 DEF Call, GoTo, record, Visible, WorkedOut
<1>3. CASE Lock(w)
  BY <1>3 DEF Lock, GoTo, Left, record, bounds, Visible, WorkedOut
<1>4. CASE RestoreField(w)
  <2>1. PICK f \in Fields : mem' = [mem EXCEPT ![f] = pre[f]] /\ Left(w, todo[w] \ {f})
    BY <1>4 DEF RestoreField, Storable
  <2>2. \A g \in Fields \ todo'[w] : mem'[g] = pre[g]
    BY <1>4, <2>1 DEF RestoreField, Left, Account
  <2> QED
    BY <1>4, <2>1, <2>2 DEF RestoreField, Left, bounds, Visible, WorkedOut
<1>5. CASE RestoreDone(w)
  <2>1. mem = pre
    BY <1>5 DEF RestoreDone, Account
  <2> QED
    BY <1>5, <2>1 DEF RestoreDone, GoTo, bounds, Visible, WorkedOut
<1>6. CASE Consistent(w)
  BY <1>6 DEF Consistent, GoTo, record, bounds, Visible, WorkedOut
<1>7. CASE Check(w)
  BY <1>7 DEF Check, GoTo, Left, record, bounds, Visible, WorkedOut
<1>8. CASE SaveField(w)
  <2>1. PICK f \in Fields : pre' = [pre EXCEPT ![f] = mem[f]] /\ Left(w, todo[w] \ {f})
    BY <1>8 DEF SaveField, Storable
  <2>2. \A g \in Fields \ todo'[w] : pre'[g] = mem[g]
    BY <1>8, <2>1 DEF SaveField, Left, Account
  <2> QED
    BY <1>8, <2>1, <2>2 DEF SaveField, Left, bounds, Visible, WorkedOut
<1>9. CASE Mark(w)
  <2>1. pre = mem
    BY <1>9 DEF Mark, Account
  <2>2. req[w] \in Request /\ Outcome(mem, req[w]) = new[w]
    BY <1>9, RequestsAssumption DEF Mark, WorkedOut
  <2>3. \A f \in Fields \ Written(req[w].op) : mem[f] = new[w][f]
    BY <2>2, OutcomeFrame
  <2> QED
    BY <1>9, <2>1, <2>3 DEF Mark, GoTo, Left, bounds, Visible, WorkedOut
<1>10. CASE StoreField(w)
  <2>1. PICK f \in Fields : mem' = [mem EXCEPT ![f] = new[w][f]] /\ Left(w, todo[w] \ {f})
    BY <1>10 DEF StoreField, Storable
  <2>2. \A g \in Fields : mem'[g] = IF g \in todo'[w] THEN pre[g] ELSE new[w][g]
    BY <1>10, <2>1 DEF StoreField, Left, Account
  <2> QED
    BY <1>10, <2>1, <2>2 DEF StoreField, Left, bounds, Visible, WorkedOut
<1>11. CASE Clear(w)
  <2>1. mem = Outcome(pre, req[w])
    BY <1>11 DEF Clear, WorkedOut, Account
  <2>2. Sound(mem)
    BY <1>11, <2>1, OutcomeSound, RequestsAssumption DEF Clear, WorkedOut, Visible
  <2> QED
    BY <1>11, <2>2 DEF Clear, GoTo, bounds, Visible, WorkedOut
<1>12. CASE Bump(w)
  BY <1>12 DEF Bump, GoTo, bounds, Visible, WorkedOut
<1>13. CASE Unlock(w)
  BY <1>13 DEF Unlock, GoTo, record, bounds, Visible, WorkedOut
<1>14. CASE Return(w)
  BY <1>14 DEF Return, GoTo, record, bounds, Visible, WorkedOut
<1>15. CASE Die(w)
  BY <1>15 DEF Die, record, Visible, WorkedOut
<1>16. CASE Respawn(w)
  BY <1>16 DEF Respawn, GoTo, record, bounds, Visible, WorkedOut
<1> QED
  BY <1>1, <1>2, <1>3, <1>4, <1>5, <1>6, <1>7, <1>8, <1>9, <1>10, <1>11, <1>12,
     <1>13, <1>14, <1>15, <1>16 DEF AnyOf

LEMMA RecordHolds ==
  ASSUME KeepMark
  PROVE  Spec => []RecordInv
<1>1. TypeOK /\ OwnerInv /\ RecordInv /\ [Next]_vars => RecordInv'
  <2> SUFFICES ASSUME TypeOK, OwnerInv, RecordInv, [Next]_vars
               PROVE  RecordInv'
    OBVIOUS
  <2>1. CASE Next
    BY <2>1, StepRecord
  <2>2. CASE UNCHANGED vars
    BY <2>2 DEF vars, RecordInv, Visible, WorkedOut
  <2> QED
    BY <2>1, <2>2
<1> QED
  BY <1>1, InitRecord, OwnershipHolds, PTL DEF Spec

\* The two invariants of account.h survive the death of any worker between any
\* two stores: whoever locks the account next gets a sound one.
THEOREM AccountsStaySound ==
  ASSUME KeepMark
  PROVE  Spec => []AlwaysSound
<1>1. RecordInv => AlwaysSound
  BY DEF RecordInv, AlwaysSound
<1> QED
  BY <1>1, RecordHolds, PTL

-----------------------------------------------------------------------------
(* The protocol implements the account that changes at one instant.        *)

\* Where every worker's call stands: what IsAtomic gives AtomicAccount as call.
Calls == [w \in Workers |-> CallOf(w)]

\* Both modules take the operations from AccountOps.
LEMMA SameOperations ==
  \A a, r : /\ Atomic!Outcome(a, r) = Outcome(a, r)
            /\ Atomic!Accepts(a, r) <=> Accepts(a, r)
<1>1. \A a, r : Atomic!Outcome(a, r) = Outcome(a, r)
  BY DEF Atomic!Outcome, Outcome, Atomic!CostOut, CostOut
<1> QED
  BY <1>1 DEF Atomic!Accepts, Accepts, Atomic!CashOps, CashOps,
              Atomic!invariant_ok, invariant_ok, Atomic!pos_ok, pos_ok

LEMMA InitRefines == Init => Atomic!Init
  BY DEF Init, Atomic!Init, Atomic!Idle, Visible, CallOf

LEMMA StepRefines ==
  ASSUME KeepMark, TypeOK, OwnerInv, RecordInv, Next
  PROVE  Atomic!Next \/ UNCHANGED Atomic!vars
<1> USE DEF Atomic!vars, CallOf, Visible
<1>1. PICK w \in Workers : AnyOf(w)
  BY StepCases
<1>2. CASE Call(w)
  <2>1. PICK r \in Requests : req' = [req EXCEPT ![w] = r]
    BY <1>2 DEF Call
  <2>2. /\ Calls[w] = Atomic!Idle
        /\ Calls' = [Calls EXCEPT ![w] = Atomic!Pending(r)]
    BY <1>2, <2>1 DEF Call, GoTo, TypeOK, Calls, Atomic!Idle, Atomic!Pending
  <2>3. UNCHANGED Visible
    BY <1>2 DEF Call, record
  <2> QED
    BY <2>2, <2>3 DEF Atomic!Next, Atomic!Invoke, Calls
<1>3. CASE Lock(w)
  <2>1. UNCHANGED <<Visible, Calls>>
    BY <1>3 DEF Lock, GoTo, Left, record, TypeOK, OwnerInv, Calls
  <2> QED
    BY <2>1 DEF Calls
<1>4. CASE RestoreField(w) \/ SaveField(w) \/ StoreField(w)
  <2>1. UNCHANGED Visible
    BY <1>4 DEF RestoreField, SaveField, StoreField, RecordInv, Inside
  <2>2. UNCHANGED Calls
    BY <1>4 DEF RestoreField, SaveField, StoreField, Calls
  <2> QED
    BY <2>1, <2>2 DEF Calls
<1>5. CASE RestoreDone(w)
  <2>1. mem = pre
    BY <1>5 DEF RestoreDone, RecordInv, TypeOK, Account
  <2>2. UNCHANGED Calls
    BY <1>5 DEF RestoreDone, GoTo, TypeOK, Calls
  <2> QED
    BY <1>5, <2>1, <2>2 DEF RestoreDone, Calls
<1>6. CASE Consistent(w)
  <2>1. UNCHANGED <<Visible, Calls>>
    BY <1>6 DEF Consistent, GoTo, record, TypeOK, Calls
  <2> QED
    BY <2>1 DEF Calls
<1>7. CASE Check(w)
  <2>1. ~mutating /\ req[w] \in Requests
    BY <1>7 DEF Check, OwnerInv, RecordInv, Inside
  <2>2. CASE Accepts(mem, req[w])
    <3>1. UNCHANGED <<Visible, Calls>>
      BY <1>7, <2>2 DEF Check, GoTo, Left, record, TypeOK, Calls
    <3> QED
      BY <3>1 DEF Calls
  <2>3. CASE ~Accepts(mem, req[w])
    <3>1. /\ Calls[w] = Atomic!Pending(req[w])
          /\ Calls' = [Calls EXCEPT ![w] = Atomic!Done("refused")]
      BY <1>7, <2>3 DEF Check, GoTo, TypeOK, Calls, Atomic!Pending, Atomic!Done
    <3>2. UNCHANGED Visible
      BY <1>7 DEF Check, record
    <3> QED
      BY <2>1, <2>3, <3>1, <3>2, SameOperations DEF Atomic!Next, Atomic!Refuse, Calls
  <2> QED
    BY <2>2, <2>3
<1>8. CASE Mark(w)
  <2>1. pre = mem
    BY <1>8 DEF Mark, RecordInv, TypeOK, Account
  <2>2. UNCHANGED Calls
    BY <1>8 DEF Mark, GoTo, TypeOK, Calls
  <2> QED
    BY <1>8, <2>1, <2>2 DEF Mark, Calls
<1>9. CASE Clear(w)
  <2>1. req[w] \in Requests
    BY <1>9 DEF Clear, OwnerInv
  <2>2. Visible = pre /\ Accepts(pre, req[w]) /\ new[w] = Outcome(pre, req[w])
    BY <1>9 DEF Clear, RecordInv, WorkedOut
  <2>3. Visible' = new[w]
    BY <1>9 DEF Clear, RecordInv, TypeOK, Account
  <2>4. /\ Calls[w] = Atomic!Pending(req[w])
        /\ Calls' = [Calls EXCEPT ![w] = Atomic!Done("ok")]
    BY <1>9 DEF Clear, GoTo, TypeOK, Calls, Atomic!Pending, Atomic!Done
  <2>5. /\ Atomic!Accepts(Visible, req[w])
        /\ Visible' = Atomic!Outcome(Visible, req[w])
    <3> HIDE DEF Visible
    <3> QED
      BY <2>2, <2>3, SameOperations
  <2>6. Atomic!Apply(w)
    <3> HIDE DEF Visible, CallOf
    <3> QED
      BY <2>1, <2>4, <2>5, Zenon DEF Atomic!Apply, Calls
  <2> QED
    BY <2>6 DEF Atomic!Next
<1>10. CASE Bump(w)
  <2>1. UNCHANGED <<Visible, Calls>>
    BY <1>10 DEF Bump, GoTo, TypeOK, Calls
  <2> QED
    BY <2>1 DEF Calls
<1>11. CASE Unlock(w)
  <2>1. UNCHANGED <<Visible, Calls>>
    BY <1>11 DEF Unlock, GoTo, record, TypeOK, Calls
  <2> QED
    BY <2>1 DEF Calls
<1>12. CASE Return(w)
  <2>1. Calls[w] \in {Atomic!Done("ok"), Atomic!Done("refused")}
    BY <1>12 DEF Return, OwnerInv, Calls, Atomic!Done
  <2>2. Calls' = [Calls EXCEPT ![w] = Atomic!Idle]
    BY <1>12 DEF Return, GoTo, TypeOK, Calls, Atomic!Idle
  <2>3. UNCHANGED Visible
    BY <1>12 DEF Return, record
  <2> QED
    BY <2>1, <2>2, <2>3 DEF Atomic!Next, Atomic!Return, Calls
<1>13. CASE Die(w)
  <2>1. Calls' = [Calls EXCEPT ![w] = Atomic!Dead]
    BY <1>13 DEF Die, TypeOK, Calls, Atomic!Dead
  <2>2. UNCHANGED Visible
    BY <1>13 DEF Die, record
  <2> QED
    BY <2>1, <2>2 DEF Atomic!Next, Atomic!Die, Calls
<1>14. CASE Respawn(w)
  <2>1. Calls[w] = Atomic!Dead /\ Calls' = [Calls EXCEPT ![w] = Atomic!Idle]
    BY <1>14 DEF Respawn, GoTo, TypeOK, Calls, Atomic!Dead, Atomic!Idle
  <2>2. UNCHANGED Visible
    BY <1>14 DEF Respawn, record
  <2> QED
    BY <2>1, <2>2 DEF Atomic!Next, Atomic!Respawn, Calls
<1> QED
  BY <1>1, <1>2, <1>3, <1>4, <1>5, <1>6, <1>7, <1>8, <1>9, <1>10, <1>11, <1>12,
     <1>13, <1>14 DEF AnyOf

\* What account.h promises holds of account.c for any workers and requests:
\* each call takes effect at one instant, the clearing of the mark, whole or
\* not at all, whatever order the stores and the deaths come in.
THEOREM StoreImplementsAtomic ==
  ASSUME KeepMark
  PROVE  Spec => IsAtomic
<1>1. TypeOK /\ OwnerInv /\ RecordInv /\ [Next]_vars => [Atomic!Next]_(Atomic!vars)
  <2> SUFFICES ASSUME TypeOK, OwnerInv, RecordInv, [Next]_vars
               PROVE  [Atomic!Next]_(Atomic!vars)
    OBVIOUS
  <2>1. CASE Next
    BY <2>1, StepRefines
  <2>2. CASE UNCHANGED vars
    BY <2>2 DEF vars, Atomic!vars, Visible, CallOf
  <2> QED
    BY <2>1, <2>2
<1> QED
  BY <1>1, InitRefines, OwnershipHolds, RecordHolds, PTL DEF Spec, IsAtomic, Atomic!Spec
=============================================================================
