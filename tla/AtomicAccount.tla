---------------------------- MODULE AtomicAccount ----------------------------
(***************************************************************************)
(* What account.h promises its callers: a request on an account happens at *)
(* one instant between call and answer, whole or not at all; a caller that *)
(* is told OK had its request applied exactly once, a caller that is       *)
(* refused changed nothing, and a caller may die at any moment.            *)
(***************************************************************************)
EXTENDS AccountOps

CONSTANTS Workers, Start, Requests

VARIABLES
  acct,   \* the account as every caller agrees on it
  call    \* call[w]: where w's current request stands

vars == <<acct, call>>

Idle        == [at |-> "idle"]
Dead        == [at |-> "dead"]
Pending(r)  == [at |-> "pending", req |-> r]
Done(ans)   == [at |-> "done", answer |-> ans]

Init == acct = Start /\ call = [w \in Workers |-> Idle]

Invoke(w) == /\ call[w] = Idle
             /\ \E r \in Requests : call' = [call EXCEPT ![w] = Pending(r)]
             /\ UNCHANGED acct

Apply(w) == \E r \in Requests :
              /\ call[w] = Pending(r)
              /\ Accepts(acct, r)
              /\ acct' = Outcome(acct, r)
              /\ call' = [call EXCEPT ![w] = Done("ok")]

Refuse(w) == \E r \in Requests :
               /\ call[w] = Pending(r)
               /\ ~Accepts(acct, r)
               /\ call' = [call EXCEPT ![w] = Done("refused")]
               /\ UNCHANGED acct

Return(w) == /\ call[w] \in {Done("ok"), Done("refused")}
             /\ call' = [call EXCEPT ![w] = Idle]
             /\ UNCHANGED acct

Die(w) == call' = [call EXCEPT ![w] = Dead] /\ UNCHANGED acct

Respawn(w) == /\ call[w] = Dead
              /\ call' = [call EXCEPT ![w] = Idle]
              /\ UNCHANGED acct

Next == \E w \in Workers :
          Invoke(w) \/ Apply(w) \/ Refuse(w) \/ Return(w) \/ Die(w) \/ Respawn(w)

Spec == Init /\ [][Next]_vars
=============================================================================
