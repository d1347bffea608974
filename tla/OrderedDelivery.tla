--------------------------- MODULE OrderedDelivery ---------------------------
(***************************************************************************)
(* What a session promises the program above it, whatever the connection   *)
(* under it goes through: what the other end handed over is handed up in   *)
(* the order it was handed over, each at most once. Some of it may never   *)
(* come up (fep/include/seqtrack.h: a frame that is gone is said to be     *)
(* gone), and an end that is started again begins anew.                    *)
(***************************************************************************)
EXTENDS Integers, Sequences

CONSTANTS Ends, Other(_)

VARIABLES
  given,   \* given[e]: e has handed over messages 1..given[e]
  got      \* got[e]: the messages handed up at e since it was started

vars == <<given, got>>

Latest(seq) == IF seq = << >> THEN 0 ELSE seq[Len(seq)]

Init == given = [e \in Ends |-> 0] /\ got = [e \in Ends |-> << >>]

Give(e) == /\ given' = [given EXCEPT ![e] = @ + 1]
           /\ UNCHANGED got

Deliver(e) == \E id \in Latest(got[e]) + 1 .. given[Other(e)] :
                /\ got' = [got EXCEPT ![e] = Append(@, id)]
                /\ UNCHANGED given

StartAgain(e) == /\ got' = [got EXCEPT ![e] = << >>]
                 /\ UNCHANGED given

Next == \E e \in Ends : Give(e) \/ Deliver(e) \/ StartAgain(e)

Spec == Init /\ [][Next]_vars
=============================================================================
