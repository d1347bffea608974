------------------------------ MODULE MCSession ------------------------------
(* Instances of Session for TLC.                                            *)
EXTENDS Session

\* Losses in both directions, two messages in a row from the venue.
BothTalk == [e \in Ends |-> IF e = "client" THEN 1 ELSE 2]

\* Two messages in a row from the venue; the client only asks and answers.
VenueTwice == [e \in Ends |-> IF e = "client" THEN 0 ELSE 2]
=============================================================================
