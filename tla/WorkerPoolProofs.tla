-------------------------- MODULE WorkerPoolProofs --------------------------
(***************************************************************************)
(* For every number of places, connections, crashes and failed forks, and  *)
(* whatever the clients do: a stop that may repeat its signal five times   *)
(* leaves no child behind and kills by force only a worker a client holds. *)
(* A signal is lost on a worker that has not set up its handler, or stands *)
(* between its look at the flag and the call it will block in; Left(p)     *)
(* counts how many more of them a worker can take before it is on its way  *)
(* out for good.                                                           *)
(*                                                                         *)
(* And whatever the number of signals: no accepted connection is counted   *)
(* twice or forgotten.  Total is a fold over the places; what a step at    *)
(* one place does to it (TotalChanges) is proved from the fold's own       *)
(* recursion.                                                              *)
(***************************************************************************)
EXTENDS WorkerPool, FiniteSetTheorems, WellFoundedInduction, TLAPS

Stages == Live \cup {"none", "zombie"}

\* The most signals that can still find the worker of p blocked: one while it
\* polls, one in accept(), one between two messages and one on a full pipe. A
\* worker that has not kept the flag, or not yet, can take three.
Left(p) ==
  IF proc[p] \in {"none", "ended", "zombie"} \/ (proc[p] = "check" /\ stop[p]) THEN 0
  ELSE IF proc[p] = "boot" \/ ~stop[p] THEN 3
  ELSE IF proc[p] = "report" THEN IF woken[p] THEN 0 ELSE 1
  ELSE IF proc[p] = "read"   THEN IF idle \/ woken[p] THEN 1 ELSE 2
  ELSE IF proc[p] = "busy"   THEN IF idle THEN 1 ELSE 2
  ELSE IF proc[p] = "accept" /\ woken[p] THEN IF idle THEN 1 ELSE 2
  ELSE IF idle THEN 2 ELSE 3

Types ==
  /\ parent \in {"start", "supervise", "signal", "reap", "done"}
  /\ at \in Places /\ tries \in Nat /\ asked \in BOOLEAN /\ idle \in BOOLEAN
  /\ proc \in [Places -> Stages]
  /\ stop \in [Places -> BOOLEAN] /\ woken \in [Places -> BOOLEAN]

PollNeedsHook == \A p \in Places : proc[p] = "poll" => idle

\* Places are reaped in order, and a reaped one stays empty.
InOrder ==
  /\ parent \in {"supervise", "signal"} => at = First(Places)
  /\ parent # "reap" => tries = 0
  /\ parent = "reap" => \A p \in Places : p < at => proc[p] = "none"
  /\ parent = "done" => \A p \in Places : proc[p] = "none"

\* The worker being reaped has been found with a client, or it will be on its
\* way out before a fifth signal.
OnItsWay == parent = "reap" /\ tries > 0 /\ at \notin held => tries + Left(at) <= 4

IInv == Types /\ PollNeedsHook /\ InOrder /\ OnItsWay /\ forced \subseteq held

-----------------------------------------------------------------------------
\* The first of a set of places is the least: the sets of the places before
\* each one are ordered by inclusion, and a smallest of them is empty.
LEMMA FirstIsLeast ==
  ASSUME NEW S, S \subseteq Places, S # {}
  PROVE  First(S) \in S /\ \A q \in S : First(S) <= q
<1>1. S \subseteq Nat /\ IsFiniteSet(S)
  BY PoolAssumption, FS_Subset
<1> DEFINE Before(x) == {q \in S : q < x}
           D == {Before(x) : x \in S}
           R == StrictSubsetOrdering(S)
<1>2. IsWellFoundedOn(R, SUBSET S)
  BY <1>1, FS_StrictSubsetOrderingWellFounded, FS_FiniteSubsetsOfFinite
<1>3. D \subseteq SUBSET S /\ D # {}
  OBVIOUS
<1>4. PICK d \in D : \A e \in D : ~(<<e, d>> \in R)
  <2> HIDE DEF D, R
  <2> QED
    BY <1>2, <1>3, WFMin
<1>5. PICK x \in S : d = Before(x)
  BY <1>4
<1>6. ASSUME NEW y \in S, y < x PROVE FALSE
  <2>0. x \in Nat /\ y \in Nat /\ y < x /\ S \subseteq Nat
    BY <1>1, <1>6
  <2>1. y \in Before(x) /\ y \notin Before(y)
    BY <2>0, <1>6
  <2>2. Before(y) \subseteq Before(x)
    <3>1. \A q \in S : q < y => q < x
      <4> HIDE DEF Before, D, R
      <4> QED
        BY <2>0
    <3> QED
      BY <3>1
  <2>3. <<Before(y), d>> \in R
    BY <2>1, <2>2, <1>5 DEF StrictSubsetOrdering
  <2> QED
    BY <2>3, <1>4
<1>7. \A y \in S : x <= y
  BY <1>1, <1>6
<1> QED
  BY <1>7 DEF First

LEMMA LeftType == ASSUME NEW p PROVE Left(p) \in 0..3
  BY DEF Left

LEMMA LeftTypeNext == ASSUME NEW p PROVE Left(p)' \in 0..3
  BY DEF Left

\* A worker that moves on while the parent does not keeps the invariant when it
\* has no more signals left to take than before.
LEMMA WorkerMoves ==
  ASSUME IInv, NEW p \in Places, proc[p] \in Live, NEW x \in Stages, GoesTo(p, x),
         stop' \in [Places -> BOOLEAN], \A q \in Places \ {p} : stop'[q] = stop[q],
         UNCHANGED <<parentVars, idle, forced, held>>,
         x = "poll" => idle,
         Left(p)' <= Left(p)
  PROVE  IInv'
<1>1. /\ proc' = [proc EXCEPT ![p] = x] /\ woken' = [woken EXCEPT ![p] = FALSE]
      /\ proc \in [Places -> Stages] /\ woken \in [Places -> BOOLEAN]
  BY DEF GoesTo, IInv, Types
<1>2. /\ proc' \in [Places -> Stages] /\ woken' \in [Places -> BOOLEAN]
      /\ proc'[p] = x
      /\ \A q \in Places \ {p} : proc'[q] = proc[q] /\ woken'[q] = woken[q]
  BY <1>1
<1>3. parent' = parent /\ at' = at /\ tries' = tries /\ asked' = asked
      /\ idle' = idle /\ forced' = forced /\ held' = held
  BY DEF parentVars
<1>4. Types'
  BY <1>2, <1>3 DEF IInv, Types
<1>5. PollNeedsHook'
  BY <1>2, <1>3 DEF IInv, PollNeedsHook
<1>6. proc[p] # "none"
  BY DEF Live
<1>7. InOrder'
  BY <1>2, <1>3, <1>6 DEF IInv, InOrder
<1>8. OnItsWay'
  <2>1. SUFFICES ASSUME parent = "reap", tries > 0, at \notin held
                 PROVE  tries + Left(at)' <= 4
    BY <1>3 DEF OnItsWay
  <2>2. tries + Left(at) <= 4 /\ tries \in Nat /\ at \in Places
    BY <2>1 DEF IInv, OnItsWay, Types
  <2>3. Left(at)' <= Left(at)
    <3>1. CASE at = p
      BY <3>1, <1>3
    <3>2. CASE at # p
      BY <3>2, <2>2, <1>2, <1>3, LeftType DEF Left
    <3> QED
      BY <3>1, <3>2
  <2> QED
    BY <2>2, <2>3, LeftType, LeftTypeNext
<1> QED
  BY <1>3, <1>4, <1>5, <1>7, <1>8 DEF IInv

-----------------------------------------------------------------------------
\* What the workers, their clients and a crash do.
LEMMA WorkersKeepIInv ==
  ASSUME IInv, NEW p \in Places, worker_main(p) \/ Client(p) \/ accept_fails(p) \/ Crash(p)
  PROVE  IInv'
<1> USE DEF Stages, Live
<1>0. /\ proc[p] \in Stages /\ stop[p] \in BOOLEAN /\ woken[p] \in BOOLEAN /\ idle \in BOOLEAN
      /\ proc \in [Places -> Stages] /\ stop \in [Places -> BOOLEAN]
      /\ woken \in [Places -> BOOLEAN] /\ (proc[p] = "poll" => idle)
  BY DEF IInv, Types, PollNeedsHook
\* A step that leaves the flag of every worker alone.
<1>2. ASSUME NEW x \in Stages, proc[p] \in Live, GoesTo(p, x), UNCHANGED stop,
             UNCHANGED <<parentVars, idle, forced, held>>, x = "poll" => idle,
             Left(p)' <= Left(p)
      PROVE  IInv'
  BY <1>0, <1>2, WorkerMoves
<1>3. CASE listener_reset_stop(p)
  <2>1. /\ proc[p] = "boot" /\ GoesTo(p, "check") /\ stop' = [stop EXCEPT ![p] = FALSE]
        /\ UNCHANGED <<parentVars, idle, forced, held>>
    BY <1>3 DEF listener_reset_stop, ControlOnly
  <2>2. proc'[p] = "check" /\ woken'[p] = FALSE
    BY <2>1, <1>0 DEF GoesTo
  <2>3. /\ stop' \in [Places -> BOOLEAN] /\ ~stop'[p]
        /\ \A q \in Places \ {p} : stop'[q] = stop[q]
    BY <2>1, <1>0
  <2>4. Left(p)' <= Left(p)
    BY <2>1, <2>3, <2>2 DEF Left, parentVars
  <2> QED
    BY <2>1, <2>3, <2>4, WorkerMoves
<1>4. CASE look_at_stop(p)
  <2>1. /\ proc[p] = "check" /\ GoesTo(p, IF stop[p] THEN "ended" ELSE "enter")
        /\ UNCHANGED stop /\ UNCHANGED <<parentVars, idle, forced, held>>
    BY <1>4 DEF look_at_stop, ControlOnly
  <2>2. proc'[p] = (IF stop[p] THEN "ended" ELSE "enter") /\ woken'[p] = FALSE
    BY <2>1, <1>0 DEF GoesTo
  <2>3. Left(p)' <= Left(p)
    BY <2>1, <1>0, <2>2 DEF Left, parentVars
  <2> QED
    BY <2>1, <2>3, <1>2
<1>5. CASE block(p)
  <2>1. /\ proc[p] = "enter" /\ GoesTo(p, IF idle THEN "poll" ELSE "accept")
        /\ UNCHANGED stop /\ UNCHANGED <<parentVars, idle, forced, held>>
    BY <1>5 DEF block, ControlOnly
  <2>2. proc'[p] = (IF idle THEN "poll" ELSE "accept") /\ woken'[p] = FALSE
    BY <2>1, <1>0 DEF GoesTo
  <2>3. Left(p)' <= Left(p)
    BY <2>1, <1>0, <2>2 DEF Left, parentVars
  <2> QED
    BY <2>1, <2>3, <1>2
<1>6. CASE wait_readable(p)
  <2>1. PICK x \in {"accept", "ended"} :
          /\ proc[p] = "poll" /\ GoesTo(p, x)
          /\ UNCHANGED stop /\ UNCHANGED <<parentVars, idle, forced, held>>
    BY <1>6 DEF wait_readable, ControlOnly
  <2>2. proc'[p] = x /\ woken'[p] = FALSE
    BY <2>1, <1>0 DEF GoesTo
  <2>3. Left(p)' <= Left(p)
    BY <2>1, <2>2, <1>0 DEF Left, parentVars
  <2> QED
    BY <2>1, <2>3, <1>2
<1>7. CASE accept_interrupted(p)
  <2>1. /\ proc[p] = "accept" /\ woken[p] /\ GoesTo(p, IF stop[p] THEN "ended" ELSE "enter")
        /\ UNCHANGED stop /\ UNCHANGED <<parentVars, idle, forced, held>>
    BY <1>7 DEF accept_interrupted, ControlOnly
  <2>2. proc'[p] = (IF stop[p] THEN "ended" ELSE "enter") /\ woken'[p] = FALSE
    BY <2>1, <1>0 DEF GoesTo
  <2>3. Left(p)' <= Left(p)
    BY <2>1, <1>0, <2>2 DEF Left, parentVars
  <2> QED
    BY <2>1, <2>3, <1>2
<1>8. CASE accept(p)
  <2>1. /\ proc[p] = "accept" /\ GoesTo(p, "read")
        /\ UNCHANGED stop /\ UNCHANGED <<parentVars, idle, forced, held>>
    BY <1>8 DEF accept
  <2>2. proc'[p] = "read" /\ woken'[p] = FALSE
    BY <2>1, <1>0 DEF GoesTo
  <2>3. Left(p)' <= Left(p)
    BY <2>1, <1>0, <2>2 DEF Left, parentVars
  <2> QED
    BY <2>1, <2>3, <1>2
<1>9. ASSUME NEW ok \in BOOLEAN, conn_ends(p, ok),
             proc[p] = "busy" \/ (proc[p] = "read" /\ (~woken[p] \/ (stop[p] /\ (idle \/ woken[p]))))
      PROVE  IInv'
  <2>1. /\ GoesTo(p, "report")
        /\ UNCHANGED stop /\ UNCHANGED <<parentVars, idle, forced, held>>
    BY <1>9 DEF conn_ends
  <2>2. proc'[p] = "report" /\ woken'[p] = FALSE
    BY <2>1, <1>0 DEF GoesTo
  <2>3. Left(p)' <= Left(p)
    BY <2>1, <1>0, <2>2, <1>9 DEF Left, parentVars
  <2> QED
    BY <2>1, <2>3, <1>2, <1>9
<1>10. CASE Message(p)
  <2>1. /\ proc[p] = "read" /\ ~woken[p] /\ GoesTo(p, "busy")
        /\ UNCHANGED stop /\ UNCHANGED <<parentVars, idle, forced, held>>
    BY <1>10 DEF Message, ControlOnly
  <2>2. proc'[p] = "busy" /\ woken'[p] = FALSE
    BY <2>1, <1>0 DEF GoesTo
  <2>3. Left(p)' <= Left(p)
    BY <2>1, <1>0, <2>2 DEF Left, parentVars
  <2> QED
    BY <2>1, <2>3, <1>2
<1>11. CASE serve_conn_answers(p)
  <2>1. /\ proc[p] = "busy" /\ ~(idle /\ stop[p]) /\ GoesTo(p, "read")
        /\ UNCHANGED stop /\ UNCHANGED <<parentVars, idle, forced, held>>
    BY <1>11 DEF serve_conn_answers, ControlOnly
  <2>2. proc'[p] = "read" /\ woken'[p] = FALSE
    BY <2>1, <1>0 DEF GoesTo
  <2>3. Left(p)' <= Left(p)
    BY <2>1, <1>0, <2>2 DEF Left, parentVars
  <2> QED
    BY <2>1, <2>3, <1>2
<1>12. CASE serve_conn_ends(p)
  <2>1. PICK ok \in BOOLEAN :
          /\ conn_ends(p, ok)
          /\ proc[p] = "busy" \/ (proc[p] = "read" /\ ~woken[p])
    BY <1>12, Zenon DEF serve_conn_ends
  <2> QED
    BY <2>1, <1>9, Zenon
<1>13. CASE serve_conn_stops(p)
  <2>1. PICK ok \in BOOLEAN : /\ conn_ends(p, ok) /\ proc[p] = "read" /\ stop[p]
                              /\ idle \/ woken[p]
    BY <1>13, Zenon DEF serve_conn_stops
  <2> QED
    BY <2>1, <1>9, Zenon
<1>14. CASE report(p)
  <2>1. /\ proc[p] = "report"
        /\ GoesTo(p, IF fails[p] >= FailLimit THEN "ended" ELSE "check")
        /\ UNCHANGED stop /\ UNCHANGED <<parentVars, idle, forced, held>>
    BY <1>14 DEF report
  <2>2. proc'[p] = (IF fails[p] >= FailLimit THEN "ended" ELSE "check") /\ woken'[p] = FALSE
    BY <2>1, <1>0 DEF GoesTo
  <2>3. Left(p)' <= Left(p)
    BY <2>1, <1>0, <2>2 DEF Left, parentVars
  <2> QED
    BY <2>1, <2>3, <1>2
<1>15. CASE worker_exit(p)
  <2>1. /\ proc[p] = "ended" /\ GoesTo(p, "zombie")
        /\ UNCHANGED stop /\ UNCHANGED <<parentVars, idle, forced, held>>
    BY <1>15 DEF worker_exit, ControlOnly
  <2>2. proc'[p] = "zombie" /\ woken'[p] = FALSE
    BY <2>1, <1>0 DEF GoesTo
  <2>3. Left(p)' <= Left(p)
    BY <2>1, <1>0, <2>2 DEF Left, parentVars
  <2> QED
    BY <2>1, <2>3, <1>2
<1>17. CASE accept_fails(p)
  <2>1. /\ proc[p] \in {"poll", "accept"} /\ GoesTo(p, "ended")
        /\ UNCHANGED stop /\ UNCHANGED <<parentVars, idle, forced, held>>
    BY <1>17 DEF accept_fails
  <2>2. proc'[p] = "ended" /\ woken'[p] = FALSE
    BY <2>1, <1>0 DEF GoesTo
  <2>3. Left(p)' <= Left(p)
    BY <2>1, <1>0, <2>2 DEF Left, parentVars
  <2> QED
    BY <2>1, <2>3, <1>2
<1>16. CASE Crash(p)
  <2>1. /\ proc[p] \in Live /\ GoesTo(p, "zombie")
        /\ UNCHANGED stop /\ UNCHANGED <<parentVars, idle, forced, held>>
    BY <1>16 DEF Crash
  <2>2. proc'[p] = "zombie" /\ woken'[p] = FALSE
    BY <2>1, <1>0 DEF GoesTo
  <2>3. Left(p)' <= Left(p)
    BY <2>1, <1>0, <2>2 DEF Left, parentVars
  <2> QED
    BY <2>1, <2>3, <1>2
<1> QED
  BY <1>3, <1>4, <1>5, <1>6, <1>7, <1>8, <1>10, <1>11, <1>12, <1>13, <1>14, <1>15, <1>16, <1>17
     DEF worker_main, Client

-----------------------------------------------------------------------------
\* What the parent does.
LEMMA PoolStartKeepsIInv == ASSUME IInv, pool_start PROVE IInv'
<1> USE DEF Stages, Live
<1>0. Types /\ PollNeedsHook /\ InOrder /\ forced \subseteq held
  BY DEF IInv
<1>1. /\ parent = "start" /\ parent' \in {"start", "supervise", "signal"}
      /\ tries' = tries /\ asked' = asked /\ idle' = idle /\ forced' = forced /\ held' = held
      /\ at' = IF parent' = "start" THEN First(Later(at)) ELSE First(Places)
      /\ parent' = "start" => Later(at) # {}
  BY DEF pool_start
<1>2. PICK x \in {"boot", "none"} : proc' = [proc EXCEPT ![at] = x]
  BY DEF pool_start, spawn
<1>3. stop' = [stop EXCEPT ![at] = asked] /\ woken' = [woken EXCEPT ![at] = FALSE]
  BY DEF pool_start, spawn
<1>4. Later(at) \subseteq Places /\ Places # {}
  BY PoolAssumption DEF Later
<1>5. at' \in Places
  BY <1>1, <1>4, FirstIsLeast
<1>6. Types'
  BY <1>0, <1>1, <1>2, <1>3, <1>5 DEF Types
<1>7. PollNeedsHook'
  BY <1>0, <1>1, <1>2 DEF PollNeedsHook, Types
<1>8. InOrder' /\ OnItsWay'
  BY <1>0, <1>1 DEF InOrder, OnItsWay
<1> QED
  BY <1>0, <1>1, <1>6, <1>7, <1>8 DEF IInv

LEMMA SupervisionKeepsIInv ==
  ASSUME IInv, NEW p \in Places, pool_supervise(p)
  PROVE  IInv'
<1> USE DEF Stages, Live
<1>0. Types /\ PollNeedsHook /\ InOrder /\ forced \subseteq held
  BY DEF IInv
<1>1. /\ parent = "supervise" /\ parent' = parent /\ at' = at /\ tries' = tries
      /\ asked' = asked /\ idle' = idle /\ forced' = forced /\ held' = held
  BY DEF pool_supervise, parentVars
<1>2. PICK x \in {"boot", "none"} : proc' = [proc EXCEPT ![p] = x]
  BY DEF pool_supervise, spawn
<1>3. stop' = [stop EXCEPT ![p] = asked] /\ woken' = [woken EXCEPT ![p] = FALSE]
  BY DEF pool_supervise, spawn
<1>4. Types'
  BY <1>0, <1>1, <1>2, <1>3 DEF Types
<1>5. PollNeedsHook'
  BY <1>0, <1>1, <1>2 DEF PollNeedsHook, Types
<1>6. InOrder' /\ OnItsWay'
  BY <1>0, <1>1 DEF InOrder, OnItsWay
<1> QED
  BY <1>0, <1>1, <1>4, <1>5, <1>6 DEF IInv

\* A signal never wakes the dead, starts nobody, and finds out who is with a
\* client.
LEMMA SignalledEffect ==
  ASSUME Types, PollNeedsHook, NEW S \in SUBSET Places, NEW missed, Signalled(S, missed), idle' = idle
  PROVE  /\ proc' \in [Places -> Stages] /\ stop' \in [Places -> BOOLEAN]
         /\ woken' \in [Places -> BOOLEAN]
         /\ PollNeedsHook' /\ held \subseteq held'
         /\ \A p \in Places : proc[p] = "none" => proc'[p] = "none"
         /\ \A p \in S : /\ proc[p] = "busy" => p \in held'
                         /\ proc[p] \in Live =>
                              /\ stop'[p] = TRUE
                              /\ p \notin missed => woken'[p] = (woken[p] \/ proc[p] \in Blocking)
                              /\ proc'[p] = proc[p] \/ (proc[p] = "boot" /\ proc'[p] = "zombie")
<1>1. PICK dead \in SUBSET {p \in S : proc[p] = "boot"} :
        proc' = [p \in Places |-> IF p \in dead THEN "zombie" ELSE proc[p]]
  BY DEF Signalled
<1>2. /\ stop' = [p \in Places |-> stop[p] \/ (p \in S /\ proc[p] \in Live)]
      /\ woken' = [p \in Places |-> woken[p] \/ (p \in S \ missed /\ proc[p] \in Blocking)]
      /\ held' = held \cup {p \in S : proc[p] = "busy"}
  BY DEF Signalled
<1>3. /\ proc \in [Places -> Stages] /\ stop \in [Places -> BOOLEAN]
      /\ woken \in [Places -> BOOLEAN]
  BY DEF Types
<1>4. proc' \in [Places -> Stages]
  BY <1>1, <1>3 DEF Stages
<1>5. stop' \in [Places -> BOOLEAN] /\ woken' \in [Places -> BOOLEAN]
  BY <1>2, <1>3, Zenon
<1>6. PollNeedsHook'
  BY <1>1, <1>3 DEF PollNeedsHook
<1>7. \A p \in Places : proc[p] = "none" => proc'[p] = "none"
  BY <1>1
<1>8. ASSUME NEW p \in S, proc[p] \in Live
      PROVE  /\ stop'[p] = TRUE
             /\ p \notin missed => woken'[p] = (woken[p] \/ proc[p] \in Blocking)
             /\ proc'[p] = proc[p] \/ (proc[p] = "boot" /\ proc'[p] = "zombie")
  BY <1>1, <1>2, <1>3, <1>8
<1> QED
  BY <1>2, <1>4, <1>5, <1>6, <1>7, <1>8

LEMMA StopSignalKeepsIInv == ASSUME IInv, pool_stop PROVE IInv'
<1>0. Types /\ PollNeedsHook /\ InOrder /\ forced \subseteq held
  BY DEF IInv
<1> DEFINE S == {p \in Places : proc[p] # "none"}
<1>1. /\ parent = "signal" /\ parent' = "reap" /\ at' = at /\ tries' = tries
      /\ asked' = asked /\ idle' = idle /\ forced' = forced /\ \E missed : Signalled(S, missed)
  BY DEF pool_stop
<1>2. /\ proc' \in [Places -> Stages] /\ stop' \in [Places -> BOOLEAN]
      /\ woken' \in [Places -> BOOLEAN] /\ PollNeedsHook' /\ held \subseteq held'
  <2> HIDE DEF S
  <2>1. S \in SUBSET Places
    BY DEF S
  <2> QED
    BY <1>0, <1>1, <2>1, SignalledEffect
<1>3. Types'
  BY <1>0, <1>1, <1>2 DEF Types
<1>4. \A p \in Places : ~(p < at)
  <2>1. at = First(Places) /\ at \in Nat /\ Places \subseteq Nat /\ Places # {}
    BY <1>0, <1>1, PoolAssumption DEF InOrder, Types
  <2>2. \A p \in Places : at <= p
    BY <2>1, FirstIsLeast
  <2> QED
    BY <2>1, <2>2
<1>5. InOrder' /\ OnItsWay'
  BY <1>0, <1>1, <1>4 DEF InOrder, OnItsWay
<1> QED
  BY <1>0, <1>1, <1>2, <1>3, <1>5 DEF IInv

\* The place is done with, its process gone: the next is looked at.
LEMMA NextPlaceKeepsOrder ==
  ASSUME Types, InOrder, parent = "reap", next_place,
         \A p \in Places : proc[p] = "none" => proc'[p] = "none",
         proc'[at] = "none"
  PROVE  /\ InOrder' /\ at' \in Places /\ tries' = 0 /\ parent' \in {"reap", "done"}
<1>1. /\ at \in Places /\ Places \subseteq Nat /\ at \in Nat /\ tries' = 0
      /\ \A p \in Places : p < at => proc[p] = "none"
  BY PoolAssumption DEF Types, InOrder, next_place
<1>2. \A p \in Places : p <= at => proc'[p] = "none"
  BY <1>1
<1>3. CASE Later(at) = {}
  <2>1. parent' = "done" /\ at' = at
    BY <1>3 DEF next_place
  <2>2. \A p \in Places : p <= at
    BY <1>1, <1>3 DEF Later
  <2> QED
    BY <1>1, <1>2, <2>1, <2>2 DEF InOrder
<1>4. CASE Later(at) # {}
  <2>1. parent' = "reap" /\ at' = First(Later(at))
    BY <1>4 DEF next_place
  <2>2. Later(at) \subseteq Places
    BY DEF Later
  <2>3. at' \in Places /\ \A q \in Later(at) : at' <= q
    BY <1>4, <2>1, <2>2, FirstIsLeast
  <2>4. ASSUME NEW p \in Places, p < at' PROVE p <= at
    BY <1>1, <2>3, <2>4 DEF Later
  <2> QED
    BY <1>1, <1>2, <2>1, <2>3, <2>4 DEF InOrder
<1> QED
  BY <1>3, <1>4

LEMMA ReapKeepsIInv == ASSUME StopTries >= 5, IInv, reap_worker PROVE IInv'
<1> USE DEF Stages
<1>0. Types /\ PollNeedsHook /\ InOrder /\ OnItsWay /\ forced \subseteq held
  BY DEF IInv
<1>1. parent = "reap" /\ at \in Places /\ tries \in Nat /\ StopTries \in Nat
  BY <1>0, PoolAssumption DEF Types, reap_worker
\* The worker of the place is gone, and was forced only if a client held it.
<1>2. ASSUME (proc' = proc /\ proc[at] = "none") \/ proc' = [proc EXCEPT ![at] = "none"],
             next_place, UNCHANGED <<asked, idle, stop, woken, held>>,
             forced' \subseteq held
      PROVE  IInv'
  <2>1. /\ proc' \in [Places -> Stages] /\ proc'[at] = "none"
        /\ \A p \in Places : proc[p] = "none" => proc'[p] = "none"
        /\ \A p \in Places : proc'[p] = "poll" => proc[p] = "poll"
    BY <1>0, <1>1, <1>2 DEF Types
  <2>2. InOrder' /\ at' \in Places /\ tries' = 0 /\ parent' \in {"reap", "done"}
    BY <1>0, <1>1, <1>2, <2>1, NextPlaceKeepsOrder
  <2>3. Types'
    BY <1>0, <1>2, <2>1, <2>2 DEF Types
  <2>4. PollNeedsHook'
    BY <1>0, <1>2, <2>1 DEF PollNeedsHook
  <2>5. OnItsWay'
    BY <2>2 DEF OnItsWay
  <2> QED
    BY <1>2, <2>2, <2>3, <2>4, <2>5 DEF IInv
<1>3. CASE proc[at] = "none" /\ next_place
             /\ UNCHANGED <<asked, idle, proc, stop, woken, fails, pipe, counts, waiting,
                            forced, held, spent>>
  BY <1>0, <1>2, <1>3
<1>4. CASE proc[at] = "zombie" /\ tries < StopTries /\ reaped /\ UNCHANGED <<untold, forced>>
  BY <1>0, <1>2, <1>4 DEF reaped
<1>5. CASE /\ proc[at] \in Live /\ tries < StopTries /\ (tries = 0 \/ Settled(at))
           /\ tries' = tries + 1
           /\ \E missed \in SUBSET {at} : (tries = 0 \/ missed = {}) /\ Signalled({at}, missed)
           /\ UNCHANGED <<parent, at, asked, idle, fails, pipe, counts, waiting, forced, spent>>
  <2>0. PICK missed \in SUBSET {at} : (tries = 0 \/ missed = {}) /\ Signalled({at}, missed)
    BY <1>5
  <2>1. /\ proc' \in [Places -> Stages] /\ stop' \in [Places -> BOOLEAN]
        /\ woken' \in [Places -> BOOLEAN] /\ PollNeedsHook' /\ held \subseteq held'
        /\ \A p \in Places : proc[p] = "none" => proc'[p] = "none"
        /\ proc[at] = "busy" => at \in held'
        /\ stop'[at] = TRUE
        /\ at \notin missed => woken'[at] = (woken[at] \/ proc[at] \in Blocking)
        /\ proc'[at] = proc[at] \/ (proc[at] = "boot" /\ proc'[at] = "zombie")
    <3>1. {at} \in SUBSET Places /\ idle' = idle /\ proc[at] \in Live
      BY <1>1, <1>5
    <3> QED
      BY <1>0, <2>0, <3>1, SignalledEffect
  <2>2. Types'
    BY <1>0, <1>1, <1>5, <2>1 DEF Types
  <2>3. InOrder'
    BY <1>0, <1>1, <1>5, <2>1 DEF InOrder
  <2>4. OnItsWay'
    <3> SUFFICES ASSUME at \notin held' PROVE tries + 1 + Left(at)' <= 4
      BY <1>1, <1>5, LeftTypeNext DEF OnItsWay
    <3>1. proc[at] # "busy" /\ at \notin held
      BY <2>1
    <3>2. CASE tries = 0
      BY <3>2, LeftTypeNext
    <3>3. CASE tries > 0
      <4>1. tries + Left(at) <= 4 /\ Settled(at)
        BY <1>0, <1>1, <1>5, <3>1, <3>3 DEF OnItsWay
      <4>2. /\ proc[at] \in {"accept", "poll", "read", "report"} /\ ~woken[at]
            /\ proc[at] = "poll" => idle /\ ~stop[at]
            /\ proc[at] = "read" => ~(idle /\ stop[at])
        BY <1>0, <1>1, <1>5, <3>1, <4>1 DEF Settled, Live, PollNeedsHook
      <4>3. stop'[at] = TRUE /\ woken'[at] = TRUE /\ proc'[at] = proc[at] /\ at' = at /\ idle' = idle
        BY <1>1, <1>5, <2>0, <2>1, <3>3, <4>2 DEF Blocking
      <4>4. Left(at)' + 1 <= Left(at)
        BY <4>2, <4>3 DEF Left
      <4> QED
        BY <1>1, <4>1, <4>4, LeftType, LeftTypeNext
    <3> QED
      BY <1>1, <3>2, <3>3
  <2> QED
    BY <1>0, <1>5, <2>1, <2>2, <2>3, <2>4 DEF IInv
<1>6. CASE /\ tries = StopTries /\ Settled(at) /\ reaped
           /\ forced' = forced \cup {at}
  <2>1. at \in held
    BY <1>0, <1>1, <1>6, LeftType DEF OnItsWay
  <2> QED
    BY <1>0, <1>2, <1>6, <2>1 DEF reaped
<1> QED
  BY <1>3, <1>4, <1>5, <1>6 DEF reap_worker

-----------------------------------------------------------------------------
LEMMA InitIInv == Init => IInv
<1> SUFFICES ASSUME Init PROVE IInv
  OBVIOUS
<1>1. First(Places) \in Places
  BY PoolAssumption, FirstIsLeast
<1>2. Types
  BY <1>1 DEF Init, Types, Stages, Live
<1>3. PollNeedsHook /\ InOrder /\ OnItsWay /\ forced \subseteq held
  BY DEF Init, PollNeedsHook, InOrder, OnItsWay
<1> QED
  BY <1>2, <1>3 DEF IInv

LEMMA NextIInv == ASSUME StopTries >= 5 PROVE IInv /\ [Next]_vars => IInv'
<1> SUFFICES ASSUME IInv, [Next]_vars PROVE IInv'
  OBVIOUS
<1>1. CASE Parent
  <2>1. CASE pool_start
    BY <2>1, PoolStartKeepsIInv
  <2>2. CASE pool_supervise_ends
    BY <2>2 DEF pool_supervise_ends, IInv, Types, PollNeedsHook, InOrder, OnItsWay
  <2>3. CASE pool_stop
    BY <2>3, StopSignalKeepsIInv
  <2>4. CASE reap_worker
    BY <2>4, ReapKeepsIInv
  <2>5. CASE \E p \in Places : pool_supervise(p)
    BY <2>5, SupervisionKeepsIInv
  <2> QED
    BY <1>1, <2>1, <2>2, <2>3, <2>4, <2>5 DEF Parent
<1>2. CASE \E p \in Places : worker_main(p) \/ Client(p) \/ accept_fails(p) \/ Crash(p)
  BY <1>2, WorkersKeepIInv
<1>3. CASE listener_request_stop
  BY <1>3 DEF listener_request_stop, IInv, Types, PollNeedsHook, InOrder, OnItsWay
<1>4. CASE Connect \/ UNCHANGED vars
  <2>1. UNCHANGED <<parentVars, idle, proc, stop, woken, forced, held>>
    BY <1>4 DEF Connect, vars
  <2>2. Types' /\ PollNeedsHook' /\ InOrder'
    BY <2>1 DEF IInv, Types, PollNeedsHook, InOrder, parentVars
  <2>3. OnItsWay'
    BY <2>1 DEF IInv, OnItsWay, Left, parentVars
  <2> QED
    BY <2>1, <2>2, <2>3 DEF IInv
<1> QED
  BY <1>1, <1>2, <1>3, <1>4 DEF Next

\* When pool_stop returns no child is left, and only a worker that one of its
\* signals found with a client was killed by force: for any number of places
\* and whatever is lost or crashes, five signals are enough (POOL_STOP_TRIES
\* allows two hundred).
THEOREM StopLeavesNothing == ASSUME StopTries >= 5 PROVE Spec => []StopIsClean
<1>1. IInv => StopIsClean
  BY DEF IInv, InOrder, StopIsClean
<1>2. IInv /\ [Next]_vars => IInv'
  BY NextIInv
<1> QED
  BY InitIInv, <1>1, <1>2, PTL DEF Spec

-----------------------------------------------------------------------------
(* The sum over the places.                                                 *)

Some(s) == CHOOSE x \in s : TRUE
Step(f, g, s) == IF s = {} THEN 0 ELSE f[Some(s)] + g[s \ {Some(s)}]

\* The sum of f over every set of places, as the fold computes it.
Sums(f) == CHOOSE g : g = [s \in SUBSET Places |-> Step(f, g, s)]

LEMMA TotalIsSum == ASSUME NEW f PROVE Total(f) = Sums(f)[Places]
BY DEF Total, MapThenSumSet, MapThenFoldSet, Sums, Step, Some

\* A nonempty set of natural numbers has a least one.
LEMMA LeastOf ==
  ASSUME NEW S, S \subseteq Nat, S # {}
  PROVE  \E x \in S : \A y \in S : x <= y
<1> DEFINE R == {p \in Nat \X Nat : p[1] < p[2]}
<1>0. IsWellFoundedOn(R, Nat)
  BY NatLessThanWellFounded, Zenon DEF OpToRel
<1>1. PICK x \in S : \A y \in S : ~(<<y, x>> \in R)
  <2> HIDE DEF R
  <2> QED
    BY <1>0, WFMin
<1>2. ASSUME NEW y \in S PROVE x <= y
  <2>1. x \in Nat /\ y \in Nat /\ ~(<<y, x>> \in R)
    BY <1>1
  <2> QED
    BY <2>1
<1> QED
  BY <1>2

\* If there is a set of places in Bad then there is one with no smaller one in
\* Bad.
LEMMA SmallestOf ==
  ASSUME NEW Bad, Bad \subseteq SUBSET Places, Bad # {}
  PROVE  \E s \in Bad : \A t \in Bad : Cardinality(s) <= Cardinality(t)
<1> DEFINE N == {Cardinality(s) : s \in Bad}
<1>1. \A s \in Bad : Cardinality(s) \in Nat
  BY PoolAssumption, FS_Subset, FS_CardinalityType
<1>2. N \subseteq Nat /\ N # {}
  BY <1>1
<1>3. \E x \in N : \A y \in N : x <= y
  <2> HIDE DEF N
  <2> QED
    BY <1>2, LeastOf
<1> QED
  BY <1>3

LEMMA Smaller ==
  ASSUME NEW s \in SUBSET Places, NEW x \in s
  PROVE  /\ s \ {x} \in SUBSET Places
         /\ Cardinality(s \ {x}) \in Nat /\ Cardinality(s) \in Nat
         /\ Cardinality(s \ {x}) = Cardinality(s) - 1
<1>1. IsFiniteSet(s)
  BY PoolAssumption, FS_Subset
<1> QED
  BY <1>1, FS_RemoveElement, FS_CardinalityType

\* g gives the sums of f over the sets of at most n places.
SumsUpTo(f, g, n) ==
  /\ g \in [SUBSET Places -> Int]
  /\ \A s \in SUBSET Places : Cardinality(s) <= n => g[s] = Step(f, g, s)

LEMMA SumsAreDefined ==
  ASSUME NEW f \in [Places -> Int]
  PROVE  /\ Sums(f) \in [SUBSET Places -> Int]
         /\ \A s \in SUBSET Places : Sums(f)[s] = Step(f, Sums(f), s)
<1> DEFINE Bad == {n \in Nat : ~\E g : SumsUpTo(f, g, n)}
<1>0. \A s \in SUBSET Places : Cardinality(s) \in Nat /\ (s # {} => Some(s) \in s /\ f[Some(s)] \in Int)
  BY PoolAssumption, FS_Subset, FS_CardinalityType DEF Some
<1>1. Bad = {}
  <2> SUFFICES ASSUME Bad # {} PROVE FALSE
    OBVIOUS
  <2>1. PICK n \in Bad : \A m \in Bad : n <= m
    <3>1. Bad \subseteq Nat
      OBVIOUS
    <3> HIDE DEF Bad
    <3> QED
      BY <3>1, LeastOf
  <2>2. n \in Nat /\ ~\E g : SumsUpTo(f, g, n)
    BY <2>1
  <2>3. PICK g \in [SUBSET Places -> Int] :
          \A s \in SUBSET Places : Cardinality(s) < n => g[s] = Step(f, g, s)
    <3>1. CASE n = 0
      <4>1. \A s \in SUBSET Places : ~(Cardinality(s) < n)
        BY <1>0, <3>1
      <4>2. [s \in SUBSET Places |-> 0] \in [SUBSET Places -> Int]
        OBVIOUS
      <4> QED
        BY <4>1, <4>2
    <3>2. CASE n # 0
      <4>1. n - 1 \in Nat /\ n - 1 \notin Bad
        BY <2>1, <2>2, <3>2
      <4>2. PICK g : SumsUpTo(f, g, n - 1)
        BY <4>1
      <4>3. \A s \in SUBSET Places : Cardinality(s) < n => Cardinality(s) <= n - 1
        BY <1>0, <2>2
      <4> QED
        BY <4>2, <4>3 DEF SumsUpTo
    <3> QED
      BY <3>1, <3>2
  <2> DEFINE h == [s \in SUBSET Places |-> IF Cardinality(s) = n THEN Step(f, g, s) ELSE g[s]]
  <2>4. \A s \in SUBSET Places : Step(f, g, s) \in Int
    <3> SUFFICES ASSUME NEW s \in SUBSET Places PROVE Step(f, g, s) \in Int
      OBVIOUS
    <3>1. s # {} => s \ {Some(s)} \in SUBSET Places
      OBVIOUS
    <3> QED
      BY <1>0, <2>3, <3>1 DEF Step
  <2>5. h \in [SUBSET Places -> Int]
    BY <2>3, <2>4
  <2>6. \A s \in SUBSET Places : h[s] = IF Cardinality(s) = n THEN Step(f, g, s) ELSE g[s]
    OBVIOUS
  <2> HIDE DEF h
  <2>7. ASSUME NEW s \in SUBSET Places, Cardinality(s) <= n PROVE h[s] = Step(f, h, s)
    <3>1. Step(f, h, s) = Step(f, g, s)
      <4>1. CASE s = {}
        BY <4>1 DEF Step
      <4>2. CASE s # {}
        <5>1. /\ s \ {Some(s)} \in SUBSET Places
              /\ Cardinality(s \ {Some(s)}) = Cardinality(s) - 1
          BY <1>0, <4>2, Smaller
        <5>2. h[s \ {Some(s)}] = g[s \ {Some(s)}]
          BY <1>0, <2>2, <2>6, <2>7, <5>1
        <5> QED
          BY <5>2 DEF Step
      <4> QED
        BY <4>1, <4>2
    <3>2. Cardinality(s) = n \/ Cardinality(s) < n
      BY <1>0, <2>2, <2>7
    <3> QED
      BY <2>3, <2>6, <3>1, <3>2
  <2>8. SumsUpTo(f, h, n)
    BY <2>5, <2>7 DEF SumsUpTo
  <2> QED
    BY <2>2, <2>8
<1>2. Cardinality(Places) \in Nat /\ \A s \in SUBSET Places : Cardinality(s) <= Cardinality(Places)
  BY PoolAssumption, FS_Subset, FS_CardinalityType
<1>3. PICK g : SumsUpTo(f, g, Cardinality(Places))
  BY <1>1, <1>2
<1> DEFINE E(k) == k = [s \in SUBSET Places |-> Step(f, k, s)]
<1>4. E(g)
  <2>1. \A s \in SUBSET Places : g[s] = Step(f, g, s)
    BY <1>2, <1>3 DEF SumsUpTo
  <2>2. g \in [SUBSET Places -> Int]
    BY <1>3 DEF SumsUpTo
  <2> QED
    BY <2>1, <2>2
<1>5. Sums(f) = CHOOSE k : E(k)
  BY DEF Sums
<1>6. E(Sums(f))
  <2> HIDE DEF E
  <2> QED
    BY <1>4, <1>5
<1>7. \A s \in SUBSET Places : Sums(f)[s] = Step(f, Sums(f), s)
  BY <1>6
<1>8. \A s \in SUBSET Places : Sums(f)[s] \in Int
  <2> DEFINE Wrong == {s \in SUBSET Places : Sums(f)[s] \notin Int}
  <2> HIDE DEF E
  <2> SUFFICES ASSUME Wrong # {} PROVE FALSE
    OBVIOUS
  <2>1. PICK s \in Wrong : \A t \in Wrong : Cardinality(s) <= Cardinality(t)
    <3>1. Wrong \subseteq SUBSET Places
      OBVIOUS
    <3> HIDE DEF Wrong
    <3> QED
      BY <3>1, SmallestOf
  <2>2. s \in SUBSET Places /\ Sums(f)[s] \notin Int
    BY <2>1
  <2>3. s # {}
    <3>1. s = {} => Sums(f)[s] = 0
      BY <1>7, <2>2 DEF Step
    <3> QED
      BY <2>2, <3>1
  <2>4. /\ s \ {Some(s)} \in SUBSET Places
        /\ Cardinality(s \ {Some(s)}) \in Nat /\ Cardinality(s) \in Nat
        /\ Cardinality(s \ {Some(s)}) = Cardinality(s) - 1
    BY <1>0, <2>2, <2>3, Smaller
  <2>5. Sums(f)[s \ {Some(s)}] \in Int
    BY <2>1, <2>4
  <2> QED
    BY <1>0, <1>7, <2>2, <2>3, <2>5 DEF Step
<1> QED
  <2>1. Sums(f) = [s \in SUBSET Places |-> Sums(f)[s]]
    <3>1. Sums(f) = [s \in SUBSET Places |-> Step(f, Sums(f), s)]
      BY <1>6
    <3>2. [s \in SUBSET Places |-> Step(f, Sums(f), s)] = [s \in SUBSET Places |-> Sums(f)[s]]
      BY <1>7
    <3> QED
      BY <3>1, <3>2
  <2> HIDE DEF E
  <2> QED
    BY <1>7, <1>8, <2>1

\* Whatever place is taken out first.
LEMMA SumSplits ==
  ASSUME NEW f \in [Places -> Int], NEW s \in SUBSET Places, NEW x \in s
  PROVE  Sums(f)[s] = f[x] + Sums(f)[s \ {x}]
<1> DEFINE Wrong == {t \in SUBSET Places : \E y \in t : Sums(f)[t] # f[y] + Sums(f)[t \ {y}]}
<1>0. /\ \A t \in SUBSET Places : Sums(f)[t] \in Int /\ Sums(f)[t] = Step(f, Sums(f), t)
      /\ \A y \in Places : f[y] \in Int
      /\ \A t : t # {} => Some(t) \in t
  BY SumsAreDefined DEF Some
<1> SUFFICES ASSUME Wrong # {} PROVE FALSE
  OBVIOUS
<1>1. PICK t \in Wrong : \A u \in Wrong : Cardinality(t) <= Cardinality(u)
  <2>1. Wrong \subseteq SUBSET Places
    OBVIOUS
  <2> HIDE DEF Wrong
  <2> QED
    BY <2>1, SmallestOf
<1>2. PICK y \in t : Sums(f)[t] # f[y] + Sums(f)[t \ {y}]
  BY <1>1
<1> DEFINE z == Some(t)
<1>3. t \in SUBSET Places /\ z \in t /\ y \in t
  BY <1>0, <1>1, <1>2
<1>4. Sums(f)[t] = f[z] + Sums(f)[t \ {z}]
  BY <1>0, <1>3 DEF Step
<1> HIDE DEF z
<1>5. y # z
  BY <1>2, <1>4
<1>6. t \ {y} \notin Wrong /\ t \ {z} \notin Wrong
  <2>1. /\ Cardinality(t) \in Nat /\ Cardinality(t \ {y}) = Cardinality(t) - 1
        /\ Cardinality(t \ {z}) = Cardinality(t) - 1
    BY <1>3, Smaller
  <2> HIDE DEF Wrong
  <2> QED
    BY <1>1, <2>1
<1>7. z \in t \ {y} /\ y \in t \ {z} /\ t \ {y} \in SUBSET Places /\ t \ {z} \in SUBSET Places
  BY <1>3, <1>5
<1>8. /\ Sums(f)[t \ {y}] = f[z] + Sums(f)[(t \ {y}) \ {z}]
      /\ Sums(f)[t \ {z}] = f[y] + Sums(f)[(t \ {z}) \ {y}]
  BY <1>6, <1>7
<1>9. (t \ {y}) \ {z} = (t \ {z}) \ {y} /\ (t \ {z}) \ {y} \in SUBSET Places
  BY <1>3
<1>10. f[y] \in Int /\ f[z] \in Int /\ Sums(f)[(t \ {z}) \ {y}] \in Int
  BY <1>0, <1>3, <1>9
<1>11. Sums(f)[t \ {y}] = f[z] + Sums(f)[(t \ {z}) \ {y}]
  BY <1>8, <1>9
<1>12. Sums(f)[t] = f[y] + Sums(f)[t \ {y}]
  BY <1>4, <1>8, <1>10, <1>11
<1> QED
  BY <1>2, <1>12

\* Functions that agree on some places have one sum over them.
LEMMA SumsAgree ==
  ASSUME NEW f \in [Places -> Int], NEW g \in [Places -> Int],
         NEW s \in SUBSET Places, \A x \in s : f[x] = g[x]
  PROVE  Sums(f)[s] = Sums(g)[s]
<1> DEFINE Wrong == {t \in SUBSET s : Sums(f)[t] # Sums(g)[t]}
<1>0. /\ \A t \in SUBSET Places : /\ Sums(f)[t] = Step(f, Sums(f), t)
                                 /\ Sums(g)[t] = Step(g, Sums(g), t)
      /\ \A t : t # {} => Some(t) \in t
  BY SumsAreDefined DEF Some
<1> SUFFICES ASSUME Wrong # {} PROVE FALSE
  OBVIOUS
<1>1. PICK t \in Wrong : \A u \in Wrong : Cardinality(t) <= Cardinality(u)
  <2>1. Wrong \subseteq SUBSET Places
    OBVIOUS
  <2> HIDE DEF Wrong
  <2> QED
    BY <2>1, SmallestOf
<1>2. t \in SUBSET s /\ t \in SUBSET Places /\ Sums(f)[t] # Sums(g)[t]
  BY <1>1
<1>3. t # {}
  BY <1>0, <1>2 DEF Step
<1>4. Some(t) \in t /\ f[Some(t)] = g[Some(t)]
  BY <1>0, <1>2, <1>3
<1>5. /\ Cardinality(t) \in Nat /\ Cardinality(t \ {Some(t)}) = Cardinality(t) - 1
      /\ t \ {Some(t)} \in SUBSET s
  BY <1>2, <1>4, Smaller
<1>6. Sums(f)[t \ {Some(t)}] = Sums(g)[t \ {Some(t)}]
  BY <1>1, <1>5
<1> QED
  BY <1>0, <1>2, <1>3, <1>4, <1>6 DEF Step

\* A function changed in one place.
LEMMA TotalChanges ==
  ASSUME NEW f \in [Places -> Int], NEW p \in Places, NEW v \in Int
  PROVE  /\ Total(f) \in Int
         /\ Total([f EXCEPT ![p] = v]) = Total(f) - f[p] + v
<1> DEFINE g == [f EXCEPT ![p] = v]
<1>1. g \in [Places -> Int] /\ g[p] = v /\ \A x \in Places \ {p} : g[x] = f[x]
  OBVIOUS
<1> HIDE DEF g
<1>0. Places \in SUBSET Places
  OBVIOUS
<1>2. Sums(f)[Places] = f[p] + Sums(f)[Places \ {p}]
  BY <1>0, SumSplits
<1>3. Sums(g)[Places] = g[p] + Sums(g)[Places \ {p}]
  BY <1>0, <1>1, SumSplits
<1>4. Sums(g)[Places \ {p}] = Sums(f)[Places \ {p}]
  BY <1>1, SumsAgree
<1>5. Sums(f)[Places] \in Int /\ Sums(f)[Places \ {p}] \in Int /\ f[p] \in Int
  BY SumsAreDefined
<1>6. Total(g) = Total(f) - f[p] + v /\ Total(f) \in Int
  BY <1>1, <1>2, <1>3, <1>4, <1>5, TotalIsSum
<1> QED
  BY <1>6 DEF g

LEMMA TotalOfNone ==
  ASSUME NEW f \in [Places -> Int], \A p \in Places : f[p] = 0
  PROVE  Total(f) = 0
<1> DEFINE Wrong == {t \in SUBSET Places : Sums(f)[t] # 0}
<1>0. /\ \A t \in SUBSET Places : Sums(f)[t] = Step(f, Sums(f), t)
      /\ \A t : t # {} => Some(t) \in t
  BY SumsAreDefined DEF Some
<1>1. Wrong = {}
  <2> SUFFICES ASSUME Wrong # {} PROVE FALSE
    OBVIOUS
  <2>1. PICK t \in Wrong : \A u \in Wrong : Cardinality(t) <= Cardinality(u)
    <3>1. Wrong \subseteq SUBSET Places
      OBVIOUS
    <3> HIDE DEF Wrong
    <3> QED
      BY <3>1, SmallestOf
  <2>2. t \in SUBSET Places /\ Sums(f)[t] # 0
    BY <2>1
  <2>3. t # {}
    BY <1>0, <2>2 DEF Step
  <2>4. Some(t) \in t /\ f[Some(t)] = 0
    BY <1>0, <2>2, <2>3
  <2>5. /\ Cardinality(t) \in Nat /\ Cardinality(t \ {Some(t)}) = Cardinality(t) - 1
        /\ t \ {Some(t)} \in SUBSET Places
    BY <2>2, <2>4, Smaller
  <2>6. Sums(f)[t \ {Some(t)}] = 0
    BY <2>1, <2>5
  <2> QED
    BY <1>0, <2>2, <2>3, <2>4, <2>6 DEF Step
<1> QED
  BY <1>1, TotalIsSum

-----------------------------------------------------------------------------
(* Every connection accepted is in one place.                               *)

Busy == {p \in Places : proc[p] \in Serving}
InHand(stage) == IF stage \in Serving THEN 1 ELSE 0

\* What CountsAddUp rests on.  While the pool is started the places that are
\* still to come have no worker and nothing in a pipe: nobody drains them.
CInv ==
  /\ at \in Places
  /\ proc \in [Places -> Stages]
  /\ handled \in [Places -> Nat] /\ pipe \in [Places -> Nat]
  /\ accepted \in Nat /\ untold \in Nat
  /\ parent = "start" => \A q \in Places : at <= q => proc[q] = "none" /\ pipe[q] = 0
  /\ accepted = Total(handled) + Total(pipe) + untold + Cardinality(Busy)

LEMMA BusyChanges ==
  ASSUME proc \in [Places -> Stages], NEW p \in Places, NEW x \in Stages,
         proc' = [proc EXCEPT ![p] = x]
  PROVE  /\ Cardinality(Busy) \in Nat
         /\ Cardinality(Busy') = Cardinality(Busy) - InHand(proc[p]) + InHand(x)
<1>1. IsFiniteSet(Busy)
  BY PoolAssumption, FS_Subset DEF Busy
<1>2. Cardinality(Busy) \in Nat
  BY <1>1, FS_CardinalityType
<1>3. proc'[p] = x /\ \A q \in Places \ {p} : proc'[q] = proc[q]
  OBVIOUS
<1>4. CASE x \in Serving
  <2>1. Busy' = Busy \cup {p}
    BY <1>3, <1>4 DEF Busy
  <2>2. p \in Busy <=> proc[p] \in Serving
    BY DEF Busy
  <2>3. Cardinality(Busy \cup {p}) =
          IF p \in Busy THEN Cardinality(Busy) ELSE Cardinality(Busy) + 1
    BY <1>1, FS_AddElement
  <2>4. InHand(x) = 1 /\ InHand(proc[p]) = IF p \in Busy THEN 1 ELSE 0
    BY <1>4, <2>2 DEF InHand
  <2> QED
    BY <1>2, <2>1, <2>3, <2>4
<1>5. CASE x \notin Serving
  <2>1. Busy' = Busy \ {p}
    BY <1>3, <1>5 DEF Busy
  <2>2. p \in Busy <=> proc[p] \in Serving
    BY DEF Busy
  <2>3. Cardinality(Busy \ {p}) =
          IF p \in Busy THEN Cardinality(Busy) - 1 ELSE Cardinality(Busy)
    BY <1>1, FS_RemoveElement
  <2>4. InHand(x) = 0 /\ InHand(proc[p]) = IF p \in Busy THEN 1 ELSE 0
    BY <1>5, <2>2 DEF InHand
  <2> QED
    BY <1>2, <2>1, <2>3, <2>4
<1> QED
  BY <1>2, <1>4, <1>5

\* A step at one place that moves as many connections as it takes.
LEMMA Moves ==
  ASSUME CInv, NEW p \in Places, NEW x \in Stages, NEW h \in Nat, NEW b \in Nat,
         proc' = [proc EXCEPT ![p] = x],
         handled' = [handled EXCEPT ![p] = h],
         pipe' = [pipe EXCEPT ![p] = b],
         accepted' \in Nat, untold' \in Nat, at' \in Places,
         parent' = "start" =>
           parent = "start" /\ \A q \in Places : at' <= q => at <= q /\ q # p,
         accepted' - accepted = (h - handled[p]) + (b - pipe[p]) + (untold' - untold)
                                  + (InHand(x) - InHand(proc[p]))
  PROVE  CInv'
<1>1. /\ proc \in [Places -> Stages] /\ handled \in [Places -> Nat] /\ pipe \in [Places -> Nat]
      /\ accepted \in Nat /\ untold \in Nat
      /\ accepted = Total(handled) + Total(pipe) + untold + Cardinality(Busy)
  BY DEF CInv
<1>2. proc' \in [Places -> Stages] /\ handled' \in [Places -> Nat] /\ pipe' \in [Places -> Nat]
  BY <1>1
<1>3. handled \in [Places -> Int] /\ pipe \in [Places -> Int] /\ h \in Int /\ b \in Int
  BY <1>1
<1>4. Total(handled) \in Int /\ Total(handled') = Total(handled) - handled[p] + h
  BY <1>3, TotalChanges
<1>5. Total(pipe) \in Int /\ Total(pipe') = Total(pipe) - pipe[p] + b
  BY <1>3, TotalChanges
<1>6. /\ Cardinality(Busy) \in Nat
      /\ Cardinality(Busy') = Cardinality(Busy) - InHand(proc[p]) + InHand(x)
  BY <1>1, BusyChanges
<1>7. InHand(x) \in Int /\ InHand(proc[p]) \in Int /\ handled[p] \in Int /\ pipe[p] \in Int
  BY <1>1 DEF InHand
<1>8. accepted' = Total(handled') + Total(pipe') + untold' + Cardinality(Busy')
  BY <1>1, <1>4, <1>5, <1>6, <1>7
<1>9. parent' = "start" => \A q \in Places : at' <= q => proc'[q] = "none" /\ pipe'[q] = 0
  BY <1>1 DEF CInv
<1> QED
  BY <1>2, <1>8, <1>9 DEF CInv

\* The same for a worker, whose steps leave the parent and its counts alone.
LEMMA WorkerCounts ==
  ASSUME CInv, NEW p \in Places, proc[p] # "none", NEW x \in Stages, GoesTo(p, x),
         NEW b \in Nat, pipe' = [pipe EXCEPT ![p] = b],
         UNCHANGED <<parentVars, handled>>,
         accepted' \in Nat, untold' \in Nat,
         accepted' - accepted = (b - pipe[p]) + (untold' - untold) + (InHand(x) - InHand(proc[p]))
  PROVE  CInv'
<1>1. /\ proc' = [proc EXCEPT ![p] = x] /\ parent' = parent /\ at' = at /\ handled' = handled
  BY DEF GoesTo, parentVars
<1>2. /\ handled \in [Places -> Nat] /\ pipe \in [Places -> Nat] /\ at \in Places
      /\ accepted \in Nat /\ untold \in Nat
      /\ parent = "start" => \A q \in Places : at <= q => q # p
  BY DEF CInv
<1>3. handled' = [handled EXCEPT ![p] = handled[p]] /\ handled[p] \in Nat
  BY <1>1, <1>2
<1>4. InHand(x) \in Int /\ InHand(proc[p]) \in Int /\ pipe[p] \in Int
  BY <1>2 DEF InHand
<1>5. accepted' - accepted = (handled[p] - handled[p]) + (b - pipe[p]) + (untold' - untold)
                                  + (InHand(x) - InHand(proc[p]))
  BY <1>2, <1>3, <1>4
<1> QED
  BY <1>1, <1>2, <1>3, <1>5, Moves

\* A worker that goes on with the connection it has, or without one.
LEMMA WorkerGoesOn ==
  ASSUME CInv, NEW p \in Places, proc[p] # "none", NEW x \in Stages, GoesTo(p, x),
         UNCHANGED <<parentVars, counts, pipe>>, x \in Serving <=> proc[p] \in Serving
  PROVE  CInv'
<1>1. /\ pipe \in [Places -> Nat] /\ accepted \in Nat /\ untold \in Nat
      /\ handled' = handled /\ accepted' = accepted /\ untold' = untold /\ pipe' = pipe
  BY DEF CInv, counts
<1>2. pipe' = [pipe EXCEPT ![p] = pipe[p]] /\ pipe[p] \in Nat
  BY <1>1
<1>3. accepted' - accepted = (pipe[p] - pipe[p]) + (untold' - untold) + (InHand(x) - InHand(proc[p]))
  BY <1>1, <1>2 DEF InHand
<1> QED
  BY <1>1, <1>2, <1>3, WorkerCounts

LEMMA WorkersKeepCInv ==
  ASSUME CInv, NEW p \in Places, worker_main(p) \/ Client(p) \/ accept_fails(p) \/ Crash(p)
  PROVE  CInv'
<1>0. /\ pipe \in [Places -> Nat] /\ accepted \in Nat /\ untold \in Nat /\ pipe[p] \in Nat
      /\ pipe = [pipe EXCEPT ![p] = pipe[p]]
  BY DEF CInv
<1>1. CASE accept(p)
  <2>1. /\ proc[p] = "accept" /\ GoesTo(p, "read") /\ accepted' = accepted + 1
        /\ untold' = untold /\ pipe' = pipe /\ UNCHANGED <<parentVars, handled>>
    BY <1>1 DEF accept
  <2>2. "read" \in Stages /\ InHand("read") = 1 /\ InHand(proc[p]) = 0 /\ proc[p] # "none"
    BY <2>1 DEF InHand, Serving, Stages, Live
  <2> QED
    BY <1>0, <2>1, <2>2, WorkerCounts
<1>2. CASE report(p)
  <2> DEFINE x == IF fails[p] >= FailLimit THEN "ended" ELSE "check"
  <2>1. /\ proc[p] = "report" /\ GoesTo(p, x) /\ accepted' = accepted
        /\ UNCHANGED <<parentVars, handled>>
        /\ \/ pipe' = [pipe EXCEPT ![p] = pipe[p] + 1] /\ untold' = untold
           \/ pipe' = pipe /\ untold' = untold + 1
    BY <1>2 DEF report
  <2>2. x \in Stages /\ InHand(x) = 0 /\ InHand(proc[p]) = 1 /\ proc[p] # "none"
    BY <2>1 DEF InHand, Serving, Stages, Live
  <2> HIDE DEF x
  <2>3. CASE pipe' = [pipe EXCEPT ![p] = pipe[p] + 1] /\ untold' = untold
    <3> DEFINE b == pipe[p] + 1
    <3>1. b \in Nat /\ pipe' = [pipe EXCEPT ![p] = b]
      BY <1>0, <2>3
    <3>2. accepted' - accepted = (b - pipe[p]) + (untold' - untold) + (InHand(x) - InHand(proc[p]))
      BY <1>0, <2>1, <2>2, <2>3
    <3>3. accepted' \in Nat /\ untold' \in Nat
      BY <1>0, <2>1, <2>3
    <3> HIDE DEF b
    <3>4. proc[p] # "none" /\ x \in Stages /\ GoesTo(p, x) /\ UNCHANGED <<parentVars, handled>>
      BY <2>1, <2>2
    <3> QED
      BY <3>1, <3>2, <3>3, <3>4, WorkerCounts
  <2>4. CASE pipe' = pipe /\ untold' = untold + 1
    BY <1>0, <2>1, <2>2, <2>4, WorkerCounts
  <2> QED
    BY <2>1, <2>3, <2>4
<1>3. CASE Crash(p)
  <2>1. /\ proc[p] \in Live /\ GoesTo(p, "zombie") /\ accepted' = accepted /\ pipe' = pipe
        /\ untold' = untold + InHand(proc[p]) /\ UNCHANGED <<parentVars, handled>>
    BY <1>3 DEF Crash, InHand
  <2>2. /\ "zombie" \in Stages /\ InHand("zombie") = 0 /\ InHand(proc[p]) \in Nat
        /\ proc[p] # "none"
    BY <2>1 DEF InHand, Serving, Stages, Live
  <2> QED
    BY <1>0, <2>1, <2>2, WorkerCounts
<1>4. CASE serve_conn_ends(p) \/ serve_conn_stops(p)
  <2>1. /\ proc[p] \in {"read", "busy"} /\ GoesTo(p, "report")
        /\ UNCHANGED <<parentVars, counts, pipe>>
    BY <1>4 DEF serve_conn_ends, serve_conn_stops, conn_ends
  <2> QED
    BY <2>1, WorkerGoesOn DEF Stages, Live, Serving
<1>5. CASE Message(p) \/ serve_conn_answers(p)
  <2>1. PICK x \in {"read", "busy"} :
          /\ proc[p] \in {"read", "busy"} /\ GoesTo(p, x)
          /\ UNCHANGED <<parentVars, counts, pipe>>
    BY <1>5 DEF Message, serve_conn_answers, ControlOnly
  <2> QED
    BY <2>1, WorkerGoesOn DEF Stages, Live, Serving
<1>6. CASE \/ listener_reset_stop(p) \/ look_at_stop(p) \/ block(p) \/ wait_readable(p)
           \/ accept_interrupted(p) \/ accept_fails(p) \/ worker_exit(p)
  <2>1. PICK x \in {"check", "ended", "enter", "poll", "accept", "zombie"} :
          /\ proc[p] \in {"boot", "check", "enter", "poll", "accept", "ended"} /\ GoesTo(p, x)
          /\ UNCHANGED <<parentVars, counts, pipe>>
    <3>1. CASE listener_reset_stop(p)
      BY <3>1 DEF listener_reset_stop, ControlOnly
    <3>2. CASE look_at_stop(p)
      BY <3>2 DEF look_at_stop, ControlOnly
    <3>3. CASE block(p)
      BY <3>3 DEF block, ControlOnly
    <3>4. CASE wait_readable(p)
      BY <3>4 DEF wait_readable, ControlOnly
    <3>5. CASE accept_interrupted(p)
      BY <3>5 DEF accept_interrupted, ControlOnly
    <3>6. CASE worker_exit(p)
      BY <3>6 DEF worker_exit, ControlOnly
    <3>7. CASE accept_fails(p)
      BY <3>7 DEF accept_fails
    <3> QED
      BY <1>6, <3>1, <3>2, <3>3, <3>4, <3>5, <3>6, <3>7
  <2> QED
    BY <2>1, WorkerGoesOn DEF Stages, Live, Serving
<1> QED
  BY <1>1, <1>2, <1>3, <1>4, <1>5, <1>6 DEF worker_main, Client

-----------------------------------------------------------------------------
LEMMA NextPlaceExists ==
  ASSUME at \in Places, next_place
  PROVE  at' \in Places /\ (parent' = "start" => parent = "start")
<1>1. Later(at) \subseteq Places
  BY DEF Later
<1>2. Later(at) # {} => First(Later(at)) \in Places
  BY <1>1, FirstIsLeast
<1> QED
  BY <1>2 DEF next_place

LEMMA PoolStartKeepsCInv == ASSUME CInv, pool_start PROVE CInv'
<1>0. /\ at \in Places /\ Places \subseteq Nat /\ Places # {}
      /\ proc \in [Places -> Stages] /\ handled \in [Places -> Nat] /\ pipe \in [Places -> Nat]
      /\ accepted \in Nat /\ untold \in Nat
  BY PoolAssumption DEF CInv
<1>1. /\ parent = "start" /\ pipe' = [pipe EXCEPT ![at] = 0] /\ proc'[at] \in {"boot", "none"}
      /\ handled' = handled /\ accepted' = accepted /\ untold' = untold
      /\ at' = IF parent' = "start" THEN First(Later(at)) ELSE First(Places)
      /\ parent' = "start" => Later(at) # {}
  BY <1>0 DEF pool_start, spawn, counts
<1>2. PICK x \in {"boot", "none"} : proc' = [proc EXCEPT ![at] = x]
  BY DEF pool_start, spawn
<1>3. proc[at] = "none" /\ pipe[at] = 0
  BY <1>0, <1>1 DEF CInv
<1>4. Later(at) \subseteq Places /\ \A q \in Later(at) : q > at
  BY DEF Later
<1>5. /\ at' \in Places
      /\ parent' = "start" => \A q \in Places : at' <= q => at <= q /\ q # at
  <2>1. CASE parent' = "start"
    <3>1. at' \in Later(at)
      BY <1>1, <1>4, <2>1, FirstIsLeast
    <3>2. at' \in Nat /\ at \in Nat /\ at' > at /\ at' \in Places
      BY <1>0, <1>4, <3>1
    <3> QED
      BY <1>0, <3>2
  <2>2. CASE parent' # "start"
    BY <1>0, <1>1, <2>2, FirstIsLeast
  <2> QED
    BY <2>1, <2>2
<1>6. handled' = [handled EXCEPT ![at] = handled[at]] /\ handled[at] \in Nat
  BY <1>0, <1>1
<1>7. accepted' - accepted = (handled[at] - handled[at]) + (0 - pipe[at]) + (untold' - untold)
                               + (InHand(x) - InHand(proc[at]))
  BY <1>0, <1>1, <1>3, <1>6 DEF InHand, Serving
<1>8. x \in Stages
  BY DEF Stages, Live
<1> QED
  BY <1>0, <1>1, <1>2, <1>5, <1>6, <1>7, <1>8, Moves

\* A worker is gone and what it left in the pipe is counted; one that died at
\* a client's side now leaves a connection nobody was told of.
LEMMA DrainedKeepsCInv ==
  ASSUME CInv, NEW p \in Places, drain(p), pipe' = [pipe EXCEPT ![p] = 0],
         NEW x \in {"none", "boot"}, proc' = [proc EXCEPT ![p] = x],
         at' \in Places, parent # "start", parent' # "start",
         accepted' = accepted, untold' = untold + InHand(proc[p])
  PROVE  CInv'
<1>1. /\ handled \in [Places -> Nat] /\ pipe \in [Places -> Nat]
      /\ accepted \in Nat /\ untold \in Nat /\ handled[p] \in Nat /\ pipe[p] \in Nat
  BY DEF CInv
<1> DEFINE h == handled[p] + pipe[p]
<1>2. handled' = [handled EXCEPT ![p] = h] /\ h \in Nat
  BY <1>1 DEF drain
<1>3. x \in Stages /\ InHand(x) = 0 /\ InHand(proc[p]) \in Nat
  BY DEF InHand, Serving, Stages, Live
<1>4. accepted' - accepted = (h - handled[p]) + (0 - pipe[p])
                               + (untold' - untold) + (InHand(x) - InHand(proc[p]))
  BY <1>1, <1>3
<1>5. accepted' \in Nat /\ untold' \in Nat
  BY <1>1, <1>3
<1> HIDE DEF h
<1>6. 0 \in Nat /\ (parent' = "start" => parent = "start" /\ \A q \in Places : at' <= q => at <= q /\ q # p)
  OBVIOUS
<1> QED
  BY <1>2, <1>3, <1>4, <1>5, <1>6, Moves

\* A signal takes no connection out of a worker's hands.
LEMMA SignalledKeepsCInv ==
  ASSUME CInv, NEW S \in SUBSET Places, NEW missed, Signalled(S, missed),
         parent # "start", parent' # "start",
         UNCHANGED <<at, pipe, counts>>
  PROVE  CInv'
<1>1. PICK dead \in SUBSET {p \in S : proc[p] = "boot"} :
        proc' = [p \in Places |-> IF p \in dead THEN "zombie" ELSE proc[p]]
  BY DEF Signalled
<1>2. proc \in [Places -> Stages]
  BY DEF CInv
<1>3. proc' \in [Places -> Stages] /\ \A p \in Places : proc'[p] \in Serving <=> proc[p] \in Serving
  BY <1>1, <1>2 DEF Stages, Serving
<1>4. Busy' = Busy
  BY <1>3 DEF Busy
<1> QED
  BY <1>3, <1>4 DEF CInv, counts

LEMMA ParentKeepsCInv == ASSUME CInv, Parent PROVE CInv'
<1>0. at \in Places /\ proc \in [Places -> Stages] /\ untold \in Nat
  BY DEF CInv
<1>1. CASE pool_start
  BY <1>1, PoolStartKeepsCInv
<1>2. CASE pool_supervise_ends
  BY <1>2 DEF pool_supervise_ends, CInv, counts, Busy
<1>3. CASE pool_stop
  <2>1. {p \in Places : proc[p] # "none"} \in SUBSET Places
    OBVIOUS
  <2>2. /\ parent # "start" /\ parent' # "start" /\ UNCHANGED <<at, pipe, counts>>
        /\ \E missed : Signalled({p \in Places : proc[p] # "none"}, missed)
    BY <1>3 DEF pool_stop
  <2> QED
    BY <2>1, <2>2, SignalledKeepsCInv
<1>4. CASE \E p \in Places : pool_supervise(p)
  <2>1. PICK p \in Places : pool_supervise(p)
    BY <1>4
  <2>2. /\ parent # "start" /\ parent' # "start" /\ at' = at /\ proc[p] = "zombie" /\ drain(p)
        /\ pipe' = [pipe EXCEPT ![p] = 0] /\ accepted' = accepted /\ untold' = untold
    BY <2>1 DEF pool_supervise, spawn, parentVars
  <2>3. PICK x \in {"none", "boot"} : proc' = [proc EXCEPT ![p] = x]
    BY <2>1 DEF pool_supervise, spawn
  <2>4. untold' = untold + InHand(proc[p])
    BY <1>0, <2>2 DEF InHand, Serving
  <2> QED
    BY <1>0, <2>2, <2>3, <2>4, DrainedKeepsCInv
<1>5. CASE reap_worker
  <2>1. parent = "reap"
    BY <1>5 DEF reap_worker
  <2>2. CASE /\ proc[at] = "none" /\ next_place
             /\ UNCHANGED <<asked, idle, proc, stop, woken, fails, pipe, counts, waiting,
                            forced, held, spent>>
    <3>1. at' \in Places /\ parent' # "start"
      BY <1>0, <2>1, <2>2, NextPlaceExists
    <3> QED
      BY <2>2, <3>1 DEF CInv, counts, Busy
  <2>3. ASSUME reaped, untold' = untold + InHand(proc[at]) PROVE CInv'
    <3>1. /\ drain(at) /\ pipe' = [pipe EXCEPT ![at] = 0] /\ accepted' = accepted
          /\ proc' = [proc EXCEPT ![at] = "none"] /\ next_place
      BY <2>3 DEF reaped
    <3>2. at' \in Places /\ parent' # "start"
      BY <1>0, <2>1, <3>1, NextPlaceExists
    <3> QED
      BY <1>0, <2>1, <2>3, <3>1, <3>2, DrainedKeepsCInv
  <2>4. CASE proc[at] = "zombie" /\ tries < StopTries /\ reaped /\ UNCHANGED <<untold, forced>>
    <3>1. untold' = untold + InHand(proc[at])
      BY <1>0, <2>4 DEF InHand, Serving
    <3> QED
      BY <2>3, <2>4, <3>1
  <2>5. CASE /\ proc[at] \in Live /\ tries < StopTries /\ (tries = 0 \/ Settled(at))
             /\ tries' = tries + 1
             /\ \E missed \in SUBSET {at} : (tries = 0 \/ missed = {}) /\ Signalled({at}, missed)
             /\ UNCHANGED <<parent, at, asked, idle, fails, pipe, counts, waiting, forced, spent>>
    <3>1. {at} \in SUBSET Places
      BY <1>0
    <3>2. parent # "start" /\ parent' # "start" /\ UNCHANGED <<at, pipe, counts>>
          /\ \E missed : Signalled({at}, missed)
      BY <2>1, <2>5
    <3> QED
      BY <3>1, <3>2, SignalledKeepsCInv
  <2>6. CASE /\ tries = StopTries /\ Settled(at) /\ reaped
             /\ untold' = untold + (IF proc[at] \in Serving THEN 1 ELSE 0)
    BY <2>3, <2>6 DEF InHand
  <2> QED
    BY <1>5, <2>2, <2>4, <2>5, <2>6 DEF reap_worker
<1> QED
  BY <1>1, <1>2, <1>3, <1>4, <1>5 DEF Parent

LEMMA InitCInv == Init => CInv
<1> SUFFICES ASSUME Init PROVE CInv
  OBVIOUS
<1>1. /\ proc = [p \in Places |-> "none"] /\ pipe = [p \in Places |-> 0]
      /\ handled = [p \in Places |-> 0] /\ accepted = 0 /\ untold = 0 /\ at = First(Places)
  BY DEF Init
<1>2. at \in Places
  BY <1>1, PoolAssumption, FirstIsLeast
<1>3. pipe \in [Places -> Int] /\ handled \in [Places -> Int]
  BY <1>1
<1>4. Total(pipe) = 0 /\ Total(handled) = 0
  BY <1>1, <1>3, TotalOfNone
<1>5. Busy = {} /\ Cardinality(Busy) = 0
  <2>1. Busy = {}
    BY <1>1 DEF Busy, Serving
  <2> QED
    BY <2>1, FS_EmptySet
<1>6. proc \in [Places -> Stages] /\ pipe \in [Places -> Nat] /\ handled \in [Places -> Nat]
  BY <1>1 DEF Stages
<1> QED
  BY <1>1, <1>2, <1>4, <1>5, <1>6 DEF CInv

LEMMA NextCInv == CInv /\ [Next]_vars => CInv'
<1> SUFFICES ASSUME CInv, [Next]_vars PROVE CInv'
  OBVIOUS
<1>1. CASE Parent
  BY <1>1, ParentKeepsCInv
<1>2. CASE \E p \in Places : worker_main(p) \/ Client(p) \/ accept_fails(p) \/ Crash(p)
  BY <1>2, WorkersKeepCInv
<1>3. CASE listener_request_stop \/ Connect \/ UNCHANGED vars
  <2>1. UNCHANGED <<parent, at, proc, pipe, counts>>
    BY <1>3 DEF listener_request_stop, Connect, vars, parentVars
  <2> QED
    BY <2>1 DEF CInv, counts, Busy
<1> QED
  BY <1>1, <1>2, <1>3 DEF Next

\* For any number of places, connections, crashes, failed forks and signals each
\* accepted connection is with a worker, in a pipe, counted by the parent or
\* lost with the worker that was killed over it: pool_supervise and reap_worker
\* drain a pipe before its place is filled or given up.
THEOREM ConnectionsAreCounted == Spec => []CountsAddUp
<1>1. CInv => CountsAddUp
  BY DEF CInv, CountsAddUp, Busy
<1> QED
  BY InitCInv, NextCInv, <1>1, PTL DEF Spec
=============================================================================
