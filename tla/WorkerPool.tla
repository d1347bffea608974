----------------------------- MODULE WorkerPool -----------------------------
(***************************************************************************)
(* The pre-forked worker pool (src/ledger/src/worker_pool.c) over the      *)
(* blocking listener (src/ledger/src/listener.c).  The parent forks the    *)
(* workers, watches for dead ones, and at the end signals and reaps them;  *)
(* a worker accepts connections from the one listening socket, serves each *)
(* to its end and writes one byte per connection into its pipe, which the  *)
(* parent reads only when the worker is gone.  A SIGTERM sets a flag and   *)
(* interrupts the call a process is blocked in; one that comes before the  *)
(* call, though after the look at the flag, interrupts nothing.            *)
(***************************************************************************)
EXTENDS Integers, FiniteSets, FiniteSetsExt

CONSTANTS
  Places,       \* the places of the pool, 0..worker_count - 1
  PipeCap,      \* bytes a pipe holds
  FailLimit,    \* WORKER_FAIL_LIMIT
  StopTries,    \* POOL_STOP_TRIES
  MaxConns,     \* connections clients ever open
  MaxKills,     \* workers that die of something else than the pool, or of accept()
  MaxForkFails  \* forks that fail

ASSUME PoolAssumption ==
  /\ Places # {} /\ IsFiniteSet(Places) /\ Places \subseteq Nat
  /\ \A n \in {PipeCap, FailLimit, StopTries} : n \in Nat \ {0}
  /\ \A n \in {MaxConns, MaxKills, MaxForkFails} : n \in Nat

VARIABLES
  parent,   \* "start", "supervise", "signal", "reap", "done"
  at,       \* the place the parent is starting or reaping
  tries,    \* signals reap_worker has sent to it
  asked,    \* listener_request_stop() in the parent
  idle,     \* whether the listener has an idle hook
  proc,     \* what the worker of each place is doing
  stop,     \* its g_stop
  woken,    \* whether a signal has interrupted the call it is blocked in
  fails,    \* its run of failed connections
  pipe,     \* bytes in its pipe
  handled,  \* connections the parent has counted for the place
  waiting,  \* connections in the socket's queue
  accepted, \* connections accepted so far
  untold,   \* connections whose worker could not write their byte
  forced,   \* places whose worker had to be killed at the end
  held,     \* places whose worker a stop signal found in the hands of a client
  spent     \* connections, kills and failed forks so far

parentVars == <<parent, at, tries, asked>>
counts == <<handled, accepted, untold>>
vars == <<parentVars, idle, proc, stop, woken, fails, pipe, counts, waiting,
          forced, held, spent>>

\* "none": the place has no process; "boot": forked, and not past
\* listener_install_signals(); "check": about to look at the flag; "enter":
\* between the look and the blocking call; "poll" and "accept": about to make
\* that call or blocked in it; "read": the same between two messages; "busy":
\* in the handler, in the middle of a message or of an answer; "report": about
\* to write its byte or blocked in that; "ended": returned from the loop;
\* "zombie": dead and not reaped.
Live == {"boot", "check", "enter", "poll", "accept", "read", "busy", "report", "ended"}
Blocking == {"poll", "accept", "read", "report"}
Serving == {"read", "busy", "report"}

First(S) == CHOOSE p \in S : \A q \in S : p <= q
Later(p) == {q \in Places : q > p}

Init ==
  /\ parent = "start" /\ at = First(Places) /\ tries = 0 /\ asked = FALSE
  /\ idle \in BOOLEAN
  /\ proc = [p \in Places |-> "none"]
  /\ stop = [p \in Places |-> FALSE]
  /\ woken = [p \in Places |-> FALSE]
  /\ fails = [p \in Places |-> 0]
  /\ pipe = [p \in Places |-> 0]
  /\ handled = [p \in Places |-> 0]
  /\ waiting = 0 /\ accepted = 0 /\ untold = 0
  /\ forced = {} /\ held = {}
  /\ spent = [conns |-> 0, kills |-> 0, forks |-> 0]

Spend(kind, bound) ==
  /\ spent[kind] < bound
  /\ spent' = [spent EXCEPT ![kind] = @ + 1]

-----------------------------------------------------------------------------
(* on_signal sets the flag; a blocking call returns EINTR, unless the worker *)
(* is one of those the signal missed: about to make the call (poll has       *)
(* returned and accept() is next, a connection's first read, the write of    *)
(* the byte), it makes it all the same.  A child that has not installed the  *)
(* handler yet dies of the signal, or clears the flag again if it had        *)
(* inherited a handler.                                                      *)
Signalled(S, missed) ==
  /\ stop' = [p \in Places |-> stop[p] \/ (p \in S /\ proc[p] \in Live)]
  /\ woken' = [p \in Places |-> woken[p] \/ (p \in S \ missed /\ proc[p] \in Blocking)]
  /\ held' = held \cup {p \in S : proc[p] = "busy"}
  /\ \E dead \in SUBSET {p \in S : proc[p] = "boot"} :
       proc' = [p \in Places |-> IF p \in dead THEN "zombie" ELSE proc[p]]

(* A worker goes on from one place in the code to the next.                  *)
GoesTo(p, stage) ==
  /\ proc' = [proc EXCEPT ![p] = stage]
  /\ woken' = [woken EXCEPT ![p] = FALSE]

(* A step that moves the worker's control and nothing else.                  *)
ControlOnly ==
  UNCHANGED <<parentVars, idle, fails, pipe, counts, waiting, forced, held, spent>>

listener_reset_stop(p) ==
  /\ proc[p] = "boot"
  /\ GoesTo(p, "check")
  /\ stop' = [stop EXCEPT ![p] = FALSE]
  /\ ControlOnly

(* worker_main and listener_serve_one both look at the flag first.           *)
look_at_stop(p) ==
  /\ proc[p] = "check"
  /\ GoesTo(p, IF stop[p] THEN "ended" ELSE "enter")
  /\ UNCHANGED stop /\ ControlOnly

(* With an idle hook the listener polls and looks again at every timeout;    *)
(* without one it goes straight to accept().                                 *)
block(p) ==
  /\ proc[p] = "enter"
  /\ GoesTo(p, IF idle THEN "poll" ELSE "accept")
  /\ UNCHANGED stop /\ ControlOnly

wait_readable(p) ==
  /\ proc[p] = "poll"
  /\ \/ waiting > 0 /\ GoesTo(p, "accept")
     \/ stop[p] /\ GoesTo(p, "ended")
  /\ UNCHANGED stop /\ ControlOnly

(* Faulty: the call goes on after a signal.                                  *)
accept_restarted(p) ==
  /\ proc[p] = "accept" /\ woken[p]
  /\ GoesTo(p, "accept")
  /\ UNCHANGED stop /\ ControlOnly

accept_interrupted(p) ==
  /\ proc[p] = "accept" /\ woken[p]
  /\ GoesTo(p, IF stop[p] THEN "ended" ELSE "enter")
  /\ UNCHANGED stop /\ ControlOnly

(* An error other than EINTR: worker_main takes it for the end.              *)
accept_fails(p) ==
  /\ proc[p] \in {"poll", "accept"}
  /\ Spend("kills", MaxKills)
  /\ GoesTo(p, "ended")
  /\ UNCHANGED <<parentVars, idle, stop, fails, pipe, counts, waiting, forced, held>>

accept(p) ==
  /\ proc[p] = "accept"
  /\ waiting > 0
  /\ GoesTo(p, "read")
  /\ waiting' = waiting - 1
  /\ accepted' = accepted + 1
  /\ UNCHANGED <<parentVars, idle, stop, fails, pipe, handled, untold, forced, held, spent>>

(* serve_conn ends; worker_main keeps the run of failures.                   *)
conn_ends(p, ok) ==
  /\ GoesTo(p, "report")
  /\ fails' = [fails EXCEPT ![p] = IF ok THEN 0 ELSE @ + 1]
  /\ UNCHANGED <<parentVars, idle, stop, pipe, counts, waiting, forced, held, spent>>

(* The client sends a message, the handler answers it, or the connection     *)
(* ends: closed between two messages, cut by the handler or a failed write,  *)
(* or broken by a message that is not one or breaks off.  With an idle hook  *)
(* the flag is looked at after every answer.                                 *)
Message(p) ==
  /\ proc[p] = "read" /\ ~woken[p]
  /\ GoesTo(p, "busy")
  /\ UNCHANGED stop /\ ControlOnly

serve_conn_answers(p) ==
  /\ proc[p] = "busy"
  /\ ~(idle /\ stop[p])
  /\ GoesTo(p, "read")
  /\ UNCHANGED stop /\ ControlOnly

serve_conn_ends(p) ==
  \/ proc[p] = "read" /\ ~woken[p] /\ conn_ends(p, TRUE)
  \/ proc[p] = "busy" /\ \E ok \in BOOLEAN : conn_ends(p, ok)

(* read() is interrupted and the flag is up, or the poll between two         *)
(* messages sees it at its next timeout.                                     *)
serve_conn_stops(p) ==
  /\ proc[p] = "read" /\ stop[p]
  /\ \/ idle /\ conn_ends(p, TRUE)
     \/ ~idle /\ woken[p] /\ conn_ends(p, FALSE)

(* One byte for the connection; the write blocks while the pipe is full and  *)
(* is given up when a signal interrupts it.                                  *)
report(p) ==
  /\ proc[p] = "report"
  /\ \/ /\ pipe[p] < PipeCap
        /\ pipe' = [pipe EXCEPT ![p] = @ + 1]
        /\ UNCHANGED untold
     \/ /\ pipe[p] = PipeCap /\ woken[p]
        /\ untold' = untold + 1
        /\ UNCHANGED pipe
  /\ GoesTo(p, IF fails[p] >= FailLimit THEN "ended" ELSE "check")
  /\ UNCHANGED <<parentVars, idle, stop, fails, handled, accepted, waiting, forced, held, spent>>

worker_exit(p) ==
  /\ proc[p] = "ended"
  /\ GoesTo(p, "zombie")
  /\ UNCHANGED stop /\ ControlOnly

-----------------------------------------------------------------------------
(* drain and the end of the process: what is left in the pipe is counted     *)
(* before the pipe is closed.                                                *)
drain(p) == handled' = [handled EXCEPT ![p] = @ + pipe[p]]

(* fork gives the place a process with a new, empty pipe, or fails.          *)
spawn(p) ==
  /\ pipe' = [pipe EXCEPT ![p] = 0]
  /\ stop' = [stop EXCEPT ![p] = asked]
  /\ woken' = [woken EXCEPT ![p] = FALSE]
  /\ fails' = [fails EXCEPT ![p] = 0]
  /\ \/ proc' = [proc EXCEPT ![p] = "boot"] /\ UNCHANGED spent
     \/ Spend("forks", MaxForkFails) /\ proc' = [proc EXCEPT ![p] = "none"]

pool_start ==
  /\ parent = "start"
  /\ spawn(at)
  /\ LET failed == proc'[at] = "none"
     IN  /\ parent' = IF failed THEN "signal"
                      ELSE IF Later(at) = {} THEN "supervise" ELSE "start"
         /\ at' = IF failed \/ Later(at) = {} THEN First(Places) ELSE First(Later(at))
  /\ UNCHANGED <<tries, asked, idle, counts, waiting, forced, held>>

(* Faulty: the new pipe takes the place of the old before it is drained.     *)
pool_supervise_spawning_first(p) ==
  /\ parent = "supervise" /\ ~asked
  /\ proc[p] = "zombie"
  /\ spawn(p)
  /\ handled' = [handled EXCEPT ![p] = @ + pipe'[p]]
  /\ UNCHANGED <<parentVars, idle, accepted, untold, waiting, forced, held>>

(* Faulty: the place stays empty.                                            *)
pool_supervise_only_reaping(p) ==
  /\ parent = "supervise" /\ ~asked
  /\ proc[p] = "zombie"
  /\ drain(p)
  /\ pipe' = [pipe EXCEPT ![p] = 0]
  /\ proc' = [proc EXCEPT ![p] = "none"]
  /\ UNCHANGED <<parentVars, idle, stop, woken, fails, accepted, untold, waiting, forced, held, spent>>

(* A dead worker is reaped, its pipe is drained, and its place is filled.    *)
pool_supervise(p) ==
  /\ parent = "supervise" /\ ~asked
  /\ proc[p] = "zombie"
  /\ drain(p)
  /\ spawn(p)
  /\ UNCHANGED <<parentVars, idle, accepted, untold, waiting, forced, held>>

(* Faulty: the request to stop is not looked at.                             *)
pool_supervise_ends_without_children ==
  /\ parent = "supervise"
  /\ \A p \in Places : proc[p] = "none"
  /\ parent' = "signal"
  /\ UNCHANGED <<at, tries, asked, idle, proc, stop, woken, fails, pipe, counts,
                 waiting, forced, held, spent>>

(* The watch ends when a stop was asked for, or no child is left (ECHILD).   *)
pool_supervise_ends ==
  /\ parent = "supervise"
  /\ asked \/ \A p \in Places : proc[p] = "none"
  /\ parent' = "signal"
  /\ UNCHANGED <<at, tries, asked, idle, proc, stop, woken, fails, pipe, counts,
                 waiting, forced, held, spent>>

pool_stop ==
  /\ parent = "signal"
  /\ parent' = "reap"
  /\ \E missed \in SUBSET {p \in Places : proc[p] \in Blocking} :
       Signalled({p \in Places : proc[p] # "none"}, missed)
  /\ UNCHANGED <<at, tries, asked, idle, fails, pipe, counts, waiting, forced, spent>>

(* The place is done with: the parent goes on to the next.                   *)
next_place ==
  /\ tries' = 0
  /\ IF Later(at) = {} THEN parent' = "done" /\ UNCHANGED at
     ELSE at' = First(Later(at)) /\ UNCHANGED parent

(* The worker is gone: what it left in the pipe is counted.                  *)
reaped ==
  /\ proc' = [proc EXCEPT ![at] = "none"]
  /\ drain(at)
  /\ pipe' = [pipe EXCEPT ![at] = 0]
  /\ next_place
  /\ UNCHANGED <<asked, idle, stop, woken, fails, accepted, waiting, held, spent>>

(* Between two signals the parent sleeps a millisecond, which a worker needs *)
(* less of to get to the next call it blocks in and into it.                 *)
Settled(p) ==
  /\ ~woken[p]
  /\ \/ proc[p] \in {"busy", "zombie"}
     \/ proc[p] = "accept" /\ waiting = 0
     \/ proc[p] = "poll" /\ waiting = 0 /\ ~stop[p]
     \/ proc[p] = "read" /\ ~(idle /\ stop[p])
     \/ proc[p] = "report" /\ pipe[p] = PipeCap

reap_worker ==
  /\ parent = "reap"
  /\ \/ proc[at] = "none" /\ next_place
        /\ UNCHANGED <<asked, idle, proc, stop, woken, fails, pipe, counts, waiting, forced, held, spent>>
     \/ /\ proc[at] = "zombie" /\ tries < StopTries
        /\ reaped
        /\ UNCHANGED <<untold, forced>>
     \/ /\ proc[at] \in Live /\ tries < StopTries
        /\ tries = 0 \/ Settled(at)
        /\ tries' = tries + 1
        /\ \E missed \in SUBSET {at} :
             (tries = 0 \/ missed = {}) /\ Signalled({at}, missed)
        /\ UNCHANGED <<parent, at, asked, idle, fails, pipe, counts, waiting, forced, spent>>
     \/ /\ tries = StopTries /\ Settled(at)
        /\ reaped
        /\ forced' = forced \cup {at}
        /\ untold' = untold + (IF proc[at] \in Serving THEN 1 ELSE 0)

-----------------------------------------------------------------------------
(* The world: somebody asks for a stop, clients connect, workers die.        *)
listener_request_stop ==
  /\ parent = "supervise" /\ ~asked
  /\ asked' = TRUE
  /\ UNCHANGED <<parent, at, tries, idle, proc, stop, woken, fails, pipe, counts,
                 waiting, forced, held, spent>>

Connect ==
  /\ Spend("conns", MaxConns)
  /\ waiting' = waiting + 1
  /\ UNCHANGED <<parentVars, idle, proc, stop, woken, fails, pipe, counts, forced, held>>

Crash(p) ==
  /\ proc[p] \in Live
  /\ Spend("kills", MaxKills)
  /\ GoesTo(p, "zombie")
  /\ untold' = untold + (IF proc[p] \in Serving THEN 1 ELSE 0)
  /\ UNCHANGED <<parentVars, idle, stop, fails, pipe, handled, accepted, waiting, forced, held>>

worker_main(p) ==
  \/ listener_reset_stop(p) \/ look_at_stop(p) \/ block(p) \/ wait_readable(p)
  \/ accept_interrupted(p) \/ accept(p) \/ serve_conn_stops(p)
  \/ report(p) \/ worker_exit(p)

Parent ==
  \/ pool_start \/ pool_supervise_ends \/ pool_stop \/ reap_worker
  \/ \E p \in Places : pool_supervise(p)

Client(p) == Message(p) \/ serve_conn_answers(p) \/ serve_conn_ends(p)

Next ==
  \/ Parent
  \/ \E p \in Places : worker_main(p) \/ Client(p) \/ accept_fails(p) \/ Crash(p)
  \/ listener_request_stop \/ Connect

(* Processes that can run do, and a poll comes to its timeout; nothing is    *)
(* assumed of the clients.                                                   *)
Fairness ==
  /\ WF_vars(Parent)
  /\ \A p \in Places : WF_vars(worker_main(p))

Spec == Init /\ [][Next]_vars /\ Fairness

-----------------------------------------------------------------------------
Total(f) == MapThenSumSet(LAMBDA p : f[p], Places)

(* No connection is counted twice and none is forgotten: each one accepted   *)
(* is with a worker, in a pipe, counted by the parent, or its worker was     *)
(* killed or interrupted before it could write its byte -- through crashes,  *)
(* replacements and the stop (worker_pool.c: a pipe is drained before its    *)
(* place is filled).                                                         *)
CountsAddUp ==
  accepted = Total(handled) + Total(pipe) + untold
               + Cardinality({p \in Places : proc[p] \in Serving})

(* When pool_stop returns no child is left, neither running nor a zombie,    *)
(* and only a worker that a signal found in a client's hands was ever killed *)
(* by force: an idle one always gets to see the flag, though signals that    *)
(* come between its look at the flag and its call are lost.                  *)
StopIsClean ==
  /\ parent = "done" => \A p \in Places : proc[p] = "none"
  /\ forced \subseteq held

(* Whoever asks the pool to stop gets it back, whatever clients do.          *)
StopReturns == asked ~> parent = "done"

(* A worker that dies while the pool is watched has its place filled, unless *)
(* the fork for it fails: such a place is never tried again.                 *)
DeadIsReplaced ==
  \A p \in Places :
    (parent = "supervise" /\ proc[p] = "zombie") ~>
      (asked \/ proc[p] = "boot" \/ (proc[p] = "none" /\ spent["forks"] > 0))

(* If every client ends its connection some time, everyone who connects is   *)
(* served while the pool runs, as long as one place has a worker that is not *)
(* blocked for ever on a full pipe (nobody reads the pipe of a live worker), *)
(* and a place is empty only after a fork that failed.                       *)
ClientsEnd == \A p \in Places : SF_vars(serve_conn_ends(p))
NobodyLeft ==
  /\ \A p \in Places : proc[p] = "none" \/ (proc[p] = "report" /\ pipe[p] = PipeCap)
  /\ Cardinality({p \in Places : proc[p] = "none"}) <= spent["forks"]
ConnectionsAreTaken ==
  ClientsEnd => (waiting > 0 ~> (waiting = 0 \/ parent # "supervise" \/ asked \/ NobodyLeft))
=============================================================================
