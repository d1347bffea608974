------------------------------- MODULE Session -------------------------------
(***************************************************************************)
(* A FEP session and its peer across connections that break:               *)
(* fep/src/session.c with the numbering and kept frames of seqtrack.c and  *)
(* the send queue of sendq.c. Every frame has a number; an end that sees a *)
(* gap asks for everything from the first missing number and drops what    *)
(* comes meanwhile; the other end sends what it still keeps again.         *)
(*                                                                         *)
(* `client` is session.c. `venue` stands for its peer, which "runs the     *)
(* same code" (session.c:60): it handles frames the same way and differs   *)
(* where it accepts a connection, answers a LOGIN_REQ and may be started   *)
(* again with no memory. A frame is its number: what was sent under a      *)
(* number never changes, so a frame in a queue or on the line is looked up *)
(* in its sender's `sent`. Time is left out: the timers of session_tick    *)
(* and the back-off become steps that may happen at any moment.            *)
(***************************************************************************)
EXTENDS Integers, Sequences, SequencesExt, FiniteSets

CONSTANTS
  Keep,          \* SEQSTORE_KEEP: frames an end can send again
  QueueCap,      \* frames that fit the send queue (SENDQ_CAP bytes)
  LineCap,       \* frames the kernel takes before it says EAGAIN
  MaxGiven,      \* bound: MaxGiven[e] business messages handed over at e
  MaxBeats,      \* bound: heartbeats
  MaxDrops,      \* bound: connections cut from outside
  MaxConnects,   \* bound: connections made
  MaxRestarts,   \* bound: times the venue is started again
  MaxSent        \* bound: frames an end numbers

ASSUME KeepAssumption == Keep \in Nat \ {0}
ASSUME CapAssumption  == QueueCap \in Nat \ {0} /\ LineCap \in Nat \ {0}

Ends     == {"client", "venue"}
Other(e) == CHOOSE o \in Ends : o # e

Frame(type, arg) == [type |-> type, arg |-> arg]
LoginReq         == Frame("login_req", 0)
LoginAck         == Frame("login_ack", 0)
Beat             == Frame("heartbeat", 0)
ResendReq(from)  == Frame("resend_req", from)
GapFill(next)    == Frame("gap_fill", next)
Data(id)         == Frame("data", id)

VARIABLES
  end,      \* end[e]: the session_t of e, see Fresh
  line,     \* line[e]: numbers of the frames written by e and not yet read
  given,    \* given[e]: business messages session_send took at e
  got,      \* got[e]: the ones handed up at e, in order
  told,     \* told[e]: numbers e was told it will never get
  drops, beats, connects, restarts

bounds == <<drops, beats, connects, restarts>>
vars   == <<end, line, given, got, told, drops, beats, connects, restarts>>

\* session_init: nothing sent, frame 1 expected. `unsaid` is not in the code:
\* numbers a resend was asked for and passed over in silence.
Fresh == [state |-> "down", sent |-> << >>, tx |-> << >>,
          expected |-> 1, recovering |-> FALSE, unsaid |-> {}, rc |-> "ok"]

-----------------------------------------------------------------------------
(* Sending.                                                                *)

\* Faulty: the queue takes one frame more than it holds.
enqueue_one_more(s, frame) ==
  IF Len(s.tx) > QueueCap
  THEN [s EXCEPT !.rc = "pool_exhausted"]
  ELSE [s EXCEPT !.sent = Append(@, frame), !.tx = Append(@, Len(s.sent) + 1)]

\* All or nothing: a frame the queue refuses gets no number.
enqueue(s, frame) ==
  IF Len(s.tx) >= QueueCap
  THEN [s EXCEPT !.rc = "pool_exhausted"]
  ELSE [s EXCEPT !.sent = Append(@, frame), !.tx = Append(@, Len(s.sent) + 1)]

\* The oldest number still kept (some frame has been sent by then).
seqstore_oldest(s) == IF Len(s.sent) > Keep THEN Len(s.sent) - Keep + 1 ELSE 1

\* Frames from number n on, queued again under their own numbers. If they do
\* not fit, the connection is dropped and what did fit goes with it.
requeue(s, n) ==
  LET again == [k \in 1 .. Len(s.sent) - n + 1 |-> n + k - 1]
  IN  IF Len(s.tx) + Len(again) > QueueCap
      THEN [s EXCEPT !.rc = "pool_exhausted"] ELSE [s EXCEPT !.tx = @ \o again]

\* If the start is gone, first say where it goes on; then everything kept from
\* there, in order. A number that is not kept by then is passed over.
resend_from(s, from) ==
  LET oldest == seqstore_oldest(s)
      opened == IF from < oldest THEN enqueue(s, GapFill(oldest)) ELSE s
      first  == IF from < oldest THEN oldest ELSE from
      kept   == IF first < seqstore_oldest(opened) THEN seqstore_oldest(opened) ELSE first
  IN  IF opened.rc # "ok" THEN opened
      ELSE requeue([opened EXCEPT !.unsaid = @ \cup first .. kept - 1], kept)

-----------------------------------------------------------------------------
(* Receiving.                                                              *)

\* Faulty: a frame seen before is taken for the one expected.
seqtrack_on_again(s, n) ==
  IF n <= s.expected    THEN "ok"
  ELSE IF s.recovering  THEN "wait"
  ELSE "gap"

seqtrack_on(s, n) ==
  IF n = s.expected       THEN "ok"
  ELSE IF n < s.expected  THEN "dup"
  ELSE IF s.recovering    THEN "wait"
  ELSE "gap"

\* Faulty: what comes behind a gap counts as received.
Track_past_gap(s, n) ==
  IF n >= s.expected THEN [s EXCEPT !.expected = n + 1, !.recovering = FALSE] ELSE s

Track(s, n) ==
  CASE seqtrack_on(s, n) = "ok"  -> [s EXCEPT !.expected = @ + 1, !.recovering = FALSE]
    [] seqtrack_on(s, n) = "gap" -> [s EXCEPT !.recovering = TRUE]
    [] OTHER                     -> s

seqtrack_skip_to(s, next) ==
  IF next <= s.expected THEN s
  ELSE [s EXCEPT !.expected = next, !.recovering = FALSE]

seqtrack_restart_at(s, next) ==
  IF next >= s.expected THEN s
  ELSE [s EXCEPT !.expected = next, !.recovering = FALSE]

\* LOGIN_REQ is answered with LOGIN_ACK (exchanged.c:277-287).  Here the one who
\* answers is a session like this one (session.c:60), which numbers its answer
\* and, ready already, has nothing to do; exchanged.c echoes the request's
\* number and answers every request.
answer_login(s) ==
  IF s.state # "logging_in" THEN s
  ELSE [enqueue(s, LoginAck) EXCEPT !.state = "ready"]

\* Every frame is counted, and a gap asked to be filled, before it is looked at.
count_frame(s, n) ==
  IF seqtrack_on(s, n) = "gap" THEN enqueue(Track(s, n), ResendReq(s.expected))
                               ELSE Track(s, n)

\* What a counted frame does; only business frames depend on the verdict.
handle_frame(s, n, frame) ==
  IF s.rc # "ok" THEN s ELSE
  CASE frame.type = "heartbeat"   -> s
    [] frame.type = "login_req"   -> answer_login(s)
    [] frame.type = "login_ack"   ->
         IF s.state # "logging_in" THEN s
         ELSE [seqtrack_restart_at(s, n + 1) EXCEPT !.state = "ready"]
    [] frame.type = "resend_req"  -> resend_from(s, frame.arg)
    [] frame.type = "gap_fill"    -> seqtrack_skip_to(s, frame.arg)
    [] frame.type = "data"        ->
         IF s.state # "ready" THEN [s EXCEPT !.rc = "not_logged_in"] ELSE s

\* The numbers this frame tells its receiver not to wait for.
Excused(s, n, frame) ==
  IF frame.type = "gap_fill" THEN Track(s, n).expected .. frame.arg - 1 ELSE {}

\* Faulty: a recovery begun on this connection outlives it.
session_drop_recovering(s) ==
  [s EXCEPT !.state = "down", !.tx = << >>, !.rc = "ok"]

\* The queue and the recovery die with the connection; the number expected and
\* the frames kept do not.
session_drop(s) ==
  [s EXCEPT !.state = "down", !.tx = << >>, !.recovering = FALSE, !.rc = "ok"]

-----------------------------------------------------------------------------
Up(e) == end[e].state # "down"

\* session_send: refused unless logged in, or when the queue is full (no step).
Give(e) ==
  /\ end[e].state = "ready" /\ given[e] < MaxGiven[e]
  /\ Len(end[e].tx) < QueueCap
  /\ given' = [given EXCEPT ![e] = @ + 1]
  /\ end' = [end EXCEPT ![e] = enqueue(@, Data(given[e] + 1))]
  /\ UNCHANGED <<line, got, told, bounds>>

\* session_tick after a quiet while; a queue that is full even for this is cut.
Heartbeat(e) ==
  /\ end[e].state = "ready" /\ beats < MaxBeats
  /\ LET s == enqueue(end[e], Beat)
     IN  end' = [end EXCEPT ![e] = IF s.rc = "ok" THEN s ELSE session_drop(s)]
  /\ beats' = beats + 1
  /\ UNCHANGED <<line, given, got, told, drops, connects, restarts>>

\* session_on_writable, a frame at a time; what is written to an end that has
\* gone reaches nobody and is left in the queue.
Write(e) ==
  /\ Up(e) /\ Up(Other(e)) /\ end[e].tx # << >> /\ Len(line[e]) < LineCap
  /\ line' = [line EXCEPT ![e] = Append(@, Head(end[e].tx))]
  /\ end' = [end EXCEPT ![e].tx = Tail(@)]
  /\ UNCHANGED <<given, got, told, bounds>>

\* session_on_readable, a frame at a time; an error drops the connection.
Read(e) ==
  LET o == Other(e)
      n == Head(line[o])
      f == end[o].sent[n]
  IN  /\ Up(e) /\ line[o] # << >>
      /\ Len(end[e].sent) < MaxSent
      /\ \E counted \in {count_frame(end[e], n)} :
         \E s \in {handle_frame(counted, n, f)} :
         IF s.rc = "ok"
         THEN /\ end' = [end EXCEPT ![e] = s]
              /\ line' = [line EXCEPT ![o] = Tail(@)]
              /\ got' = IF f.type = "data" /\ seqtrack_on(end[e], n) = "ok"
                        THEN [got EXCEPT ![e] = Append(@, f.arg)] ELSE got
              /\ told' = [told EXCEPT ![e] = @ \cup Excused(end[e], n, f)]
         ELSE /\ end' = [end EXCEPT ![e] = session_drop(s)]
              /\ line' = [line EXCEPT ![o] = << >>]
              /\ UNCHANGED <<got, told>>
      /\ UNCHANGED <<given, bounds>>

\* The connection is cut as e sees it: an error, silence for too long, a login
\* nobody answers. What e had not written or not read is gone.
Cut(e) ==
  /\ Up(e) /\ drops < MaxDrops
  /\ end' = [end EXCEPT ![e] = session_drop(@)]
  /\ line' = [line EXCEPT ![Other(e)] = << >>]
  /\ drops' = drops + 1
  /\ UNCHANGED <<given, got, told, beats, connects, restarts>>

\* The other end has gone: what it wrote is read first, then comes the end.
EndOfFile(e) ==
  /\ Up(e) /\ ~Up(Other(e)) /\ line[Other(e)] = << >>
  /\ end' = [end EXCEPT ![e] = session_drop(@)]
  /\ UNCHANGED <<line, given, got, told, bounds>>

\* session_on_connected; the venue accepts and waits for the LOGIN_REQ.
Connect ==
  /\ \A e \in Ends : ~Up(e)
  /\ connects < MaxConnects
  /\ connects' = connects + 1
  /\ end' = [e \in Ends |->
               LET s == [end[e] EXCEPT !.state = "logging_in"]
               IN  IF e = "client" THEN enqueue(s, LoginReq) ELSE s]
  /\ line' = [e \in Ends |-> << >>]
  /\ UNCHANGED <<given, got, told, drops, beats, restarts>>

\* The venue is started again and remembers nothing.
Restart ==
  /\ \A e \in Ends : ~Up(e)
  /\ restarts < MaxRestarts
  /\ restarts' = restarts + 1
  /\ end' = [end EXCEPT !["venue"] = Fresh]
  /\ line' = [e \in Ends |-> << >>]
  /\ got' = [got EXCEPT !["venue"] = << >>]
  /\ told' = [e \in Ends |-> {}]
  /\ UNCHANGED <<given, drops, beats, connects>>

Init ==
  /\ end = [e \in Ends |-> Fresh]
  /\ line = [e \in Ends |-> << >>]
  /\ given = [e \in Ends |-> 0] /\ got = [e \in Ends |-> << >>]
  /\ told = [e \in Ends |-> {}]
  /\ drops = 0 /\ beats = 0 /\ connects = 0 /\ restarts = 0

Next ==
  \/ \E e \in Ends : \/ Give(e) \/ Heartbeat(e) \/ Write(e) \/ Read(e)
                     \/ Cut(e) \/ EndOfFile(e)
  \/ Connect \/ Restart

\* The event loop writes when the socket takes data and reads when it has some.
Fairness == \A e \in Ends : WF_vars(Write(e)) /\ WF_vars(Read(e))

Spec     == Init /\ [][Next]_vars
FairSpec == Spec /\ Fairness

-----------------------------------------------------------------------------
FrameTypes == {"login_req", "login_ack", "heartbeat", "resend_req", "gap_fill", "data"}

TypeOK ==
  /\ \A e \in Ends :
       /\ end[e].state \in {"down", "logging_in", "ready"}
       /\ \A n \in DOMAIN end[e].sent : end[e].sent[n].type \in FrameTypes
       /\ Len(end[e].tx) <= QueueCap /\ Len(line[e]) <= LineCap
       /\ ToSet(end[e].tx) \cup ToSet(line[e]) \subseteq DOMAIN end[e].sent
       /\ end[e].expected \in Nat \ {0} /\ end[e].recovering \in BOOLEAN
       /\ end[e].unsaid \subseteq DOMAIN end[e].sent /\ end[e].rc = "ok"
       /\ told[e] \subseteq Nat
  /\ given \in [Ends -> Nat]
  /\ got \in [Ends -> Seq(Nat)]
  /\ <<drops, beats, connects, restarts>> \in Nat \X Nat \X Nat \X Nat

Promise == INSTANCE OrderedDelivery

\* However often the connection breaks and frames are sent again, messages are
\* handed up in the order they were handed over and never twice.
InOrderOnce == Promise!Spec

\* An end that is logged in and has moved on past a business message of its
\* peer has handed it up or was told that it is gone (seqtrack.h: nothing is
\* left out silently).
NothingLost ==
  \A e \in Ends : \A n \in DOMAIN end[Other(e)].sent :
    LET f == end[Other(e)].sent[n]
    IN  f.type = "data" /\ end[e].state = "ready" /\ n < end[e].expected =>
          n \in told[e] \/ f.arg \in ToSet(got[e])

\* Until the peer is started again nothing is lost, and what a GAP_FILL gives
\* up is only what its sender can no longer send.
NoFrameMissed ==
  /\ restarts = 0 => NothingLost
  /\ \A e \in Ends : \A n \in told[e] : n < seqstore_oldest(end[Other(e)])

\* A RESEND_REQ is answered in full: every number from the one asked for is
\* sent again or covered by the GAP_FILL in front (session.c:181-187).
NoneLeftOut == \A e \in Ends : end[e].unsaid = {}

BothReady == \A e \in Ends : end[e].state = "ready"
Level     == \A e \in Ends : end[e].expected = Len(end[Other(e)].sent) + 1

\* On a connection that stays up both ends catch up with all the other has
\* sent, unless an answer to a RESEND_REQ left something out.
CaughtUp == (<>[]BothReady /\ []NoneLeftOut) => <>[]Level
=============================================================================
