---------------------------- MODULE SessionProofs ----------------------------
(***************************************************************************)
(* For every bound of the session: both ends stay well formed, no message  *)
(* is passed over in silence, and each end hands its owner the other's     *)
(* messages in the order they were given and once (OrderedDelivery).       *)
(* What a receiver may be handed next is a fact about what the other end   *)
(* has ever sent, whatever is lost on the way: every message numbered from *)
(* the expected one on is newer than the last handed up (Ordered), since   *)
(* numbers and messages grow together (Sent). A gap fill names a number    *)
(* that has left the store for good (Gone), so the numbers before the one  *)
(* expected were handed up or told of (Complete). The login breaks this    *)
(* pattern, because the client takes the number of the answer as the one   *)
(* to go on from: nothing is under way before the login is read            *)
(* (VenueLogin), and the answer is ahead of every message (ClientLogin).   *)
(***************************************************************************)
EXTENDS Session, SequenceTheorems, TLAPS

Frames == [type : FrameTypes, arg : Nat]
States == {"down", "logging_in", "ready"}
Codes  == {"ok", "pool_exhausted", "not_logged_in"}

\* A session_t.
Sessions == [state : States, sent : Seq(Frames), tx : Seq(Nat), expected : Nat \ {0},
             recovering : BOOLEAN, unsaid : SUBSET Nat, rc : Codes]

Types ==
  /\ end \in [Ends -> Sessions]
  /\ line \in [Ends -> Seq(Nat)]
  /\ given \in [Ends -> Nat] /\ got \in [Ends -> Seq(Nat)]
  /\ told \in [Ends -> SUBSET Nat]
  /\ drops \in Nat /\ beats \in Nat /\ connects \in Nat /\ restarts \in Nat

Numbers(s) ==
  /\ s.unsaid \subseteq 1..Len(s.sent)
  /\ Len(s.tx) <= QueueCap
  /\ \A i \in 1..Len(s.tx) : s.tx[i] \in 1..Len(s.sent)

Queues(e) ==
  /\ Numbers(end[e]) /\ end[e].rc = "ok"
  /\ Len(line[e]) <= LineCap
  /\ \A i \in 1..Len(line[e]) : line[e][i] \in 1..Len(end[e].sent)
  /\ end[e].state = "down" => end[e].tx = <<>>

\* What an end may have sent; `most' messages were handed to it.
Sent(e, s, most) ==
  /\ \A n \in 1..Len(s.sent) :
       /\ s.sent[n].type = "resend_req" => s.sent[n].arg >= 1
       /\ s.sent[n].type = "gap_fill" => s.sent[n].arg <= seqstore_oldest(s)
       /\ s.sent[n].type = "data" => s.sent[n].arg \in 1..most
       /\ s.sent[n].type # (IF e = "client" THEN "login_ack" ELSE "login_req")
  /\ \A m, n \in 1..Len(s.sent) :
       m < n /\ s.sent[m].type = "data" /\ s.sent[n].type = "data" => s.sent[m].arg < s.sent[n].arg

Latest(seq) == IF seq = <<>> THEN 0 ELSE seq[Len(seq)]

After(sent, from, least) ==
  \A n \in 1..Len(sent) : n >= from /\ sent[n].type = "data" => sent[n].arg > least

Ordered(e) ==
  /\ Latest(got[e]) <= given[Other(e)]
  /\ After(end[Other(e)].sent, end[e].expected, Latest(got[e]))

Gone(e) == \A n \in told[e] : n < seqstore_oldest(end[Other(e)])

\* What is under way from e, oldest first.
Stream(e) == line[e] \o end[e].tx

HasAck(sent, q) == \E i \in 1..Len(q) : sent[q[i]].type = "login_ack"

\* A receiver that waits for the login to be answered meets no message before
\* the answer, and has handed up no message numbered after the answer.
LoginSafe(sent, q, least) ==
  \A i \in 1..Len(q) : (\A j \in 1..i - 1 : sent[q[j]].type # "login_ack") =>
    /\ sent[q[i]].type # "data"
    /\ sent[q[i]].type = "login_ack" => After(sent, q[i] + 1, least)

VenueLogin ==
  end["venue"].state = "logging_in" =>
    /\ Stream("venue") = <<>>
    /\ Stream("client") = <<>> => end["client"].state = "down"
    /\ Stream("client") # <<>> => end["client"].sent[Stream("client")[1]].type = "login_req"

ClientLogin ==
  end["client"].state = "logging_in" =>
    /\ end["venue"].state = "ready" => HasAck(end["venue"].sent, Stream("venue"))
    /\ LoginSafe(end["venue"].sent, Stream("venue"), Latest(got["client"]))

\* Every message up to the number expected was handed up or given up.
Passed(sent, expected, gone, up) ==
  /\ expected <= Len(sent) + 1
  /\ \A n \in 1..Len(sent) :
       sent[n].type = "data" /\ n < expected => n \in gone \/ sent[n].arg \in ToSet(up)

Complete(e) ==
  restarts = 0 => Passed(end[Other(e)].sent, end[e].expected, told[e], got[e])

IInv ==
  /\ Types
  /\ \A e \in Ends : Queues(e) /\ Sent(e, end[e], given[e]) /\ Ordered(e) /\ Gone(e) /\ Complete(e)
  /\ VenueLogin /\ ClientLogin

-----------------------------------------------------------------------------
LEMMA EndsAre ==
  /\ Ends = {"client", "venue"} /\ Other("client") = "venue" /\ Other("venue") = "client"
  /\ \A e \in Ends : Other(e) \in Ends /\ Other(e) # e /\ Other(Other(e)) = e
<1>1. Other("client") = "venue" /\ Other("venue") = "client"
  BY DEF Ends, Other
<1> QED
  BY <1>1 DEF Ends

LEMMA SessionType ==
  ASSUME NEW s \in Sessions
  PROVE  /\ s.sent \in Seq(Frames) /\ s.tx \in Seq(Nat) /\ s.unsaid \subseteq Nat
         /\ Len(s.sent) \in Nat /\ Len(s.tx) \in Nat
         /\ s.expected \in Nat \ {0} /\ s.recovering \in BOOLEAN
         /\ s.state \in States /\ s.rc \in Codes
         /\ \A n \in 1..Len(s.sent) : s.sent[n] \in Frames /\ s.sent[n].arg \in Nat
         /\ \A i \in 1..Len(s.tx) : s.tx[i] \in Nat
<1>1. /\ s.sent \in Seq(Frames) /\ s.tx \in Seq(Nat) /\ s.unsaid \subseteq Nat
      /\ s.expected \in Nat \ {0} /\ s.recovering \in BOOLEAN
      /\ s.state \in States /\ s.rc \in Codes
  BY DEF Sessions
<1>2. \A f \in Frames : f.arg \in Nat
  BY DEF Frames
<1> QED
  BY <1>1, <1>2

LEMMA OldestType ==
  ASSUME NEW s \in Sessions
  PROVE  /\ seqstore_oldest(s) \in Nat \ {0}
         /\ Len(s.sent) > 0 => seqstore_oldest(s) <= Len(s.sent)
  BY KeepAssumption DEF Sessions, seqstore_oldest

\* r has sent what s had, and then frames that are no messages.
Grows(s, r) ==
  /\ Len(r.sent) >= Len(s.sent)
  /\ \A i \in 1..Len(s.sent) : r.sent[i] = s.sent[i]

\* What enqueue makes of a session.
Enqueued(s, f, r) ==
  /\ r \in Sessions /\ Numbers(r) /\ Grows(s, r)
  /\ r.state = s.state /\ r.expected = s.expected /\ r.recovering = s.recovering
  /\ r.unsaid = s.unsaid
  /\ \/ Len(s.tx) >= QueueCap /\ r.rc = "pool_exhausted" /\ r.sent = s.sent /\ r.tx = s.tx
     \/ /\ Len(s.tx) < QueueCap /\ r.rc = s.rc
        /\ r.sent = Append(s.sent, f) /\ Len(r.sent) = Len(s.sent) + 1
        /\ r.sent[Len(s.sent) + 1] = f
        /\ r.tx = Append(s.tx, Len(s.sent) + 1) /\ Len(r.tx) = Len(s.tx) + 1
        /\ r.tx[Len(s.tx) + 1] = Len(s.sent) + 1
        /\ \A i \in 1..Len(s.tx) : r.tx[i] = s.tx[i]

LEMMA EnqueueFacts ==
  ASSUME NEW s \in Sessions, NEW f \in Frames, Numbers(s)
  PROVE  Enqueued(s, f, enqueue(s, f))
<1> DEFINE r == enqueue(s, f)
<1>1. s.sent \in Seq(Frames) /\ s.tx \in Seq(Nat) /\ s.unsaid \subseteq Nat
      /\ Len(s.sent) \in Nat /\ Len(s.tx) \in Nat /\ QueueCap \in Nat
  BY CapAssumption DEF Sessions
<1>2. CASE Len(s.tx) >= QueueCap
  <2>1. r = [s EXCEPT !.rc = "pool_exhausted"]
    BY <1>2 DEF enqueue
  <2>2. r \in Sessions /\ r.rc = "pool_exhausted" /\ r.sent = s.sent /\ r.tx = s.tx
        /\ r.state = s.state /\ r.expected = s.expected /\ r.recovering = s.recovering
        /\ r.unsaid = s.unsaid
    BY <2>1 DEF Sessions, Codes
  <2> QED
    BY <1>1, <1>2, <2>2 DEF Numbers, Grows, Enqueued
<1>3. CASE ~(Len(s.tx) >= QueueCap)
  <2>1. r = [s EXCEPT !.sent = Append(@, f), !.tx = Append(@, Len(s.sent) + 1)]
    BY <1>3 DEF enqueue
  <2>2. r \in Sessions
    <3>1. Append(s.sent, f) \in Seq(Frames) /\ Append(s.tx, Len(s.sent) + 1) \in Seq(Nat)
      BY <1>1
    <3> DEFINE a == Append(s.sent, f)
               b == Append(s.tx, Len(s.sent) + 1)
    <3>2. r = [s EXCEPT !.sent = a, !.tx = b] /\ a \in Seq(Frames) /\ b \in Seq(Nat)
      BY <2>1, <3>1
    <3> HIDE DEF a, b
    <3> QED
      BY <3>2 DEF Sessions
  <2>3. r.sent = Append(s.sent, f) /\ r.tx = Append(s.tx, Len(s.sent) + 1)
        /\ r.state = s.state /\ r.expected = s.expected /\ r.recovering = s.recovering
        /\ r.unsaid = s.unsaid /\ r.rc = s.rc
    BY <2>1 DEF Sessions
  <2> HIDE DEF r
  <2>4. /\ Len(r.sent) = Len(s.sent) + 1 /\ r.sent[Len(s.sent) + 1] = f
        /\ \A i \in 1..Len(s.sent) : r.sent[i] = s.sent[i]
    BY <1>1, <2>3
  <2>5. /\ Len(r.tx) = Len(s.tx) + 1 /\ r.tx[Len(s.tx) + 1] = Len(s.sent) + 1
        /\ \A i \in 1..Len(s.tx) : r.tx[i] = s.tx[i]
    BY <1>1, <2>3
  <2>6. Numbers(r)
    <3>1. ASSUME NEW i \in 1..Len(r.tx)
          PROVE  r.tx[i] \in 1..Len(r.sent)
      <4>1. i \in 1..Len(s.tx) \/ i = Len(s.tx) + 1
        BY <1>1, <2>5
      <4>2. CASE i \in 1..Len(s.tx)
        <5>1. r.tx[i] = s.tx[i] /\ s.tx[i] \in 1..Len(s.sent)
          BY <2>5, <4>2 DEF Numbers
        <5> QED
          BY <1>1, <2>4, <5>1
      <4>3. CASE i = Len(s.tx) + 1
        BY <1>1, <2>4, <2>5, <4>3
      <4> QED
        BY <4>1, <4>2, <4>3
    <3> QED
      BY <1>1, <1>3, <2>3, <2>4, <2>5, <3>1 DEF Numbers
  <2>7. Grows(s, r) /\ Len(s.tx) < QueueCap
    BY <1>1, <1>3, <2>4 DEF Grows
  <2> QED
    <3>1. Enqueued(s, f, r)
      BY <2>2, <2>3, <2>4, <2>5, <2>6, <2>7 DEF Enqueued
    <3> QED
      BY <3>1 DEF r
<1> QED
  BY <1>2, <1>3

LEMMA OldestGrows ==
  ASSUME NEW s \in Sessions, NEW r \in Sessions, Grows(s, r)
  PROVE  seqstore_oldest(s) <= seqstore_oldest(r)
BY KeepAssumption DEF Sessions, seqstore_oldest, Grows

\* r is s with more frames sent, each of one of the types, and perhaps more
\* numbers queued.
Extends(s, r, types) ==
  /\ r \in Sessions /\ Numbers(r) /\ Grows(s, r)
  /\ Len(r.tx) >= Len(s.tx)
  /\ \A i \in 1..Len(s.tx) : r.tx[i] = s.tx[i]
  /\ \A n \in Len(s.sent) + 1..Len(r.sent) :
       /\ r.sent[n].type \in types
       /\ r.sent[n].type = "resend_req" => r.sent[n].arg >= 1
       /\ r.sent[n].type = "gap_fill" => r.sent[n].arg <= seqstore_oldest(r)

LEMMA ExtendsNothing ==
  ASSUME NEW s \in Sessions, Numbers(s), NEW types, NEW r \in Sessions,
         r.sent = s.sent, r.tx = s.tx, r.unsaid = s.unsaid
  PROVE  Extends(s, r, types)
<1>1. Len(s.sent) \in Nat /\ Len(s.tx) \in Nat
  BY DEF Sessions
<1> QED
  BY <1>1 DEF Extends, Numbers, Grows

LEMMA ExtendsTwice ==
  ASSUME NEW s \in Sessions, NEW a, NEW r, NEW types,
         Extends(s, a, types), Extends(a, r, types)
  PROVE  Extends(s, r, types)
<1>1. a \in Sessions /\ r \in Sessions
  BY DEF Extends
<1>2. /\ Len(s.sent) \in Nat /\ Len(a.sent) \in Nat /\ Len(r.sent) \in Nat
      /\ Len(s.tx) \in Nat /\ Len(a.tx) \in Nat /\ Len(r.tx) \in Nat
      /\ seqstore_oldest(a) \in Nat /\ seqstore_oldest(r) \in Nat
      /\ seqstore_oldest(a) <= seqstore_oldest(r)
  <2>1. Grows(a, r)
    BY DEF Extends
  <2> QED
    BY <1>1, <2>1, OldestType, OldestGrows, SessionType
<1>3. Grows(s, r) /\ Numbers(r)
  BY <1>2 DEF Extends, Grows
<1>4. Len(r.tx) >= Len(s.tx) /\ \A i \in 1..Len(s.tx) : r.tx[i] = s.tx[i]
  BY <1>2 DEF Extends
<1>5. ASSUME NEW n \in Len(s.sent) + 1..Len(r.sent)
      PROVE  /\ r.sent[n].type \in types
             /\ r.sent[n].type = "resend_req" => r.sent[n].arg >= 1
             /\ r.sent[n].type = "gap_fill" => r.sent[n].arg <= seqstore_oldest(r)
  <2>1. CASE n <= Len(a.sent)
    <3>1. n \in Len(s.sent) + 1..Len(a.sent) /\ n \in 1..Len(a.sent)
      BY <2>1, <1>2
    <3>2. a.sent[n] = r.sent[n] /\ a.sent[n] \in Frames
      BY <3>1, <1>1 DEF Extends, Grows, Sessions
    <3>3. /\ a.sent[n].type \in types
          /\ a.sent[n].type = "resend_req" => a.sent[n].arg >= 1
          /\ a.sent[n].type = "gap_fill" => a.sent[n].arg <= seqstore_oldest(a)
      BY <3>1 DEF Extends
    <3>4. a.sent[n].arg \in Nat
      BY <3>2 DEF Frames
    <3> QED
      BY <3>2, <3>3, <3>4, <1>2
  <2>2. CASE n > Len(a.sent)
    <3>1. n \in Len(a.sent) + 1..Len(r.sent)
      BY <2>2, <1>2
    <3> QED
      BY <3>1 DEF Extends
  <2> QED
    BY <2>1, <2>2, <1>2
<1> QED
  BY <1>1, <1>3, <1>4, <1>5 DEF Extends

LEMMA EnqueueExtends ==
  ASSUME NEW s \in Sessions, Numbers(s), NEW types, NEW f \in Frames, f.type \in types,
         f.type = "resend_req" => f.arg >= 1,
         f.type = "gap_fill" => f.arg <= seqstore_oldest(s)
  PROVE  Extends(s, enqueue(s, f), types)
<1> DEFINE r == enqueue(s, f)
<1>1. /\ r \in Sessions /\ Numbers(r) /\ Grows(s, r)
      /\ \/ r.sent = s.sent /\ r.tx = s.tx
         \/ /\ Len(r.sent) = Len(s.sent) + 1 /\ r.sent[Len(s.sent) + 1] = f
            /\ Len(r.tx) = Len(s.tx) + 1
            /\ \A i \in 1..Len(s.tx) : r.tx[i] = s.tx[i]
  BY EnqueueFacts DEF Enqueued
<1>2. /\ Len(s.sent) \in Nat /\ Len(s.tx) \in Nat
      /\ seqstore_oldest(s) \in Nat /\ seqstore_oldest(r) \in Nat
      /\ seqstore_oldest(s) <= seqstore_oldest(r) /\ f.arg \in Nat
  <2> HIDE DEF r
  <2>1. f.arg \in Nat
    BY DEF Frames
  <2> QED
    BY <1>1, <2>1, OldestType, OldestGrows, SessionType
<1> HIDE DEF r
<1>3. ASSUME NEW n \in Len(s.sent) + 1..Len(r.sent)
      PROVE  r.sent[n] = f
  BY <1>1, <1>2
<1>4. Len(r.tx) >= Len(s.tx) /\ \A i \in 1..Len(s.tx) : r.tx[i] = s.tx[i]
  BY <1>1, <1>2
<1>5. Extends(s, r, types)
  BY <1>1, <1>2, <1>3, <1>4 DEF Extends
<1> QED
  BY <1>5 DEF r

LEMMA RequeueFacts ==
  ASSUME NEW s \in Sessions, Numbers(s), NEW n \in Nat \ {0}, NEW types
  PROVE  /\ Extends(s, requeue(s, n), types)
         /\ requeue(s, n).state = s.state /\ requeue(s, n).expected = s.expected
         /\ requeue(s, n).sent = s.sent
<1> DEFINE m == IF n <= Len(s.sent) + 1 THEN Len(s.sent) - n + 1 ELSE 0
           again == [k \in 1..m |-> n + k - 1]
           r == requeue(s, n)
<1>1. /\ s.sent \in Seq(Frames) /\ s.tx \in Seq(Nat) /\ s.unsaid \subseteq Nat
      /\ Len(s.sent) \in Nat /\ Len(s.tx) \in Nat /\ m \in Nat /\ QueueCap \in Nat
  BY CapAssumption DEF Sessions
<1>2. 1..m = 1..Len(s.sent) - n + 1
  BY <1>1
<1>3. /\ again \in Seq(Nat) /\ Len(again) = m
      /\ \A k \in 1..m : again[k] \in 1..Len(s.sent)
  BY <1>1
<1>4. r = IF Len(s.tx) + Len(again) > QueueCap
          THEN [s EXCEPT !.rc = "pool_exhausted"] ELSE [s EXCEPT !.tx = s.tx \o again]
  BY <1>2 DEF requeue
<1> HIDE DEF r, again, m
<1>5. CASE Len(s.tx) + Len(again) > QueueCap
  <2>1. /\ r \in Sessions /\ r.sent = s.sent /\ r.tx = s.tx /\ r.state = s.state
        /\ r.expected = s.expected /\ r.unsaid = s.unsaid
    BY <1>4, <1>5 DEF Sessions, Codes
  <2> QED
    BY <2>1, ExtendsNothing DEF r
<1>6. CASE ~(Len(s.tx) + Len(again) > QueueCap)
  <2> DEFINE q == s.tx \o again
  <2>1. /\ q \in Seq(Nat) /\ Len(q) = Len(s.tx) + m
        /\ \A i \in 1..Len(q) : q[i] = IF i <= Len(s.tx) THEN s.tx[i] ELSE again[i - Len(s.tx)]
    <3>1. /\ q \in Seq(Nat) /\ Len(q) = Len(s.tx) + Len(again)
          /\ \A i \in 1..Len(s.tx) + Len(again) :
                q[i] = IF i <= Len(s.tx) THEN s.tx[i] ELSE again[i - Len(s.tx)]
      BY <1>1, <1>3, ConcatProperties
    <3> QED
      BY <1>3, <3>1
  <2> HIDE DEF q
  <2>2. /\ r \in Sessions /\ r.sent = s.sent /\ r.tx = q /\ r.state = s.state
        /\ r.expected = s.expected /\ r.unsaid = s.unsaid
    BY <1>4, <1>6, <2>1 DEF Sessions, q
  <2>3. Len(q) <= QueueCap
    BY <1>1, <1>3, <1>6, <2>1
  <2>4. ASSUME NEW i \in 1..Len(q)
        PROVE  q[i] \in 1..Len(s.sent)
    <3>1. i <= Len(s.tx) => i \in 1..Len(s.tx)
      BY <1>1, <2>1
    <3>2. ~(i <= Len(s.tx)) => i - Len(s.tx) \in 1..m
      BY <1>1, <2>1
    <3>3. \A k \in 1..Len(s.tx) : s.tx[k] \in 1..Len(s.sent)
      BY DEF Numbers
    <3> QED
      BY <1>3, <2>1, <3>1, <3>2, <3>3
  <2>5. Numbers(r)
    BY <2>2, <2>3, <2>4 DEF Numbers
  <2>6. Grows(s, r)
    BY <1>1, <2>2 DEF Grows
  <2>7. Len(r.tx) >= Len(s.tx) /\ \A i \in 1..Len(s.tx) : r.tx[i] = s.tx[i]
    <3>1. r.tx = q /\ \A i \in 1..Len(s.tx) : i \in 1..Len(q) /\ i <= Len(s.tx)
      BY <1>1, <2>1, <2>2
    <3>2. Len(r.tx) >= Len(s.tx)
      BY <1>1, <2>1, <3>1
    <3>3. \A i \in 1..Len(s.tx) : q[i] = s.tx[i]
      BY <2>1, <3>1
    <3> QED
      BY <3>1, <3>2, <3>3
  <2>8. Extends(s, r, types)
    BY <1>1, <2>2, <2>5, <2>6, <2>7 DEF Extends
  <2> QED
    BY <2>2, <2>8 DEF r
<1> QED
  BY <1>5, <1>6

LEMMA ResendFacts ==
  ASSUME NEW s \in Sessions, Numbers(s), NEW from \in Nat \ {0}, NEW types, "gap_fill" \in types
  PROVE  /\ Extends(s, resend_from(s, from), types)
         /\ resend_from(s, from).state = s.state /\ resend_from(s, from).expected = s.expected
<1> DEFINE oldest == seqstore_oldest(s)
           opened == IF from < oldest THEN enqueue(s, GapFill(oldest)) ELSE s
           first  == IF from < oldest THEN oldest ELSE from
           kept   == IF first < seqstore_oldest(opened) THEN seqstore_oldest(opened) ELSE first
           noted  == [opened EXCEPT !.unsaid = @ \cup first .. kept - 1]
           r      == resend_from(s, from)
<1>1. oldest \in Nat \ {0}
  BY OldestType
<1>2. GapFill(oldest) \in Frames /\ GapFill(oldest).type = "gap_fill" /\ GapFill(oldest).arg = oldest
  BY <1>1 DEF GapFill, Frame, Frames, FrameTypes
<1>3. /\ Extends(s, opened, types) /\ opened.state = s.state /\ opened.expected = s.expected
  <2> HIDE DEF oldest
  <2>1. CASE from < oldest
    <3>1. Extends(s, enqueue(s, GapFill(oldest)), types)
      BY <1>1, <1>2, EnqueueExtends DEF oldest
    <3>2. /\ enqueue(s, GapFill(oldest)).state = s.state
          /\ enqueue(s, GapFill(oldest)).expected = s.expected
      BY <1>2, EnqueueFacts DEF Enqueued
    <3> QED
      BY <2>1, <3>1, <3>2
  <2>2. CASE ~(from < oldest)
    BY <2>2, ExtendsNothing
  <2> QED
    BY <2>1, <2>2
<1>4. opened \in Sessions /\ Numbers(opened)
  BY <1>3 DEF Extends
<1>5. /\ seqstore_oldest(opened) \in Nat \ {0}
      /\ seqstore_oldest(opened) <= Len(opened.sent) + 1
  BY <1>4, OldestType, SessionType, KeepAssumption DEF seqstore_oldest
<1>6. r = IF opened.rc # "ok" THEN opened ELSE requeue(noted, kept)
  BY DEF resend_from
<1> HIDE DEF r, opened, oldest
<1>7. first \in Nat \ {0} /\ kept \in Nat \ {0} /\ first .. kept - 1 \subseteq 1..Len(opened.sent)
  BY <1>1, <1>4, <1>5, SessionType
<1> HIDE DEF first, kept
<1>8. /\ noted \in Sessions /\ noted.sent = opened.sent /\ noted.tx = opened.tx
      /\ noted.state = opened.state /\ noted.expected = opened.expected
      /\ noted.unsaid = opened.unsaid \cup first .. kept - 1
  <2> DEFINE u == opened.unsaid \cup first .. kept - 1
  <2>1. u \in SUBSET Nat
    BY <1>4, <1>7, SessionType
  <2>2. noted = [opened EXCEPT !.unsaid = u]
    OBVIOUS
  <2> HIDE DEF u
  <2>3. /\ noted \in Sessions /\ noted.sent = opened.sent /\ noted.tx = opened.tx
        /\ noted.state = opened.state /\ noted.expected = opened.expected
        /\ noted.unsaid = u
    BY <1>4, <2>1, <2>2 DEF Sessions
  <2> QED
    BY <2>3 DEF u
<1> HIDE DEF noted
<1>9. Numbers(noted)
  BY <1>4, <1>7, <1>8 DEF Numbers
<1>10. Extends(opened, noted, types)
  <2>1. Len(opened.sent) \in Nat /\ Len(opened.tx) \in Nat
    BY <1>4, SessionType
  <2> QED
    BY <1>8, <1>9, <2>1 DEF Extends, Grows
<1>11. CASE opened.rc # "ok"
  BY <1>3, <1>6, <1>11 DEF r
<1>12. CASE opened.rc = "ok"
  <2>1. /\ Extends(noted, requeue(noted, kept), types)
        /\ requeue(noted, kept).state = noted.state /\ requeue(noted, kept).expected = noted.expected
    BY <1>7, <1>8, <1>9, RequeueFacts
  <2>2. Extends(s, requeue(noted, kept), types)
    BY <1>3, <1>4, <1>8, <1>10, <2>1, ExtendsTwice
  <2> QED
    BY <1>3, <1>6, <1>8, <1>12, <2>1, <2>2 DEF r
<1> QED
  BY <1>11, <1>12

\* What is queued between s and r was numbered between them.
QueuesOnlyNew(s, r) == \A j \in Len(s.tx) + 1..Len(r.tx) : r.tx[j] > Len(s.sent)

Moved(s, n) == IF n = s.expected THEN n + 1 ELSE s.expected

LEMMA TrackFacts ==
  ASSUME NEW s \in Sessions, Numbers(s), NEW n \in Nat \ {0}
  PROVE  /\ Track(s, n) \in Sessions /\ Numbers(Track(s, n))
         /\ Track(s, n).expected = Moved(s, n)
         /\ Track(s, n).sent = s.sent /\ Track(s, n).tx = s.tx /\ Track(s, n).unsaid = s.unsaid
         /\ Track(s, n).state = s.state /\ Track(s, n).rc = s.rc
<1>1. CASE n = s.expected
  <2>1. Track(s, n) = [s EXCEPT !.expected = s.expected + 1, !.recovering = FALSE]
    BY <1>1 DEF Track, seqtrack_on
  <2>2. s.expected + 1 \in Nat \ {0} /\ Moved(s, n) = s.expected + 1
    BY <1>1, SessionType DEF Moved
  <2>3. /\ Track(s, n) \in Sessions
        /\ Track(s, n).expected = Moved(s, n)
        /\ Track(s, n).sent = s.sent /\ Track(s, n).tx = s.tx /\ Track(s, n).unsaid = s.unsaid
        /\ Track(s, n).state = s.state /\ Track(s, n).rc = s.rc
    BY <2>1, <2>2 DEF Sessions
  <2> QED
    BY <2>3 DEF Numbers
<1>2. CASE n # s.expected
  <2>1. Track(s, n) = s \/ Track(s, n) = [s EXCEPT !.recovering = TRUE]
    BY <1>2 DEF Track, seqtrack_on
  <2>2. CASE Track(s, n) = s
    BY <1>2, <2>2 DEF Moved
  <2>3. CASE Track(s, n) = [s EXCEPT !.recovering = TRUE]
    <3>1. /\ Track(s, n) \in Sessions
          /\ Track(s, n).expected = s.expected
          /\ Track(s, n).sent = s.sent /\ Track(s, n).tx = s.tx /\ Track(s, n).unsaid = s.unsaid
          /\ Track(s, n).state = s.state /\ Track(s, n).rc = s.rc
      BY <2>3 DEF Sessions
    <3> QED
      BY <1>2, <3>1 DEF Numbers, Moved
  <2> QED
    BY <2>1, <2>2, <2>3
<1> QED
  BY <1>1, <1>2

LEMMA CountFacts ==
  ASSUME NEW s \in Sessions, Numbers(s), NEW n \in Nat \ {0}, NEW types, "resend_req" \in types
  PROVE  LET c == count_frame(s, n)
         IN  /\ Extends(s, c, types) /\ QueuesOnlyNew(s, c)
             /\ c.state = s.state /\ c.expected = Moved(s, n)
             /\ n = s.expected => c.rc = s.rc
<1> DEFINE c == count_frame(s, n)
           a == Track(s, n)
           f == ResendReq(s.expected)
<1>1. /\ a \in Sessions /\ Numbers(a) /\ a.expected = Moved(s, n)
      /\ a.sent = s.sent /\ a.tx = s.tx /\ a.unsaid = s.unsaid
      /\ a.state = s.state /\ a.rc = s.rc
  BY TrackFacts
<1>2. Extends(s, a, types)
  BY <1>1, ExtendsNothing
<1>3. f \in Frames /\ f.type = "resend_req" /\ f.arg >= 1
  BY SessionType DEF ResendReq, Frame, Frames, FrameTypes
<1>4. Len(s.sent) \in Nat /\ Len(s.tx) \in Nat
  BY SessionType
<1>5. c = IF seqtrack_on(s, n) = "gap" THEN enqueue(a, f) ELSE a
  BY DEF count_frame
<1> HIDE DEF c, a, f
<1>6. CASE seqtrack_on(s, n) = "gap"
  <2>1. n # s.expected
    BY <1>6 DEF seqtrack_on
  <2>2. Extends(a, c, types)
    BY <1>1, <1>3, <1>5, <1>6, EnqueueExtends
  <2>3. /\ c.state = a.state /\ c.expected = a.expected
        /\ \/ c.tx = a.tx
           \/ Len(c.tx) = Len(a.tx) + 1 /\ c.tx[Len(a.tx) + 1] = Len(a.sent) + 1
    <3>1. Enqueued(a, f, c)
      BY <1>1, <1>3, <1>5, <1>6, EnqueueFacts
    <3> QED
      BY <3>1 DEF Enqueued
  <2>4. QueuesOnlyNew(s, c)
    BY <1>1, <1>4, <2>3 DEF QueuesOnlyNew
  <2>5. Extends(s, c, types)
    BY <1>2, <2>2, ExtendsTwice
  <2> QED
    BY <1>1, <2>1, <2>3, <2>4, <2>5 DEF c
<1>7. CASE seqtrack_on(s, n) # "gap"
  <2>1. c = a
    BY <1>5, <1>7
  <2>2. QueuesOnlyNew(s, c)
    BY <1>1, <1>4, <2>1 DEF QueuesOnlyNew
  <2> QED
    BY <1>1, <1>2, <2>1, <2>2 DEF c
<1> QED
  BY <1>6, <1>7

\* The frames an answer to f may hold.
Answers(f) == {"resend_req", "gap_fill"} \cup
              (IF f.type = "login_req" THEN {"login_ack"} ELSE {})

\* What reading frame f, numbered n, makes of a session s.
Reaction(s, n, f, r) ==
  /\ Extends(s, r, Answers(f))
  /\ \/ r.state = s.state
     \/ s.state = "logging_in" /\ r.state = "ready" /\ f.type \in {"login_req", "login_ack"}
  /\ r.rc = "ok" /\ f.type \in {"login_req", "login_ack"} => r.state # "logging_in"
  /\ \/ r.expected = Moved(s, n)
     \/ f.type = "gap_fill" /\ r.rc = "ok" /\ r.expected = f.arg /\ Moved(s, n) < f.arg
     \/ /\ f.type = "login_ack" /\ s.state = "logging_in"
        /\ r.expected = n + 1 /\ n + 1 < Moved(s, n)
  /\ f.type = "gap_fill" /\ r.rc = "ok" => r.expected >= f.arg
  /\ f.type = "data" =>
       /\ r.rc = "ok" => s.state = "ready"
       /\ n = s.expected /\ s.state = "ready" => r.rc = "ok"
  /\ f.type = "login_req" /\ r.rc = "ok" /\ s.state = "logging_in" =>
       /\ QueuesOnlyNew(s, r)
       /\ \E j \in Len(s.tx) + 1..Len(r.tx) : r.sent[r.tx[j]].type = "login_ack"

LEMMA AnswerFacts ==
  ASSUME NEW s \in Sessions, Numbers(s), NEW types, "login_ack" \in types
  PROVE  LET r == answer_login(s)
         IN  /\ Extends(s, r, types) /\ QueuesOnlyNew(s, r) /\ r.expected = s.expected
             /\ r.state = IF s.state = "logging_in" THEN "ready" ELSE s.state
             /\ s.state = "logging_in" /\ r.rc = "ok" /\ s.rc = "ok" =>
                  \E j \in Len(s.tx) + 1..Len(r.tx) : r.sent[r.tx[j]].type = "login_ack"
<1> DEFINE r == answer_login(s)
           a == enqueue(s, LoginAck)
<1>1. Len(s.sent) \in Nat /\ Len(s.tx) \in Nat
  BY SessionType
<1>2. CASE s.state # "logging_in"
  BY <1>1, <1>2, ExtendsNothing DEF answer_login, QueuesOnlyNew
<1>3. CASE s.state = "logging_in"
  <2>1. LoginAck \in Frames /\ LoginAck.type = "login_ack"
    BY DEF LoginAck, Frame, Frames, FrameTypes
  <2>2. Extends(s, a, types)
    BY <2>1, EnqueueExtends
  <2>3. /\ a.expected = s.expected
        /\ \/ a.rc = "pool_exhausted" /\ a.tx = s.tx
           \/ /\ a.rc = s.rc /\ Len(a.tx) = Len(s.tx) + 1 /\ a.tx[Len(s.tx) + 1] = Len(s.sent) + 1
              /\ a.sent[Len(s.sent) + 1] = LoginAck
    BY <2>1, EnqueueFacts DEF Enqueued
  <2>4. r = [a EXCEPT !.state = "ready"]
    BY <1>3 DEF answer_login
  <2> HIDE DEF r, a
  <2>5. a \in Sessions /\ Numbers(a)
    BY <2>2 DEF Extends
  <2>6. /\ r \in Sessions /\ r.sent = a.sent /\ r.tx = a.tx /\ r.unsaid = a.unsaid
        /\ r.expected = a.expected /\ r.state = "ready" /\ r.rc = a.rc
    BY <2>4, <2>5 DEF Sessions, States
  <2>7. Extends(s, r, types)
    BY <2>2, <2>5, <2>6, ExtendsNothing, ExtendsTwice
  <2>8. QueuesOnlyNew(s, r)
    BY <1>1, <2>3, <2>6 DEF QueuesOnlyNew
  <2>9. ASSUME r.rc = "ok"
        PROVE  \E j \in Len(s.tx) + 1..Len(r.tx) : r.sent[r.tx[j]].type = "login_ack"
    <3>1. Len(s.tx) + 1 \in Len(s.tx) + 1..Len(r.tx)
      BY <1>1, <2>3, <2>6, <2>9
    <3>2. r.sent[r.tx[Len(s.tx) + 1]].type = "login_ack"
      BY <2>1, <2>3, <2>6, <2>9
    <3> QED
      BY <3>1, <3>2
  <2> QED
    BY <1>3, <2>3, <2>6, <2>7, <2>8, <2>9 DEF r
<1> QED
  BY <1>2, <1>3

LEMMA ReadFacts ==
  ASSUME NEW s \in Sessions, Numbers(s), s.rc = "ok", NEW n \in Nat \ {0}, NEW f \in Frames,
         f.type = "resend_req" => f.arg >= 1
  PROVE  Reaction(s, n, f, handle_frame(count_frame(s, n), n, f))
<1> DEFINE c == count_frame(s, n)
           r == handle_frame(c, n, f)
           types == Answers(f)
<1>1. /\ Extends(s, c, types) /\ QueuesOnlyNew(s, c)
      /\ c.state = s.state /\ c.expected = Moved(s, n)
      /\ n = s.expected => c.rc = "ok"
  BY CountFacts DEF Answers
<1>2. c \in Sessions /\ Numbers(c) /\ Moved(s, n) \in Nat \ {0} /\ f.arg \in Nat
  BY <1>1, SessionType DEF Extends, Moved, Frames
<1> HIDE DEF c, types
<1>3. CASE c.rc # "ok"
  <2>1. r = c
    BY <1>3 DEF handle_frame
  <2> QED
    BY <1>1, <1>2, <1>3, <2>1 DEF Reaction, c, types
<1>4. CASE c.rc = "ok" /\ f.type = "heartbeat"
  <2>1. r = c
    BY <1>4 DEF handle_frame
  <2> QED
    BY <1>1, <1>2, <1>4, <2>1 DEF Reaction, c, types
<1>5. CASE c.rc = "ok" /\ f.type = "login_req"
  <2>1. r = answer_login(c)
    BY <1>5 DEF handle_frame
  <2> HIDE DEF r
  <2>2. /\ Extends(c, r, types) /\ QueuesOnlyNew(c, r) /\ r.expected = c.expected
        /\ r.state = IF c.state = "logging_in" THEN "ready" ELSE c.state
        /\ c.state = "logging_in" /\ r.rc = "ok" /\ c.rc = "ok" =>
             \E j \in Len(c.tx) + 1..Len(r.tx) : r.sent[r.tx[j]].type = "login_ack"
    <3>1. "login_ack" \in types
      BY <1>5 DEF types, Answers
    <3> QED
      BY <1>2, <2>1, <3>1, AnswerFacts
  <2>3. Extends(s, r, types)
    BY <1>1, <2>2, ExtendsTwice
  <2>4. /\ Len(s.tx) \in Nat /\ Len(c.tx) \in Nat /\ Len(r.tx) \in Nat /\ Len(s.sent) \in Nat
        /\ Len(c.sent) \in Nat /\ Len(s.tx) <= Len(c.tx) /\ Len(c.tx) <= Len(r.tx)
        /\ Len(s.sent) <= Len(c.sent)
    BY <1>1, <1>2, <2>2, SessionType DEF Extends, Grows
  <2>5. QueuesOnlyNew(s, r)
    <3>1. ASSUME NEW j \in Len(s.tx) + 1..Len(r.tx)
          PROVE  r.tx[j] > Len(s.sent)
      <4>1. CASE j <= Len(c.tx)
        <5>1. j \in 1..Len(c.tx) /\ j \in Len(s.tx) + 1..Len(c.tx)
          BY <2>4, <4>1
        <5> QED
          BY <5>1, <1>1, <2>2 DEF Extends, QueuesOnlyNew
      <4>2. CASE ~(j <= Len(c.tx))
        <5>1. j \in Len(c.tx) + 1..Len(r.tx) /\ j \in 1..Len(r.tx)
          BY <2>4, <4>2
        <5>2. r.tx[j] > Len(c.sent) /\ r.tx[j] \in Nat
          BY <5>1, <2>2, SessionType DEF QueuesOnlyNew, Extends
        <5> QED
          BY <5>2, <2>4
      <4> QED
        BY <4>1, <4>2
    <3> QED
      BY <3>1 DEF QueuesOnlyNew
  <2>6. r.rc = "ok" /\ s.state = "logging_in" =>
          \E j \in Len(s.tx) + 1..Len(r.tx) : r.sent[r.tx[j]].type = "login_ack"
    <3>1. Len(c.tx) + 1..Len(r.tx) \subseteq Len(s.tx) + 1..Len(r.tx)
      BY <2>4
    <3> QED
      BY <1>1, <1>5, <2>2, <3>1
  <2> QED
    BY <1>1, <1>5, <2>2, <2>3, <2>5, <2>6 DEF Reaction, r, c, types, States
<1>6. CASE c.rc = "ok" /\ f.type = "login_ack"
  <2>1. CASE c.state # "logging_in"
    <3>1. r = c
      BY <1>6, <2>1 DEF handle_frame
    <3> QED
      BY <1>1, <1>2, <1>6, <2>1, <3>1 DEF Reaction, c, types
  <2>2. CASE c.state = "logging_in"
    <3> DEFINE a == seqtrack_restart_at(c, n + 1)
    <3>1. r = [a EXCEPT !.state = "ready"]
      BY <1>6, <2>2 DEF handle_frame
    <3>2. /\ a \in Sessions /\ a.sent = c.sent /\ a.tx = c.tx /\ a.unsaid = c.unsaid
          /\ a.rc = c.rc
          /\ a.expected = c.expected \/ (a.expected = n + 1 /\ n + 1 < c.expected)
      <4>1. CASE n + 1 >= c.expected
        BY <1>2, <4>1 DEF seqtrack_restart_at
      <4>2. CASE ~(n + 1 >= c.expected)
        <5>1. a = [c EXCEPT !.expected = n + 1, !.recovering = FALSE]
          BY <4>2 DEF seqtrack_restart_at
        <5>2. n + 1 \in Nat \ {0} /\ n + 1 < c.expected
          BY <1>1, <1>2, <4>2
        <5> QED
          BY <1>2, <5>1, <5>2 DEF Sessions
      <4> QED
        BY <4>1, <4>2
    <3> HIDE DEF a, r
    <3>3. /\ r \in Sessions /\ r.sent = a.sent /\ r.tx = a.tx /\ r.unsaid = a.unsaid
          /\ r.expected = a.expected /\ r.state = "ready" /\ r.rc = a.rc
      BY <3>1, <3>2 DEF Sessions, States
    <3>4. Extends(c, r, types)
      BY <1>2, <3>2, <3>3, ExtendsNothing
    <3>5. Extends(s, r, types)
      BY <1>1, <3>4, ExtendsTwice
    <3> QED
      BY <1>1, <1>6, <2>2, <3>2, <3>3, <3>5 DEF Reaction, c, types, r
  <2> QED
    BY <2>1, <2>2
<1>7. CASE c.rc = "ok" /\ f.type = "resend_req"
  <2>1. r = resend_from(c, f.arg)
    BY <1>7 DEF handle_frame
  <2> HIDE DEF r
  <2>2. Extends(c, r, types) /\ r.state = c.state /\ r.expected = c.expected
    <3>1. "gap_fill" \in types /\ f.arg \in Nat \ {0}
      BY <1>2, <1>7 DEF types, Answers
    <3> QED
      BY <1>2, <2>1, <3>1, ResendFacts
  <2>3. Extends(s, r, types)
    BY <1>1, <2>2, ExtendsTwice
  <2> QED
    BY <1>1, <1>7, <2>2, <2>3 DEF Reaction, r, c, types
<1>8. CASE c.rc = "ok" /\ f.type = "gap_fill"
  <2>1. r = seqtrack_skip_to(c, f.arg)
    BY <1>8 DEF handle_frame
  <2> HIDE DEF r
  <2>2. CASE f.arg <= c.expected
    <3>1. r = c
      BY <2>1, <2>2 DEF seqtrack_skip_to
    <3> QED
      BY <1>1, <1>2, <1>8, <2>2, <3>1 DEF Reaction, r, c, types
  <2>3. CASE ~(f.arg <= c.expected)
    <3>1. r = [c EXCEPT !.expected = f.arg, !.recovering = FALSE]
      BY <2>1, <2>3 DEF seqtrack_skip_to
    <3>2. f.arg \in Nat \ {0} /\ c.expected < f.arg
      BY <1>1, <1>2, <2>3
    <3>3. /\ r \in Sessions /\ r.sent = c.sent /\ r.tx = c.tx /\ r.unsaid = c.unsaid
          /\ r.expected = f.arg /\ r.state = c.state /\ r.rc = c.rc
      BY <1>2, <3>1, <3>2 DEF Sessions
    <3>4. Extends(c, r, types)
      BY <1>2, <3>3, ExtendsNothing
    <3>5. Extends(s, r, types)
      BY <1>1, <3>4, ExtendsTwice
    <3> QED
      BY <1>1, <1>2, <1>8, <3>2, <3>3, <3>5 DEF Reaction, r, c, types
  <2> QED
    BY <2>2, <2>3
<1>9. CASE c.rc = "ok" /\ f.type = "data"
  <2>1. r = IF c.state # "ready" THEN [c EXCEPT !.rc = "not_logged_in"] ELSE c
    BY <1>9 DEF handle_frame
  <2> HIDE DEF r
  <2>2. /\ r \in Sessions /\ r.sent = c.sent /\ r.tx = c.tx /\ r.unsaid = c.unsaid
        /\ r.expected = c.expected /\ r.state = c.state
        /\ IF c.state = "ready" THEN r.rc = "ok" ELSE r.rc = "not_logged_in"
    BY <1>2, <1>9, <2>1 DEF Sessions, Codes
  <2>3. Extends(c, r, types)
    BY <1>2, <2>2, ExtendsNothing
  <2>4. Extends(s, r, types)
    BY <1>1, <2>3, ExtendsTwice
  <2> QED
    BY <1>1, <1>9, <2>2, <2>4 DEF Reaction, r, c, types
<1> QED
  BY <1>3, <1>4, <1>5, <1>6, <1>7, <1>8, <1>9 DEF Frames, FrameTypes

-----------------------------------------------------------------------------
(* What the parts of the invariant say of a session that sent more.         *)

\* The frames that are no messages and that e may send.
Control(e) == {"resend_req", "gap_fill", "heartbeat"} \cup
              {IF e = "client" THEN "login_req" ELSE "login_ack"}

LEMMA SentKept ==
  ASSUME NEW e \in Ends, NEW s \in Sessions, NEW most \in Nat, Sent(e, s, most),
         NEW r, NEW types, Extends(s, r, types), types \subseteq Control(e)
  PROVE  Sent(e, r, most)
<1>1. /\ r \in Sessions /\ Grows(s, r) /\ Len(s.sent) \in Nat /\ Len(r.sent) \in Nat
      /\ seqstore_oldest(s) <= seqstore_oldest(r)
      /\ seqstore_oldest(s) \in Nat /\ seqstore_oldest(r) \in Nat
  BY SessionType, OldestGrows, OldestType DEF Extends
<1>2. \A n \in 1..Len(r.sent) : n \in 1..Len(s.sent) \/ n \in Len(s.sent) + 1..Len(r.sent)
  BY <1>1
<1>3. \A n \in 1..Len(s.sent) : r.sent[n] = s.sent[n] /\ s.sent[n].arg \in Nat
  BY <1>1, SessionType DEF Grows
<1>4. \A n \in Len(s.sent) + 1..Len(r.sent) :
        /\ r.sent[n].type \in Control(e)
        /\ r.sent[n].type = "resend_req" => r.sent[n].arg >= 1
        /\ r.sent[n].type = "gap_fill" => r.sent[n].arg <= seqstore_oldest(r)
  BY DEF Extends
<1>5. "data" \notin Control(e) /\ (IF e = "client" THEN "login_ack" ELSE "login_req") \notin Control(e)
  BY DEF Control
<1>6. ASSUME NEW n \in 1..Len(r.sent)
      PROVE  /\ r.sent[n].type = "resend_req" => r.sent[n].arg >= 1
             /\ r.sent[n].type = "gap_fill" => r.sent[n].arg <= seqstore_oldest(r)
             /\ r.sent[n].type = "data" => r.sent[n].arg \in 1..most
             /\ r.sent[n].type # (IF e = "client" THEN "login_ack" ELSE "login_req")
  <2>1. CASE n \in 1..Len(s.sent)
    <3>1. /\ s.sent[n].type = "resend_req" => s.sent[n].arg >= 1
          /\ s.sent[n].type = "gap_fill" => s.sent[n].arg <= seqstore_oldest(s)
          /\ s.sent[n].type = "data" => s.sent[n].arg \in 1..most
          /\ s.sent[n].type # (IF e = "client" THEN "login_ack" ELSE "login_req")
      BY <2>1 DEF Sent
    <3> QED
      BY <1>1, <1>3, <2>1, <3>1
  <2>2. CASE n \in Len(s.sent) + 1..Len(r.sent)
    BY <1>4, <1>5, <2>2
  <2> QED
    BY <1>2, <2>1, <2>2
<1>7. ASSUME NEW m \in 1..Len(r.sent), NEW n \in 1..Len(r.sent), m < n,
             r.sent[m].type = "data", r.sent[n].type = "data"
      PROVE  r.sent[m].arg < r.sent[n].arg
  <2>1. m \in 1..Len(s.sent) /\ n \in 1..Len(s.sent)
    BY <1>2, <1>4, <1>5, <1>7
  <2> QED
    BY <1>3, <1>7, <2>1 DEF Sent
<1> QED
  BY <1>6, <1>7 DEF Sent

\* A bound on the messages from some number on outlives what e sends next.
Outlives(s, r, most) ==
  \A from, least \in Nat : After(s.sent, from, least) /\ least <= most => After(r.sent, from, least)

LEMMA ControlOutlives ==
  ASSUME NEW e \in Ends, NEW s \in Sessions, NEW r, NEW types, Extends(s, r, types),
         types \subseteq Control(e), NEW most
  PROVE  Outlives(s, r, most)
<1> SUFFICES ASSUME NEW from \in Nat, NEW least \in Nat, After(s.sent, from, least),
                    NEW n \in 1..Len(r.sent), n >= from, r.sent[n].type = "data"
             PROVE  r.sent[n].arg > least
  BY DEF Outlives, After
<1>1. /\ r \in Sessions /\ Grows(s, r) /\ Len(s.sent) \in Nat /\ Len(r.sent) \in Nat
  BY SessionType DEF Extends
<1>2. n \in 1..Len(s.sent) \/ n \in Len(s.sent) + 1..Len(r.sent)
  BY <1>1
<1>3. n \notin Len(s.sent) + 1..Len(r.sent)
  BY DEF Extends, Control
<1> QED
  BY <1>1, <1>2, <1>3 DEF Grows, After

LEMMA DataSent ==
  ASSUME NEW e \in Ends, NEW s \in Sessions, NEW most \in Nat, Sent(e, s, most),
         NEW r, Enqueued(s, Data(most + 1), r)
  PROVE  Sent(e, r, most + 1) /\ Outlives(s, r, most)
<1> DEFINE d == Data(most + 1)
<1>1. d \in Frames /\ d.type = "data" /\ d.arg = most + 1
  BY DEF Data, Frame, Frames, FrameTypes
<1> HIDE DEF d
<1>2. /\ r \in Sessions /\ Grows(s, r) /\ Len(s.sent) \in Nat /\ Len(r.sent) \in Nat
      /\ seqstore_oldest(s) <= seqstore_oldest(r)
      /\ seqstore_oldest(s) \in Nat /\ seqstore_oldest(r) \in Nat
  BY SessionType, OldestGrows, OldestType DEF Enqueued
<1>3. \A n \in 1..Len(s.sent) : r.sent[n] = s.sent[n] /\ s.sent[n].arg \in Nat
  BY <1>2, SessionType DEF Grows
<1>4. \A n \in 1..Len(r.sent) : n \in 1..Len(s.sent) \/ (n = Len(s.sent) + 1 /\ r.sent[n] = d)
  BY <1>2 DEF Enqueued, d
<1>5. ASSUME NEW n \in 1..Len(r.sent)
      PROVE  /\ r.sent[n].type = "resend_req" => r.sent[n].arg >= 1
             /\ r.sent[n].type = "gap_fill" => r.sent[n].arg <= seqstore_oldest(r)
             /\ r.sent[n].type = "data" => r.sent[n].arg \in 1..most + 1
             /\ r.sent[n].type # (IF e = "client" THEN "login_ack" ELSE "login_req")
  <2>1. CASE n \in 1..Len(s.sent)
    <3>1. /\ s.sent[n].type = "resend_req" => s.sent[n].arg >= 1
          /\ s.sent[n].type = "gap_fill" => s.sent[n].arg <= seqstore_oldest(s)
          /\ s.sent[n].type = "data" => s.sent[n].arg \in 1..most
          /\ s.sent[n].type # (IF e = "client" THEN "login_ack" ELSE "login_req")
      BY <2>1 DEF Sent
    <3>2. 1..most \subseteq 1..most + 1
      OBVIOUS
    <3>3. r.sent[n] = s.sent[n] /\ s.sent[n].arg \in Nat
      BY <1>3, <2>1
    <3> QED
      BY <1>2, <3>1, <3>2, <3>3
  <2>2. CASE r.sent[n] = d
    <3>1. d.arg \in 1..most + 1
      BY <1>1
    <3> QED
      BY <1>1, <2>2, <3>1
  <2>3. n \in 1..Len(s.sent) \/ r.sent[n] = d
    BY <1>4
  <2> QED
    BY <2>1, <2>2, <2>3
<1>6. ASSUME NEW m \in 1..Len(r.sent), NEW n \in 1..Len(r.sent), m < n,
             r.sent[m].type = "data", r.sent[n].type = "data"
      PROVE  r.sent[m].arg < r.sent[n].arg
  <2>1. m \in 1..Len(s.sent) /\ r.sent[m] = s.sent[m] /\ s.sent[m].arg \in Nat
    BY <1>2, <1>3, <1>4, <1>6
  <2>2. CASE n \in 1..Len(s.sent)
    BY <1>3, <1>6, <2>1, <2>2 DEF Sent
  <2>3. CASE n = Len(s.sent) + 1 /\ r.sent[n] = d
    <3>1. s.sent[m].arg \in 1..most
      BY <1>6, <2>1 DEF Sent
    <3> QED
      BY <1>1, <2>1, <2>3, <3>1
  <2> QED
    BY <1>4, <2>2, <2>3
<1>7. Outlives(s, r, most)
  <2> SUFFICES ASSUME NEW from \in Nat, NEW least \in Nat, After(s.sent, from, least), least <= most,
                      NEW n \in 1..Len(r.sent), n >= from, r.sent[n].type = "data"
               PROVE  r.sent[n].arg > least
    BY DEF Outlives, After
  <2>1. CASE n \in 1..Len(s.sent)
    BY <1>3, <2>1 DEF After
  <2>2. CASE r.sent[n] = d
    BY <1>1, <2>2
  <2> QED
    BY <1>4, <2>1, <2>2
<1> QED
  BY <1>5, <1>6, <1>7 DEF Sent

LEMMA PassedKept ==
  ASSUME NEW s \in Sessions, NEW r \in Sessions, Grows(s, r), NEW expected \in Nat, NEW gone, NEW up,
         Passed(s.sent, expected, gone, up)
  PROVE  Passed(r.sent, expected, gone, up)
<1>1. Len(s.sent) \in Nat /\ Len(r.sent) \in Nat
  BY SessionType
<1>2. ASSUME NEW n \in 1..Len(r.sent), n < expected
      PROVE  n \in 1..Len(s.sent) /\ r.sent[n] = s.sent[n]
  BY <1>1, <1>2 DEF Grows, Passed
<1> QED
  BY <1>1, <1>2 DEF Grows, Passed

\* Numbers in a queue, all of them sent by s.
SentBy(s, q) == \A i \in 1..Len(q) : q[i] \in 1..Len(s.sent)

\* q with more behind.
Longer(q, p) == Len(p) >= Len(q) /\ \A i \in 1..Len(q) : p[i] = q[i]

LEMMA SafePrefix ==
  ASSUME NEW sent, NEW q \in Seq(Nat), NEW p \in Seq(Nat), NEW least,
         Longer(p, q), LoginSafe(sent, q, least)
  PROVE  LoginSafe(sent, p, least)
<1>1. \A i \in 1..Len(p) : i \in 1..Len(q) /\ 1..i - 1 \subseteq 1..Len(p)
  <2>1. Len(p) \in Nat /\ Len(q) \in Nat /\ Len(p) <= Len(q)
    BY DEF Longer
  <2> QED
    BY <2>1
<1>2. \A i \in 1..Len(p) : q[i] = p[i]
  BY DEF Longer
<1>3. ASSUME NEW i \in 1..Len(p), \A j \in 1..i - 1 : sent[p[j]].type # "login_ack"
      PROVE  /\ sent[p[i]].type # "data"
             /\ sent[p[i]].type = "login_ack" => After(sent, p[i] + 1, least)
  <2>1. \A j \in 1..i - 1 : sent[q[j]].type # "login_ack"
    BY <1>1, <1>2, <1>3
  <2> QED
    BY <1>1, <1>2, <2>1 DEF LoginSafe
<1> QED
  BY <1>3 DEF LoginSafe

LEMMA SafeTail ==
  ASSUME NEW sent, NEW q \in Seq(Nat), q # <<>>, NEW least,
         LoginSafe(sent, q, least), sent[q[1]].type # "login_ack"
  PROVE  LoginSafe(sent, Tail(q), least)
<1> DEFINE p == Tail(q)
<1>1. Len(q) \in Nat /\ Len(p) = Len(q) - 1 /\ \A i \in 1..Len(p) : p[i] = q[i + 1]
  OBVIOUS
<1> HIDE DEF p
<1>2. ASSUME NEW i \in 1..Len(p), \A j \in 1..i - 1 : sent[p[j]].type # "login_ack"
      PROVE  /\ sent[p[i]].type # "data"
             /\ sent[p[i]].type = "login_ack" => After(sent, p[i] + 1, least)
  <2>1. ASSUME NEW j \in 1..(i + 1) - 1
        PROVE  sent[q[j]].type # "login_ack"
    <3>1. CASE j = 1
      BY <3>1
    <3>2. CASE j # 1
      <4>1. j - 1 \in 1..i - 1 /\ j - 1 \in 1..Len(p) /\ (j - 1) + 1 = j
        BY <1>1, <3>2
      <4> QED
        BY <1>1, <1>2, <4>1
    <3> QED
      BY <3>1, <3>2
  <2>2. i + 1 \in 1..Len(q) /\ p[i] = q[i + 1]
    BY <1>1
  <2> QED
    BY <2>1, <2>2 DEF LoginSafe
<1>3. LoginSafe(sent, p, least)
  BY <1>2 DEF LoginSafe
<1> QED
  BY <1>3 DEF p

LEMMA SafeGrows ==
  ASSUME NEW s \in Sessions, NEW r \in Sessions, Grows(s, r), NEW most, Outlives(s, r, most),
         NEW q \in Seq(Nat), NEW p \in Seq(Nat), Longer(q, p), SentBy(s, q),
         NEW least \in Nat, least <= most, HasAck(s.sent, q), LoginSafe(s.sent, q, least)
  PROVE  HasAck(r.sent, p) /\ LoginSafe(r.sent, p, least)
<1>1. Len(q) \in Nat /\ Len(p) \in Nat /\ Len(q) <= Len(p)
  BY DEF Longer
<1>2. \A i \in 1..Len(q) : i \in 1..Len(p) /\ p[i] = q[i] /\ r.sent[p[i]] = s.sent[q[i]]
  <2> SUFFICES ASSUME NEW i \in 1..Len(q)
               PROVE  i \in 1..Len(p) /\ p[i] = q[i] /\ r.sent[p[i]] = s.sent[q[i]]
    OBVIOUS
  <2>1. p[i] = q[i] /\ q[i] \in 1..Len(s.sent)
    BY DEF Longer, SentBy
  <2>2. r.sent[q[i]] = s.sent[q[i]]
    BY <2>1 DEF Grows
  <2> QED
    BY <1>1, <2>1, <2>2
<1>3. PICK k \in 1..Len(q) : s.sent[q[k]].type = "login_ack"
  BY DEF HasAck
<1>4. HasAck(r.sent, p)
  BY <1>2, <1>3 DEF HasAck
<1>5. ASSUME NEW i \in 1..Len(p), \A j \in 1..i - 1 : r.sent[p[j]].type # "login_ack"
      PROVE  /\ r.sent[p[i]].type # "data"
             /\ r.sent[p[i]].type = "login_ack" => After(r.sent, p[i] + 1, least)
  <2>1. i <= k
    <3>1. r.sent[p[k]].type = "login_ack"
      BY <1>2, <1>3
    <3>2. k \notin 1..i - 1
      BY <1>5, <3>1
    <3> QED
      BY <1>1, <3>2
  <2>2. i \in 1..Len(q) /\ 1..i - 1 \subseteq 1..Len(q)
    BY <1>1, <2>1
  <2>3. \A j \in 1..i - 1 : s.sent[q[j]].type # "login_ack"
    BY <1>2, <1>5, <2>2
  <2>4. /\ s.sent[q[i]].type # "data"
        /\ s.sent[q[i]].type = "login_ack" => After(s.sent, q[i] + 1, least)
    BY <2>2, <2>3, SMTT(30) DEF LoginSafe
  <2>5. q[i] + 1 \in Nat
    BY <2>2
  <2> QED
    BY <1>2, <2>2, <2>4, <2>5 DEF Outlives
<1> QED
  BY <1>4, <1>5 DEF LoginSafe

-----------------------------------------------------------------------------
(* Queues on a connection.                                                  *)

LEMMA TypesFacts ==
  ASSUME Types, NEW e \in Ends
  PROVE  /\ end[e] \in Sessions /\ end[Other(e)] \in Sessions
         /\ line[e] \in Seq(Nat) /\ line[Other(e)] \in Seq(Nat)
         /\ given[e] \in Nat /\ given[Other(e)] \in Nat
         /\ got[e] \in Seq(Nat) /\ got[Other(e)] \in Seq(Nat)
         /\ told[e] \in SUBSET Nat /\ told[Other(e)] \in SUBSET Nat
         /\ Stream(e) \in Seq(Nat) /\ Len(Stream(e)) = Len(line[e]) + Len(end[e].tx)
         /\ Len(line[e]) \in Nat /\ Len(end[e].tx) \in Nat
         /\ Latest(got[e]) \in Nat /\ Latest(got[Other(e)]) \in Nat
<1>1. Other(e) \in Ends
  BY EndsAre
<1>2. /\ end[e] \in Sessions /\ end[Other(e)] \in Sessions
      /\ line[e] \in Seq(Nat) /\ line[Other(e)] \in Seq(Nat)
      /\ given[e] \in Nat /\ given[Other(e)] \in Nat
      /\ got[e] \in Seq(Nat) /\ got[Other(e)] \in Seq(Nat)
      /\ told[e] \in SUBSET Nat /\ told[Other(e)] \in SUBSET Nat
  BY <1>1 DEF Types
<1>3. end[e].tx \in Seq(Nat) /\ Len(end[e].tx) \in Nat
  BY <1>2, SessionType
<1>4. \A q \in Seq(Nat) : Latest(q) \in Nat
  BY DEF Latest
<1>5. Stream(e) \in Seq(Nat) /\ Len(Stream(e)) = Len(line[e]) + Len(end[e].tx)
  BY <1>2, <1>3, ConcatProperties DEF Stream
<1>6. Len(line[e]) \in Nat
  BY <1>2
<1> QED
  BY <1>2, <1>3, <1>4, <1>5, <1>6

LEMMA StreamSent ==
  ASSUME Types, NEW e \in Ends, Queues(e)
  PROVE  SentBy(end[e], Stream(e))
<1> DEFINE l == line[e]
           x == end[e].tx
<1>1. l \in Seq(Nat) /\ x \in Seq(Nat) /\ Len(l) \in Nat /\ Len(x) \in Nat
  BY TypesFacts, SessionType
<1>2. /\ \A i \in 1..Len(l) : l[i] \in 1..Len(end[e].sent)
      /\ \A i \in 1..Len(x) : x[i] \in 1..Len(end[e].sent)
  BY DEF Queues, Numbers
<1>3. Stream(e) = l \o x
  BY DEF Stream
<1> HIDE DEF l, x
<1>4. ASSUME NEW i \in 1..Len(l) + Len(x)
      PROVE  (l \o x)[i] \in 1..Len(end[e].sent)
  <2>1. CASE i <= Len(l)
    <3>1. i \in 1..Len(l)
      BY <1>1, <2>1
    <3> QED
      BY <1>1, <1>2, <3>1, ConcatProperties
  <2>2. CASE i > Len(l)
    <3>1. i - Len(l) \in 1..Len(x)
      BY <1>1, <2>2
    <3> QED
      BY <1>1, <1>2, <2>2, <3>1, ConcatProperties
  <2> QED
    BY <1>1, <2>1, <2>2
<1> QED
  BY <1>1, <1>3, <1>4, ConcatProperties DEF SentBy

\* A longer queue of the sender makes a longer stream.
LEMMA StreamLonger ==
  ASSUME NEW l \in Seq(Nat), NEW x \in Seq(Nat), NEW y \in Seq(Nat), Longer(x, y)
  PROVE  Longer(l \o x, l \o y) /\ (l \o y = <<>> => x = <<>> /\ l = <<>>)
<1>1. Len(l) \in Nat /\ Len(x) \in Nat /\ Len(y) \in Nat /\ Len(x) <= Len(y)
  BY DEF Longer
<1>2. Len(l \o x) = Len(l) + Len(x) /\ Len(l \o y) = Len(l) + Len(y)
  BY ConcatProperties
<1>3. ASSUME NEW i \in 1..Len(l \o x)
      PROVE  (l \o y)[i] = (l \o x)[i]
  <2>1. CASE i <= Len(l)
    BY <1>1, <1>2, <2>1, ConcatProperties
  <2>2. CASE i > Len(l)
    <3>1. i - Len(l) \in 1..Len(x)
      BY <1>1, <1>2, <2>2
    <3>2. y[i - Len(l)] = x[i - Len(l)]
      BY <3>1 DEF Longer
    <3> QED
      BY <1>1, <1>2, <2>2, <3>2, ConcatProperties
  <2> QED
    BY <1>1, <1>2, <2>1, <2>2
<1>4. l \o y = <<>> => x = <<>> /\ l = <<>>
  BY <1>1, <1>2
<1> QED
  BY <1>1, <1>2, <1>3, <1>4 DEF Longer

-----------------------------------------------------------------------------
(* The steps.                                                               *)

LEMMA ExceptEnd ==
  ASSUME Types, NEW e \in Ends, NEW r \in Sessions, end' = [end EXCEPT ![e] = r]
  PROVE  /\ end' \in [Ends -> Sessions] /\ end'[e] = r /\ end'[Other(e)] = end[Other(e)]
         /\ \A x \in Ends : x = e \/ (x = Other(e) /\ Other(x) = e)
         /\ Other(e) \in Ends /\ Other(e) # e /\ Other(Other(e)) = e
<1>1. Other(e) \in Ends /\ Other(e) # e /\ Other(Other(e)) = e
      /\ \A x \in Ends : x = e \/ x = Other(e)
  BY EndsAre
<1> QED
  BY <1>1 DEF Types

\* An end that is logged in queues another frame.
LEMMA Says ==
  ASSUME IInv, NEW e \in Ends, NEW r \in Sessions, end[e].state = "ready",
         end' = [end EXCEPT ![e] = r], UNCHANGED <<line, got, told, restarts>>, Types',
         Numbers(r), Grows(end[e], r), Longer(end[e].tx, r.tx), r.state = "ready",
         r.expected = end[e].expected, r.rc = "ok",
         Sent(e, r, given'[e]), Outlives(end[e], r, given[e]),
         given'[e] >= given[e], given'[Other(e)] = given[Other(e)]
  PROVE  IInv'
<1> DEFINE o == Other(e)
           s == end[e]
<1>1. Types
  BY DEF IInv
<1>2. /\ end'[e] = r /\ end'[o] = end[o] /\ o \in Ends /\ o # e /\ Other(o) = e
      /\ \A x \in Ends : x = e \/ (x = o /\ Other(x) = e)
  BY <1>1, ExceptEnd
<1>3. /\ s \in Sessions /\ end[o] \in Sessions /\ line[e] \in Seq(Nat) /\ line[o] \in Seq(Nat)
      /\ given[e] \in Nat /\ Latest(got[e]) \in Nat /\ Latest(got[o]) \in Nat
      /\ given'[e] \in Nat /\ Stream(e) \in Seq(Nat)
  BY <1>1, <1>2, TypesFacts DEF Types
<1>4. /\ Len(s.sent) \in Nat /\ Len(r.sent) \in Nat /\ Len(s.sent) <= Len(r.sent)
      /\ s.tx \in Seq(Nat) /\ r.tx \in Seq(Nat)
      /\ end[o].expected \in Nat /\ s.expected \in Nat
      /\ seqstore_oldest(s) \in Nat /\ seqstore_oldest(r) \in Nat
      /\ seqstore_oldest(s) <= seqstore_oldest(r)
  BY <1>3, SessionType, OldestType, OldestGrows DEF Grows
<1>5. \A x \in Ends : Queues(x) /\ Sent(x, end[x], given[x]) /\ Ordered(x) /\ Gone(x) /\ Complete(x)
  BY DEF IInv
<1> HIDE DEF o, s
<1>6. Queues(e)'
  <2>1. Queues(e)
    BY <1>5
  <2> QED
    <3>1. \A i \in 1..Len(line[e]) : line[e][i] \in 1..Len(r.sent)
      <4>1. \A i \in 1..Len(line[e]) : line[e][i] \in 1..Len(s.sent)
        BY <2>1 DEF Queues, s
      <4>2. 1..Len(s.sent) \subseteq 1..Len(r.sent)
        BY <1>4
      <4> QED
        BY <4>1, <4>2
    <3>2. Len(line[e]) <= LineCap
      BY <2>1 DEF Queues
    <3> QED
      BY <1>2, <3>1, <3>2 DEF Queues
<1>7. Queues(o)'
  BY <1>2, <1>5 DEF Queues
<1>8. Sent(e, end[e], given[e])' /\ Sent(o, end[o], given[o])'
  BY <1>2, <1>5 DEF o
<1>9. Ordered(e)'
  BY <1>2, <1>3, <1>5 DEF Ordered, o, s
<1>10. Ordered(o)'
  <2>1. Latest(got[o]) <= given[e] /\ After(s.sent, end[o].expected, Latest(got[o]))
    BY <1>2, <1>5 DEF Ordered, s
  <2>2. After(r.sent, end[o].expected, Latest(got[o]))
    BY <1>3, <1>4, <2>1 DEF Outlives, s
  <2> QED
    BY <1>2, <1>3, <2>1, <2>2 DEF Ordered
<1>11. Gone(e)'
  BY <1>2, <1>5 DEF Gone, o
<1>12. Gone(o)'
  <2>1. \A n \in told[o] : n < seqstore_oldest(s) /\ n \in Nat
    BY <1>1, <1>2, <1>5 DEF Gone, s, Types
  <2> QED
    BY <1>2, <1>4, <2>1 DEF Gone
<1>13. Complete(e)'
  BY <1>2, <1>5 DEF Complete, o, s
<1>14. Complete(o)'
  <2>1. ASSUME restarts = 0
        PROVE  Passed(r.sent, end[o].expected, told[o], got[o])
    <3>1. Passed(s.sent, end[o].expected, told[o], got[o])
      BY <1>2, <1>5, <2>1 DEF Complete, s
    <3> QED
      BY <1>3, <1>4, <3>1, PassedKept DEF s
  <2> QED
    BY <1>2, <2>1 DEF Complete
<1>15. /\ Stream(e)' = line[e] \o r.tx /\ Stream(o)' = Stream(o)
       /\ Longer(Stream(e), line[e] \o r.tx)
       /\ line[e] \o r.tx = <<>> => Stream(e) = <<>>
       /\ line[e] \o r.tx \in Seq(Nat)
  <2>1. /\ Stream(e) = line[e] \o s.tx
        /\ Longer(line[e] \o s.tx, line[e] \o r.tx)
        /\ line[e] \o r.tx = <<>> => s.tx = <<>> /\ line[e] = <<>>
    BY <1>3, <1>4, StreamLonger DEF Stream, s
  <2>2. line[e] \o r.tx \in Seq(Nat) /\ <<>> \o <<>> = <<>>
    BY <1>3, <1>4
  <2>3. Stream(e)' = line[e] \o r.tx /\ Stream(o)' = Stream(o)
    BY <1>2 DEF Stream
  <2> QED
    BY <2>1, <2>2, <2>3
<1>16. SentBy(s, Stream(e))
  BY <1>1, <1>5, StreamSent DEF s
<1>17. VenueLogin'
  <2>1. CASE e = "venue"
    BY <1>2, <2>1 DEF VenueLogin
  <2>2. CASE e = "client"
    <3>1. o = "venue"
      BY <2>2, EndsAre DEF o
    <3>2. SUFFICES ASSUME end["venue"].state = "logging_in"
                   PROVE  /\ Stream("venue") = <<>>
                          /\ line[e] \o r.tx # <<>>
                          /\ r.sent[(line[e] \o r.tx)[1]].type = "login_req"
      BY <1>2, <1>15, <2>2, <3>1 DEF VenueLogin
    <3>3. Stream("venue") = <<>> /\ Stream(e) # <<>> /\ s.sent[Stream(e)[1]].type = "login_req"
      BY <2>2, <3>2 DEF IInv, VenueLogin, s
    <3>4. 1 \in 1..Len(Stream(e))
      BY <1>3, <3>3
    <3>5. (line[e] \o r.tx)[1] = Stream(e)[1] /\ Stream(e)[1] \in 1..Len(s.sent)
      BY <1>15, <1>16, <3>4 DEF Longer, SentBy
    <3> QED
      BY <1>15, <3>3, <3>5 DEF Grows, s
  <2> QED
    BY <2>1, <2>2, EndsAre
<1>18. ClientLogin'
  <2>1. CASE e = "client"
    BY <1>2, <2>1 DEF ClientLogin
  <2>2. CASE e = "venue"
    <3>1. o = "client"
      BY <2>2, EndsAre DEF o
    <3>2. SUFFICES ASSUME end["client"].state = "logging_in"
                   PROVE  /\ HasAck(r.sent, line[e] \o r.tx)
                          /\ LoginSafe(r.sent, line[e] \o r.tx, Latest(got["client"]))
      BY <1>2, <1>15, <2>2, <3>1 DEF ClientLogin
    <3>3. HasAck(s.sent, Stream(e)) /\ LoginSafe(s.sent, Stream(e), Latest(got["client"]))
      BY <2>2, <3>2 DEF IInv, ClientLogin, s
    <3>4. Latest(got["client"]) \in Nat /\ Latest(got["client"]) <= given[e]
      BY <1>2, <1>3, <1>5, <3>1 DEF Ordered
    <3> DEFINE p == line[e] \o r.tx
               q == Stream(e)
               least == Latest(got["client"])
               most == given[e]
    <3>5. /\ s \in Sessions /\ Grows(s, r) /\ Outlives(s, r, most)
          /\ q \in Seq(Nat) /\ p \in Seq(Nat) /\ Longer(q, p) /\ SentBy(s, q)
          /\ least \in Nat /\ least <= most /\ HasAck(s.sent, q) /\ LoginSafe(s.sent, q, least)
      BY <1>3, <1>15, <1>16, <3>3, <3>4 DEF s
    <3> HIDE DEF p, q, least, most
    <3>6. HasAck(r.sent, p) /\ LoginSafe(r.sent, p, least)
      BY <3>5, SafeGrows
    <3> QED
      BY <3>6 DEF p, least
  <2> QED
    BY <2>1, <2>2, EndsAre
<1> QED
  BY <1>2, <1>6, <1>7, <1>8, <1>9, <1>10, <1>11, <1>12, <1>13, <1>14, <1>17, <1>18 DEF IInv

LEMMA GiveStep ==
  ASSUME IInv, NEW e \in Ends, Give(e)
  PROVE  IInv'
<1> DEFINE s == end[e]
           r == enqueue(s, Data(given[e] + 1))
<1>1. Types /\ Queues(e) /\ Sent(e, s, given[e])
  BY DEF IInv
<1>2. s \in Sessions /\ given[e] \in Nat /\ Numbers(s) /\ s.rc = "ok"
  BY <1>1, TypesFacts DEF Queues
<1>3. Data(given[e] + 1) \in Frames
  BY <1>2 DEF Data, Frame, Frames, FrameTypes
<1>4. Enqueued(s, Data(given[e] + 1), r)
  BY <1>2, <1>3, EnqueueFacts
<1>5. s.state = "ready" /\ Len(s.tx) < QueueCap
  BY DEF Give
<1> HIDE DEF r, s
<1>6. /\ r \in Sessions /\ Numbers(r) /\ Grows(s, r) /\ r.state = "ready"
      /\ r.expected = s.expected /\ r.rc = "ok"
      /\ Len(r.tx) = Len(s.tx) + 1 /\ \A i \in 1..Len(s.tx) : r.tx[i] = s.tx[i]
  <2>1. Len(s.tx) \in Nat /\ QueueCap \in Nat
    BY <1>2, SessionType, CapAssumption
  <2> QED
    BY <1>2, <1>4, <1>5, <2>1 DEF Enqueued
<1>7. Longer(s.tx, r.tx)
  <2>1. Len(s.tx) \in Nat
    BY <1>2, SessionType
  <2> QED
    BY <1>6, <2>1 DEF Longer
<1>8. Sent(e, r, given[e] + 1) /\ Outlives(s, r, given[e])
  BY <1>1, <1>2, <1>4, DataSent
<1>9. end' = [end EXCEPT ![e] = r]
  BY DEF Give, r, s
<1>10. given' = [given EXCEPT ![e] = given[e] + 1] /\ UNCHANGED <<line, got, told, restarts>>
       /\ UNCHANGED bounds
  BY DEF Give, bounds
<1>11. given'[e] = given[e] + 1 /\ given'[Other(e)] = given[Other(e)] /\ given' \in [Ends -> Nat]
  BY <1>1, <1>2, <1>10, EndsAre DEF Types
<1>12. Types'
  <2>1. end' \in [Ends -> Sessions]
    BY <1>1, <1>6, <1>9, ExceptEnd
  <2> QED
    BY <1>1, <1>10, <1>11, <2>1 DEF Types, bounds
<1>13. given'[e] >= given[e]
  BY <1>2, <1>11
<1> QED
  BY <1>5, <1>6, <1>7, <1>8, <1>9, <1>10, <1>11, <1>12, <1>13, Says DEF s

LEMMA Prefix ==
  ASSUME NEW l \in Seq(Nat), NEW x \in Seq(Nat)
  PROVE  Longer(l, l \o x) /\ l \o x \in Seq(Nat) /\ l \o <<>> = l
<1>1. Len(l) \in Nat /\ Len(x) \in Nat /\ Len(l \o x) = Len(l) + Len(x)
  BY ConcatProperties
<1>2. ASSUME NEW i \in 1..Len(l)
      PROVE  (l \o x)[i] = l[i]
  BY <1>1, ConcatProperties
<1>3. l \o <<>> = l
  BY ConcatEmptySeq
<1> QED
  BY <1>1, <1>2, <1>3, ConcatProperties DEF Longer

\* The connection goes as e sees it; e may have sent and counted something first.
LEMMA Drops ==
  ASSUME IInv, NEW e \in Ends, NEW d \in Sessions,
         end' = [end EXCEPT ![e] = d], UNCHANGED <<given, got, told, restarts>>, Types',
         line'[e] = line[e], line'[Other(e)] \in {line[Other(e)], <<>>},
         Extends(end[e], [d EXCEPT !.tx = end[e].tx], Control(e)),
         d.state = "down", d.tx = <<>>, d.rc = "ok",
         After(end[Other(e)].sent, d.expected, Latest(got[e])),
         restarts = 0 => Passed(end[Other(e)].sent, d.expected, told[e], got[e])
  PROVE  IInv'
<1> DEFINE o == Other(e)
           s == end[e]
           r == [d EXCEPT !.tx = s.tx]
<1>1. Types
  BY DEF IInv
<1>2. /\ end'[e] = d /\ end'[o] = end[o] /\ o \in Ends /\ o # e /\ Other(o) = e
      /\ \A x \in Ends : x = e \/ (x = o /\ Other(x) = e)
  BY <1>1, ExceptEnd
<1>3. /\ s \in Sessions /\ end[o] \in Sessions /\ line[e] \in Seq(Nat) /\ line[o] \in Seq(Nat)
      /\ given[e] \in Nat /\ Latest(got[e]) \in Nat /\ Latest(got[o]) \in Nat
  BY <1>1, <1>2, TypesFacts
<1>4. /\ r \in Sessions /\ r.sent = d.sent /\ r.unsaid = d.unsaid
      /\ Numbers(r) /\ Grows(s, r) /\ Extends(s, r, Control(e))
  <2>1. s.tx \in Seq(Nat)
    BY <1>3, SessionType
  <2> QED
    BY <2>1 DEF Sessions, Extends
<1>5. seqstore_oldest(r) = seqstore_oldest(d)
  BY <1>4 DEF seqstore_oldest
<1>6. /\ Len(s.sent) \in Nat /\ Len(d.sent) \in Nat /\ Len(s.sent) <= Len(d.sent)
      /\ end[o].expected \in Nat
      /\ seqstore_oldest(s) \in Nat /\ seqstore_oldest(d) \in Nat
      /\ seqstore_oldest(s) <= seqstore_oldest(d)
  BY <1>3, <1>4, <1>5, SessionType, OldestType, OldestGrows DEF Grows
<1>7. \A x \in Ends : Queues(x) /\ Sent(x, end[x], given[x]) /\ Ordered(x) /\ Gone(x) /\ Complete(x)
  BY DEF IInv
<1>8. Grows(s, d)
  BY <1>4 DEF Grows
<1> HIDE DEF o, s, r
<1>9. Queues(e)'
  <2>1. \A i \in 1..Len(line[e]) : line[e][i] \in 1..Len(d.sent)
    <3>1. \A i \in 1..Len(line[e]) : line[e][i] \in 1..Len(s.sent)
      BY <1>7 DEF Queues, s
    <3>2. 1..Len(s.sent) \subseteq 1..Len(d.sent)
      BY <1>6
    <3> QED
      BY <3>1, <3>2
  <2>2. Numbers(d)
    BY <1>4, CapAssumption DEF Numbers
  <2>3. Len(line[e]) <= LineCap
    BY <1>7 DEF Queues
  <2> QED
    BY <1>2, <2>1, <2>2, <2>3 DEF Queues
<1>10. Queues(o)'
  <2>1. line'[o] = line[o] \/ line'[o] = <<>>
    BY DEF o
  <2>2. CASE line'[o] = line[o]
    BY <1>2, <1>7, <2>2 DEF Queues
  <2>3. CASE line'[o] = <<>>
    BY <1>2, <1>7, <2>3, CapAssumption DEF Queues
  <2> QED
    BY <2>1, <2>2, <2>3
<1>11. Sent(e, end[e], given[e])' /\ Sent(o, end[o], given[o])'
  <2>1. Sent(e, r, given[e])
    BY <1>3, <1>4, <1>7, SentKept DEF s
  <2>2. Sent(e, d, given[e])
    BY <1>4, <1>5, <2>1 DEF Sent
  <2> QED
    BY <1>2, <1>7, <2>2
<1>12. Ordered(e)'
  BY <1>2, <1>3, <1>7 DEF Ordered, o
<1>13. Ordered(o)'
  <2>1. Latest(got[o]) <= given[e] /\ After(s.sent, end[o].expected, Latest(got[o]))
    BY <1>2, <1>7 DEF Ordered, s
  <2>2. Outlives(s, r, given[e])
    BY <1>3, <1>4, ControlOutlives
  <2>3. After(d.sent, end[o].expected, Latest(got[o]))
    BY <1>3, <1>4, <1>6, <2>1, <2>2 DEF Outlives
  <2> QED
    BY <1>2, <1>3, <2>1, <2>3 DEF Ordered
<1>14. Gone(e)'
  BY <1>2, <1>7 DEF Gone, o
<1>15. Gone(o)'
  <2>1. \A n \in told[o] : n < seqstore_oldest(s) /\ n \in Nat
    BY <1>1, <1>2, <1>7 DEF Gone, s, Types
  <2> QED
    BY <1>2, <1>6, <2>1 DEF Gone
<1>16. Complete(e)'
  BY <1>2 DEF Complete, o
<1>17. Complete(o)'
  <2>1. ASSUME restarts = 0
        PROVE  Passed(d.sent, end[o].expected, told[o], got[o])
    <3>1. Passed(s.sent, end[o].expected, told[o], got[o])
      BY <1>2, <1>7, <2>1 DEF Complete, s
    <3> QED
      BY <1>3, <1>6, <1>8, <3>1, PassedKept
  <2> QED
    BY <1>2, <2>1 DEF Complete
<1>18. /\ Stream(e)' = line[e] /\ Longer(line[e], Stream(e))
       /\ Stream(e) \in Seq(Nat)
  <2>1. Stream(e)' = line[e] \o <<>> /\ line[e] \o <<>> = line[e]
    <3>1. Stream(e)' = line'[e] \o d.tx
      BY <1>2 DEF Stream
    <3> QED
      BY <1>3, <3>1, Prefix
  <2>2. Stream(e) = line[e] \o s.tx /\ s.tx \in Seq(Nat)
    BY <1>3, SessionType DEF Stream, s
  <2>3. Longer(line[e], line[e] \o s.tx) /\ line[e] \o s.tx \in Seq(Nat)
    BY <1>3, <2>2, Prefix
  <2> QED
    BY <2>1, <2>2, <2>3
<1>19. SentBy(s, Stream(e))
  BY <1>1, <1>7, StreamSent DEF s
<1>20. VenueLogin'
  <2>1. CASE e = "venue"
    BY <1>2, <2>1 DEF VenueLogin
  <2>2. CASE e = "client"
    <3>1. o = "venue"
      BY <2>2, EndsAre DEF o
    <3>2. SUFFICES ASSUME end["venue"].state = "logging_in"
                   PROVE  /\ Stream("venue")' = <<>>
                          /\ line[e] # <<>> => d.sent[line[e][1]].type = "login_req"
      BY <1>2, <1>18, <2>2, <3>1 DEF VenueLogin
    <3>3. /\ Stream("venue") = <<>>
          /\ Stream(e) # <<>> => s.sent[Stream(e)[1]].type = "login_req"
      BY <2>2, <3>2 DEF IInv, VenueLogin, s
    <3>4. Stream("venue")' = <<>>
      <4>1. line[o] \o end[o].tx = <<>>
        BY <3>1, <3>3 DEF Stream
      <4>2. line[o] = <<>> /\ end[o].tx = <<>>
        <5>1. end[o].tx \in Seq(Nat)
          BY <1>3, SessionType
        <5> QED
          BY <1>3, <4>1, <5>1
      <4>3. line'[o] = <<>>
        BY <4>2 DEF o
      <4> QED
        BY <1>2, <3>1, <4>1, <4>2, <4>3 DEF Stream
    <3>5. ASSUME line[e] # <<>>
          PROVE  d.sent[line[e][1]].type = "login_req"
      <4>1. 1 \in 1..Len(line[e]) /\ 1 \in 1..Len(Stream(e)) /\ Stream(e) # <<>>
        BY <1>3, <1>18, <3>5 DEF Longer
      <4>2. line[e][1] = Stream(e)[1] /\ Stream(e)[1] \in 1..Len(s.sent)
        BY <1>18, <1>19, <4>1 DEF Longer, SentBy
      <4> QED
        BY <1>8, <3>3, <4>1, <4>2 DEF Grows
    <3> QED
      BY <3>4, <3>5
  <2> QED
    BY <2>1, <2>2, EndsAre
<1>21. ClientLogin'
  <2>1. CASE e = "client"
    BY <1>2, <2>1 DEF ClientLogin
  <2>2. CASE e = "venue"
    <3>1. o = "client"
      BY <2>2, EndsAre DEF o
    <3> DEFINE least == Latest(got["client"])
    <3>2. SUFFICES ASSUME end["client"].state = "logging_in"
                   PROVE  LoginSafe(d.sent, line[e], least)
      BY <1>2, <1>18, <2>2, <3>1 DEF ClientLogin
    <3>3. LoginSafe(s.sent, Stream(e), least)
      BY <2>2, <3>2 DEF IInv, ClientLogin, s
    <3>4. least \in Nat /\ least <= given[e]
      BY <1>2, <1>3, <1>7, <3>1 DEF Ordered
    <3>5. Outlives(s, r, given[e])
      BY <1>3, <1>4, ControlOutlives
    <3>6. LoginSafe(s.sent, line[e], least)
      BY <1>3, <1>18, <3>3, SafePrefix
    <3>7. \A i \in 1..Len(line[e]) : line[e][i] \in 1..Len(s.sent) /\ line[e][i] + 1 \in Nat
      BY <1>7 DEF Queues, s
    <3> HIDE DEF least
    <3>8. \A n \in Nat : After(s.sent, n, least) => After(d.sent, n, least)
      BY <1>4, <3>4, <3>5 DEF Outlives
    <3>9. \A i \in 1..Len(line[e]) : d.sent[line[e][i]] = s.sent[line[e][i]]
      BY <1>8, <3>7 DEF Grows
    <3>10. ASSUME NEW i \in 1..Len(line[e]),
                  \A j \in 1..i - 1 : d.sent[line[e][j]].type # "login_ack"
           PROVE  /\ d.sent[line[e][i]].type # "data"
                  /\ d.sent[line[e][i]].type = "login_ack" => After(d.sent, line[e][i] + 1, least)
      <4>1. 1..i - 1 \subseteq 1..Len(line[e])
        BY <1>3
      <4>2. \A j \in 1..i - 1 : s.sent[line[e][j]].type # "login_ack"
        BY <3>9, <3>10, <4>1
      <4> QED
        BY <3>6, <3>7, <3>8, <3>9, <4>2 DEF LoginSafe
    <3> QED
      BY <3>10 DEF LoginSafe
  <2> QED
    BY <2>1, <2>2, EndsAre
<1> QED
  BY <1>2, <1>9, <1>10, <1>11, <1>12, <1>13, <1>14, <1>15, <1>16, <1>17, <1>20, <1>21 DEF IInv

LEMMA DropFacts ==
  ASSUME NEW s \in Sessions, Numbers(s), NEW r, NEW types, Extends(s, r, types)
  PROVE  LET d == session_drop(r)
         IN  /\ d \in Sessions /\ d.state = "down" /\ d.tx = <<>> /\ d.rc = "ok"
             /\ d.expected = r.expected
             /\ Extends(s, [d EXCEPT !.tx = s.tx], types)
<1> DEFINE d == session_drop(r)
           c == [d EXCEPT !.tx = s.tx]
<1>1. r \in Sessions
  BY DEF Extends
<1>2. /\ d \in Sessions /\ d.state = "down" /\ d.tx = <<>> /\ d.rc = "ok"
      /\ d.expected = r.expected /\ d.sent = r.sent /\ d.unsaid = r.unsaid
  <2>1. <<>> \in Seq(Nat)
    OBVIOUS
  <2>2. d = [r EXCEPT !.state = "down", !.tx = <<>>, !.recovering = FALSE, !.rc = "ok"]
    BY DEF session_drop
  <2> QED
    BY <1>1, <2>1, <2>2 DEF Sessions, States, Codes
<1> HIDE DEF d
<1>3. /\ c \in Sessions /\ c.sent = r.sent /\ c.tx = s.tx /\ c.unsaid = r.unsaid
  BY <1>2, SessionType DEF Sessions
<1> HIDE DEF c
<1>4. /\ Len(s.sent) \in Nat /\ Len(r.sent) \in Nat /\ Len(s.tx) \in Nat
      /\ Len(s.sent) <= Len(r.sent)
  BY <1>1, SessionType DEF Extends, Grows
<1>5. Numbers(c)
  <2>1. 1..Len(s.sent) \subseteq 1..Len(r.sent)
    BY <1>4
  <2>2. \A i \in 1..Len(s.tx) : s.tx[i] \in 1..Len(r.sent)
    BY <2>1 DEF Numbers
  <2>3. c.unsaid \subseteq 1..Len(r.sent)
    BY <1>3 DEF Extends, Numbers
  <2> QED
    BY <1>3, <2>2, <2>3 DEF Numbers
<1>6. seqstore_oldest(c) = seqstore_oldest(r)
  BY <1>3 DEF seqstore_oldest
<1>7. Grows(s, c)
  BY <1>3 DEF Extends, Grows
<1>8. Extends(s, c, types)
  BY <1>3, <1>4, <1>5, <1>6, <1>7 DEF Extends
<1> QED
  BY <1>2, <1>8 DEF d, c

\* A connection that goes while nothing is being said.
LEMMA DropsQuietly ==
  ASSUME IInv, NEW e \in Ends, NEW r \in Sessions, r.sent = end[e].sent, Numbers(r),
         r.expected = end[e].expected, r.unsaid = end[e].unsaid,
         end' = [end EXCEPT ![e] = session_drop(r)],
         UNCHANGED <<given, got, told, restarts>>, drops' \in Nat, beats' \in Nat, connects' \in Nat,
         line' = line \/ line' = [line EXCEPT ![Other(e)] = <<>>]
  PROVE  IInv'
<1> DEFINE s == end[e]
           d == session_drop(r)
           c == [d EXCEPT !.tx = s.tx]
           t == [r EXCEPT !.tx = s.tx]
<1>1. Types /\ s \in Sessions /\ Numbers(s) /\ Other(e) \in Ends /\ Other(e) # e
  BY TypesFacts, EndsAre DEF IInv, Queues
<1>2. t \in Sessions /\ t.sent = s.sent /\ t.tx = s.tx /\ t.unsaid = s.unsaid
  BY <1>1, SessionType DEF Sessions
<1>3. Extends(s, t, Control(e))
  BY <1>1, <1>2, ExtendsNothing
<1>4. session_drop(t) = d
  BY DEF session_drop, Sessions
<1>5. /\ d \in Sessions /\ d.state = "down" /\ d.tx = <<>> /\ d.rc = "ok"
      /\ d.expected = s.expected
      /\ Extends(s, c, Control(e))
  <2>1. t.expected = s.expected
    BY DEF Sessions
  <2> HIDE DEF t, s
  <2> QED
    BY <1>1, <1>3, <1>4, <2>1, DropFacts DEF s
<1> HIDE DEF s, d, t
<1>6. line'[e] = line[e] /\ line'[Other(e)] \in {line[Other(e)], <<>>} /\ line' \in [Ends -> Seq(Nat)]
  <2>1. line \in [Ends -> Seq(Nat)] /\ <<>> \in Seq(Nat)
    BY <1>1 DEF Types
  <2> QED
    BY <1>1, <2>1
<1>7. Types'
  <2>1. end' \in [Ends -> Sessions]
    BY <1>1, <1>5, ExceptEnd DEF d
  <2> QED
    BY <1>1, <1>6, <2>1 DEF Types
<1>8. After(end[Other(e)].sent, d.expected, Latest(got[e]))
  BY <1>5 DEF IInv, Ordered, s
<1>9. restarts = 0 => Passed(end[Other(e)].sent, d.expected, told[e], got[e])
  BY <1>5 DEF IInv, Complete, s
<1>10. end' = [end EXCEPT ![e] = d]
  BY DEF d
<1>11. /\ Extends(end[e], [d EXCEPT !.tx = end[e].tx], Control(e))
       /\ d \in Sessions /\ d.state = "down" /\ d.tx = <<>> /\ d.rc = "ok"
  BY <1>5 DEF s, c
<1> QED
  BY <1>6, <1>7, <1>8, <1>9, <1>10, <1>11, Drops

LEMMA HeartbeatStep ==
  ASSUME IInv, NEW e \in Ends, Heartbeat(e)
  PROVE  IInv'
<1> DEFINE s == end[e]
           r == enqueue(s, Beat)
<1>1. Types /\ Queues(e) /\ Sent(e, s, given[e]) /\ s \in Sessions /\ given[e] \in Nat
      /\ Numbers(s) /\ s.rc = "ok"
  BY TypesFacts DEF IInv, Queues
<1>2. Beat \in Frames /\ Beat.type = "heartbeat"
  BY DEF Beat, Frame, Frames, FrameTypes
<1>3. Enqueued(s, Beat, r)
  BY <1>1, <1>2, EnqueueFacts
<1>4. Extends(s, r, Control(e))
  <2>1. "heartbeat" \in Control(e)
    BY DEF Control
  <2> QED
    BY <1>1, <1>2, <2>1, EnqueueExtends
<1>5. /\ s.state = "ready" /\ UNCHANGED <<line, given, got, told, restarts, drops, connects>>
      /\ end' = [end EXCEPT ![e] = IF r.rc = "ok" THEN r ELSE session_drop(r)]
      /\ beats' = beats + 1
  BY DEF Heartbeat
<1> HIDE DEF r, s
<1>6. /\ r \in Sessions /\ Numbers(r) /\ r.state = "ready" /\ r.expected = s.expected
      /\ r.unsaid = s.unsaid
  BY <1>3, <1>5 DEF Enqueued
<1>7. beats' \in Nat /\ drops' \in Nat /\ connects' \in Nat
  BY <1>1, <1>5 DEF Types
<1>8. CASE r.rc = "ok"
  <2>1. Sent(e, r, given[e]) /\ Outlives(s, r, given[e])
    BY <1>1, <1>4, SentKept, ControlOutlives
  <2>2. end' = [end EXCEPT ![e] = r]
    BY <1>5, <1>8
  <2>3. Types'
    <3>1. end' \in [Ends -> Sessions]
      BY <1>1, <1>6, <2>2, ExceptEnd
    <3> QED
      BY <1>1, <1>5, <1>7, <3>1 DEF Types
  <2>4. Grows(s, r) /\ Longer(s.tx, r.tx)
    BY <1>4 DEF Extends, Longer
  <2>5. given'[e] = given[e] /\ given'[Other(e)] = given[Other(e)] /\ given'[e] >= given[e]
    BY <1>1, <1>5
  <2> QED
    BY <1>1, <1>5, <1>6, <1>8, <2>1, <2>2, <2>3, <2>4, <2>5, Says DEF s
<1>9. CASE r.rc # "ok"
  <2>1. r.sent = s.sent
    BY <1>1, <1>3, <1>9 DEF Enqueued
  <2>2. end' = [end EXCEPT ![e] = session_drop(r)]
    BY <1>5, <1>9
  <2> QED
    BY <1>5, <1>6, <1>7, <2>1, <2>2, DropsQuietly DEF s
<1> QED
  BY <1>8, <1>9

LEMMA CutStep ==
  ASSUME IInv, NEW e \in Ends, Cut(e)
  PROVE  IInv'
<1>1. end[e] \in Sessions /\ Numbers(end[e]) /\ Types
  BY TypesFacts DEF IInv, Queues
<1>2. drops' \in Nat /\ beats' \in Nat /\ connects' \in Nat
  BY <1>1 DEF Cut, Types
<1>3. end' = [end EXCEPT ![e] = session_drop(end[e])] /\ UNCHANGED <<given, got, told, restarts>>
      /\ line' = [line EXCEPT ![Other(e)] = <<>>]
  BY DEF Cut
<1> QED
  BY <1>1, <1>2, <1>3, DropsQuietly

LEMMA EndOfFileStep ==
  ASSUME IInv, NEW e \in Ends, EndOfFile(e)
  PROVE  IInv'
<1>1. end[e] \in Sessions /\ Numbers(end[e]) /\ Types
  BY TypesFacts DEF IInv, Queues
<1>2. drops' \in Nat /\ beats' \in Nat /\ connects' \in Nat
  BY <1>1 DEF EndOfFile, Types, bounds
<1>3. end' = [end EXCEPT ![e] = session_drop(end[e])] /\ UNCHANGED <<given, got, told, restarts>>
      /\ line' = line
  BY DEF EndOfFile, bounds
<1> QED
  BY <1>1, <1>2, <1>3, DropsQuietly

LEMMA PassedOn ==
  ASSUME NEW l \in Seq(Nat), NEW x \in Seq(Nat), x # <<>>
  PROVE  Append(l, Head(x)) \o Tail(x) = l \o x
<1> DEFINE a == Append(l, Head(x))
           y == Tail(x)
<1>1. /\ a \in Seq(Nat) /\ y \in Seq(Nat) /\ Len(l) \in Nat /\ Len(x) \in Nat /\ Len(x) > 0
      /\ Len(a) = Len(l) + 1 /\ Len(y) = Len(x) - 1
      /\ \A i \in 1..Len(l) : a[i] = l[i]
      /\ a[Len(l) + 1] = x[1]
      /\ \A i \in 1..Len(y) : y[i] = x[i + 1]
  OBVIOUS
<1> HIDE DEF a, y
<1>2. /\ a \o y \in Seq(Nat) /\ l \o x \in Seq(Nat)
      /\ Len(a \o y) = Len(l) + Len(x) /\ Len(l \o x) = Len(l) + Len(x)
  <2>1. /\ a \o y \in Seq(Nat) /\ l \o x \in Seq(Nat)
        /\ Len(a \o y) = Len(a) + Len(y) /\ Len(l \o x) = Len(l) + Len(x)
    BY <1>1, ConcatProperties
  <2>2. Len(a) + Len(y) = Len(l) + Len(x)
    BY <1>1
  <2> QED
    BY <2>1, <2>2
<1>3. ASSUME NEW i \in 1..Len(l) + Len(x)
      PROVE  (a \o y)[i] = (l \o x)[i]
  <2>1. CASE i <= Len(l)
    <3>1. (a \o y)[i] = a[i] /\ (l \o x)[i] = l[i]
      BY <1>1, <2>1, ConcatProperties
    <3> QED
      BY <1>1, <2>1, <3>1
  <2>2. CASE i = Len(l) + 1
    <3>1. (a \o y)[i] = a[i] /\ (l \o x)[i] = x[i - Len(l)]
      BY <1>1, <2>2, ConcatProperties
    <3> QED
      BY <1>1, <2>2, <3>1
  <2>3. CASE i > Len(l) + 1
    <3>1. (a \o y)[i] = y[i - (Len(l) + 1)] /\ (l \o x)[i] = x[i - Len(l)]
      <4>1. i \in 1..Len(a) + Len(y) /\ ~(i <= Len(a)) /\ ~(i <= Len(l))
        BY <1>1, <2>3
      <4>2. (a \o y)[i] = y[i - Len(a)]
        BY <1>1, <4>1, ConcatProperties
      <4>3. (l \o x)[i] = x[i - Len(l)]
        BY <1>1, <4>1, ConcatProperties
      <4> QED
        BY <1>1, <4>2, <4>3
    <3>2. i - (Len(l) + 1) \in 1..Len(y) /\ (i - (Len(l) + 1)) + 1 = i - Len(l)
      BY <1>1, <2>3
    <3> QED
      BY <1>1, <3>1, <3>2
  <2>4. i <= Len(l) \/ i = Len(l) + 1 \/ i > Len(l) + 1
    BY <1>1
  <2> QED
    BY <2>1, <2>2, <2>3, <2>4
<1>4. a \o y = l \o x
  BY <1>2, <1>3, SeqEqual
<1> QED
  BY <1>4 DEF a, y

LEMMA WriteStep ==
  ASSUME IInv, NEW e \in Ends, Write(e)
  PROVE  IInv'
<1> DEFINE o == Other(e)
           s == end[e]
           r == [s EXCEPT !.tx = Tail(s.tx)]
<1>1. Types
  BY DEF IInv
<1>2. /\ s \in Sessions /\ line[e] \in Seq(Nat) /\ Len(line[e]) \in Nat /\ s.tx \in Seq(Nat)
      /\ Len(s.tx) \in Nat /\ LineCap \in Nat
  BY <1>1, TypesFacts, SessionType, CapAssumption
<1>3. /\ end' = [end EXCEPT ![e] = r] /\ line' = [line EXCEPT ![e] = Append(line[e], Head(s.tx))]
      /\ s.tx # <<>> /\ Len(line[e]) < LineCap /\ UNCHANGED <<given, got, told, restarts>>
      /\ UNCHANGED bounds /\ s.state # "down"
  BY <1>1 DEF Write, Types, bounds, Up
<1>4. /\ r \in Sessions /\ r.sent = s.sent /\ r.tx = Tail(s.tx) /\ r.state = s.state
      /\ r.expected = s.expected /\ r.rc = s.rc /\ r.unsaid = s.unsaid
  <2>1. Tail(s.tx) \in Seq(Nat)
    BY <1>2, <1>3
  <2> QED
    BY <1>2, <2>1 DEF Sessions
<1> HIDE DEF r, s
<1>5. /\ end' \in [Ends -> Sessions] /\ end'[e] = r /\ end'[o] = end[o] /\ o \in Ends /\ o # e
      /\ \A x \in Ends : x = e \/ x = o
  <2>1. end' = [end EXCEPT ![e] = r] /\ r \in Sessions
    BY <1>3, <1>4
  <2> QED
    BY <1>1, <2>1, ExceptEnd
<1>6. /\ line' \in [Ends -> Seq(Nat)] /\ line'[e] = Append(line[e], Head(s.tx))
      /\ line'[o] = line[o]
  <2>1. Append(line[e], Head(s.tx)) \in Seq(Nat)
    BY <1>2, <1>3
  <2> QED
    BY <1>1, <1>3, <1>5, <2>1 DEF Types
<1> HIDE DEF o
<1>7. Types'
  BY <1>1, <1>3, <1>5, <1>6 DEF Types, bounds
<1>8. \A x \in Ends : end'[x].sent = end[x].sent /\ end'[x].expected = end[x].expected
                      /\ end'[x].state = end[x].state
  BY <1>4, <1>5 DEF s
<1>9. \A x \in Ends : Stream(x)' = Stream(x)
  <2>1. Stream(o)' = Stream(o)
    BY <1>5, <1>6 DEF Stream
  <2>2. Stream(e)' = Append(line[e], Head(s.tx)) \o Tail(s.tx)
    BY <1>4, <1>5, <1>6 DEF Stream
  <2>3. Stream(e)' = Stream(e)
    BY <1>2, <1>3, <2>2, PassedOn DEF Stream, s
  <2> QED
    BY <1>5, <2>1, <2>3
<1>10. \A x \in Ends : Queues(x) /\ Sent(x, end[x], given[x]) /\ Ordered(x) /\ Gone(x) /\ Complete(x)
  BY DEF IInv
<1>11. Queues(e)'
  <2>1. /\ Len(s.tx) <= QueueCap
        /\ \A i \in 1..Len(s.tx) : s.tx[i] \in 1..Len(s.sent)
        /\ \A i \in 1..Len(line[e]) : line[e][i] \in 1..Len(s.sent)
        /\ s.unsaid \subseteq 1..Len(s.sent) /\ s.rc = "ok"
    BY <1>10 DEF Queues, Numbers, s
  <2>2. /\ Len(r.tx) = Len(s.tx) - 1 /\ Head(s.tx) = s.tx[1] /\ 1 \in 1..Len(s.tx)
        /\ \A i \in 1..Len(r.tx) : r.tx[i] = s.tx[i + 1] /\ i + 1 \in 1..Len(s.tx)
    BY <1>2, <1>3, <1>4
  <2>3. Numbers(r)
    BY <1>2, <1>4, <2>1, <2>2, CapAssumption DEF Numbers
  <2>4. /\ Len(line'[e]) = Len(line[e]) + 1 /\ line'[e][Len(line[e]) + 1] = s.tx[1]
        /\ \A i \in 1..Len(line[e]) : line'[e][i] = line[e][i]
        /\ \A i \in 1..Len(line'[e]) : i \in 1..Len(line[e]) \/ i = Len(line[e]) + 1
    <3> DEFINE h == s.tx[1]
    <3>1. h \in Nat /\ line'[e] = Append(line[e], h)
      <4>1. h \in Nat
        BY <1>2, <2>2
      <4> QED
        BY <1>6, <2>2, <4>1
    <3> HIDE DEF h
    <3>2. /\ Len(line'[e]) = Len(line[e]) + 1 /\ line'[e][Len(line[e]) + 1] = h
          /\ \A i \in 1..Len(line[e]) : line'[e][i] = line[e][i]
      BY <1>2, <3>1
    <3> QED
      BY <1>2, <3>2 DEF h
  <2>5. \A i \in 1..Len(line'[e]) : line'[e][i] \in 1..Len(r.sent)
    BY <1>4, <2>1, <2>2, <2>4
  <2>6. Len(line'[e]) <= LineCap
    BY <1>2, <1>3, <2>4
  <2> QED
    BY <1>3, <1>4, <1>5, <2>1, <2>3, <2>5, <2>6 DEF Queues
<1>12. Queues(o)'
  BY <1>5, <1>6, <1>10 DEF Queues
<1>13. \A x \in Ends : seqstore_oldest(end'[x]) = seqstore_oldest(end[x])
  BY <1>8 DEF seqstore_oldest
<1>14. \A x \in Ends : Sent(x, end[x], given[x])'
  BY <1>3, <1>8, <1>10, <1>13 DEF Sent
<1>15. \A x \in Ends : Other(x) \in Ends
  BY EndsAre
<1>16. \A x \in Ends : Ordered(x)' /\ Gone(x)' /\ Complete(x)'
  BY <1>3, <1>8, <1>10, <1>13, <1>15 DEF Ordered, Gone, Complete
<1>17. "client" \in Ends /\ "venue" \in Ends
  BY EndsAre
<1>18. VenueLogin' /\ ClientLogin'
  BY <1>3, <1>8, <1>9, <1>17 DEF IInv, VenueLogin, ClientLogin
<1> QED
  BY <1>5, <1>7, <1>11, <1>12, <1>14, <1>16, <1>18 DEF IInv

LEMMA ConnectStep ==
  ASSUME IInv, Connect
  PROVE  IInv'
<1> DEFINE s == [end["client"] EXCEPT !.state = "logging_in"]
           c == enqueue(s, LoginReq)
           v == [end["venue"] EXCEPT !.state = "logging_in"]
<1>1. Types /\ "client" \in Ends /\ "venue" \in Ends /\ Ends = {"client", "venue"}
      /\ Other("client") = "venue" /\ Other("venue") = "client"
  BY EndsAre DEF IInv
<1>2. /\ end' = [e \in Ends |-> IF e = "client" THEN c ELSE v]
      /\ line' = [e \in Ends |-> <<>>] /\ connects' = connects + 1
      /\ UNCHANGED <<given, got, told, drops, beats, restarts>>
      /\ end["client"].state = "down" /\ end["venue"].state = "down"
  <2>1. \A e \in Ends : (LET t == [end[e] EXCEPT !.state = "logging_in"]
                         IN  IF e = "client" THEN enqueue(t, LoginReq) ELSE t)
                        = IF e = "client" THEN c ELSE v
    BY <1>1
  <2>2. end' = [e \in Ends |-> IF e = "client" THEN c ELSE v]
    BY <2>1 DEF Connect
  <2> QED
    BY <1>1, <2>2 DEF Connect, Up
<1>3. /\ \A e \in Ends : end[e] \in Sessions /\ Numbers(end[e]) /\ end[e].rc = "ok" /\ end[e].tx = <<>>
  BY <1>1, <1>2, TypesFacts DEF IInv, Queues
<1>4. /\ s \in Sessions /\ s.sent = end["client"].sent /\ s.tx = <<>> /\ s.rc = "ok"
      /\ s.unsaid = end["client"].unsaid /\ s.expected = end["client"].expected
      /\ s.state = "logging_in" /\ Numbers(s)
  BY <1>1, <1>3 DEF Sessions, States, Numbers
<1>5. /\ v \in Sessions /\ v.sent = end["venue"].sent /\ v.tx = <<>> /\ v.rc = "ok"
      /\ v.unsaid = end["venue"].unsaid /\ v.expected = end["venue"].expected
      /\ v.state = "logging_in" /\ Numbers(v)
  BY <1>1, <1>3 DEF Sessions, States, Numbers
<1>6. LoginReq \in Frames /\ LoginReq.type = "login_req"
  BY DEF LoginReq, Frame, Frames, FrameTypes
<1>7. Enqueued(s, LoginReq, c)
  BY <1>4, <1>6, EnqueueFacts
<1>8. Extends(s, c, Control("client"))
  <2>1. "login_req" \in Control("client")
    BY DEF Control
  <2> QED
    BY <1>4, <1>6, <2>1, EnqueueExtends
<1> HIDE DEF s, c, v
<1>9. /\ c \in Sessions /\ Numbers(c) /\ c.rc = "ok" /\ c.state = "logging_in"
      /\ c.expected = s.expected /\ Len(c.tx) = 1 /\ c.tx[1] \in 1..Len(c.sent)
      /\ c.sent[c.tx[1]] = LoginReq /\ Grows(s, c)
  <2>1. Len(s.tx) = 0 /\ Len(s.sent) \in Nat
    BY <1>4, SessionType
  <2>2. Len(s.tx) < QueueCap
    BY <2>1, CapAssumption
  <2>3. QueueCap \in Nat
    BY CapAssumption
  <2> QED
    BY <1>4, <1>7, <2>1, <2>2, <2>3 DEF Enqueued
<1>10. end'["client"] = c /\ end'["venue"] = v /\ line'["client"] = <<>> /\ line'["venue"] = <<>>
  BY <1>1, <1>2
<1>11. Types'
  <2>1. end' \in [Ends -> Sessions] /\ line' \in [Ends -> Seq(Nat)]
    BY <1>2, <1>5, <1>9
  <2> QED
    BY <1>1, <1>2, <2>1 DEF Types
<1>12. \A x \in Ends : Queues(x) /\ Sent(x, end[x], given[x]) /\ Ordered(x) /\ Gone(x) /\ Complete(x)
  BY DEF IInv
<1>13. Queues("client")' /\ Queues("venue")'
  BY <1>5, <1>9, <1>10, CapAssumption DEF Queues
<1>14. /\ given["client"] \in Nat /\ given["venue"] \in Nat
       /\ Latest(got["client"]) \in Nat /\ Latest(got["venue"]) \in Nat
       /\ end["venue"].expected \in Nat /\ end["client"].expected \in Nat
       /\ seqstore_oldest(s) = seqstore_oldest(end["client"])
       /\ seqstore_oldest(v) = seqstore_oldest(end["venue"])
       /\ seqstore_oldest(s) \in Nat /\ seqstore_oldest(c) \in Nat
       /\ seqstore_oldest(s) <= seqstore_oldest(c)
  <2>1. /\ seqstore_oldest(s) = seqstore_oldest(end["client"])
        /\ seqstore_oldest(v) = seqstore_oldest(end["venue"])
    BY <1>4, <1>5 DEF seqstore_oldest
  <2> QED
    BY <1>1, <1>3, <1>4, <1>9, <2>1, TypesFacts, SessionType, OldestType, OldestGrows
<1>15. Sent("client", end["client"], given["client"])'
  <2>1. Sent("client", s, given["client"])
    BY <1>1, <1>4, <1>12, <1>14 DEF Sent
  <2> QED
    BY <1>1, <1>2, <1>4, <1>8, <1>10, <1>14, <2>1, SentKept
<1>16. Sent("venue", end["venue"], given["venue"])'
  <2>1. Sent("venue", v, given["venue"])
    BY <1>1, <1>5, <1>12, <1>14 DEF Sent
  <2> QED
    BY <1>2, <1>10, <2>1
<1>17. Ordered("client")'
  BY <1>1, <1>2, <1>4, <1>5, <1>9, <1>10, <1>12 DEF Ordered
<1>18. Ordered("venue")'
  <2>1. Latest(got["venue"]) <= given["client"] /\ After(s.sent, v.expected, Latest(got["venue"]))
    BY <1>1, <1>4, <1>5, <1>12 DEF Ordered
  <2>2. Outlives(s, c, given["client"])
    BY <1>1, <1>4, <1>8, ControlOutlives
  <2>3. After(c.sent, v.expected, Latest(got["venue"]))
    BY <1>5, <1>14, <2>1, <2>2 DEF Outlives
  <2> QED
    BY <1>1, <1>2, <1>10, <2>1, <2>3 DEF Ordered
<1>19. Gone("client")'
  BY <1>1, <1>2, <1>10, <1>12, <1>14 DEF Gone
<1>20. Gone("venue")'
  <2>1. \A n \in told["venue"] : n \in Nat /\ n < seqstore_oldest(s)
    BY <1>1, <1>12, <1>14 DEF Gone, Types
  <2> QED
    BY <1>1, <1>2, <1>10, <1>14, <2>1 DEF Gone
<1>21. Complete("client")'
  BY <1>1, <1>2, <1>4, <1>5, <1>9, <1>10, <1>12 DEF Complete
<1>22. Complete("venue")'
  <2>1. ASSUME restarts = 0
        PROVE  Passed(c.sent, v.expected, told["venue"], got["venue"])
    <3>1. Passed(s.sent, v.expected, told["venue"], got["venue"])
      BY <1>1, <1>4, <1>5, <1>12, <2>1 DEF Complete
    <3> QED
      BY <1>4, <1>5, <1>9, <1>14, <3>1, PassedKept
  <2> QED
    BY <1>1, <1>2, <1>10, <2>1 DEF Complete
<1>23. Stream("client")' = c.tx /\ Stream("venue")' = <<>> /\ c.tx # <<>>
  <2>1. c.tx \in Seq(Nat) /\ Len(c.tx) = 1
    BY <1>9, SessionType
  <2>2. <<>> \o c.tx = c.tx /\ <<>> \o <<>> = <<>>
    BY <2>1, ConcatEmptySeq
  <2>3. Stream("client")' = line'["client"] \o c.tx /\ Stream("venue")' = line'["venue"] \o v.tx
    BY <1>10 DEF Stream
  <2>4. c.tx # <<>>
    <3>1. Len(<<>>) = 0
      BY EmptySeq
    <3>2. \A q : Len(q) = 1 => q # <<>>
      BY <3>1
    <3> QED
      BY <2>1, <3>2, Zenon
  <2>5. Stream("client")' = <<>> \o c.tx /\ Stream("venue")' = <<>> \o <<>>
    BY <1>5, <1>10, <2>3
  <2> QED
    BY <2>2, <2>4, <2>5
<1>24. VenueLogin'
  BY <1>6, <1>9, <1>10, <1>23 DEF VenueLogin
<1>25. ClientLogin'
  BY <1>5, <1>10, <1>23 DEF ClientLogin, LoginSafe
<1> QED
  BY <1>1, <1>11, <1>13, <1>15, <1>16, <1>17, <1>18, <1>19, <1>20, <1>21, <1>22, <1>24, <1>25 DEF IInv

LEMMA ExtendsMore ==
  ASSUME NEW s, NEW r, NEW types, NEW more, types \subseteq more, Extends(s, r, types)
  PROVE  Extends(s, r, more)
BY DEF Extends

LEMMA StreamHead ==
  ASSUME NEW l \in Seq(Nat), NEW x \in Seq(Nat), l # <<>>
  PROVE  /\ l \o x # <<>> /\ (l \o x)[1] = l[1] /\ Head(l) = l[1] /\ 1 \in 1..Len(l)
         /\ Tail(l \o x) = Tail(l) \o x /\ Tail(l) \in Seq(Nat)
         /\ Len(Tail(l)) = Len(l) - 1 /\ Len(l) \in Nat
         /\ \A i \in 1..Len(Tail(l)) : Tail(l)[i] = l[i + 1] /\ i + 1 \in 1..Len(l)
<1> DEFINE t == Tail(l)
<1>1. /\ t \in Seq(Nat) /\ Len(l) \in Nat /\ Len(l) > 0 /\ Len(t) = Len(l) - 1 /\ Len(x) \in Nat
      /\ \A i \in 1..Len(t) : t[i] = l[i + 1] /\ i + 1 \in 1..Len(l)
      /\ Head(l) = l[1] /\ 1 \in 1..Len(l)
  OBVIOUS
<1> HIDE DEF t
<1> DEFINE q == l \o x
           p == t \o x
<1>2. /\ q \in Seq(Nat) /\ p \in Seq(Nat) /\ Len(q) = Len(l) + Len(x) /\ Len(p) = Len(t) + Len(x)
      /\ \A i \in 1..Len(l) + Len(x) : q[i] = IF i <= Len(l) THEN l[i] ELSE x[i - Len(l)]
      /\ \A i \in 1..Len(t) + Len(x) : p[i] = IF i <= Len(t) THEN t[i] ELSE x[i - Len(t)]
  BY <1>1, ConcatProperties
<1> HIDE DEF q, p
<1>3. q # <<>> /\ q[1] = l[1]
  <2>1. Len(q) > 0 /\ 1 \in 1..Len(l) + Len(x) /\ 1 <= Len(l)
    BY <1>1, <1>2
  <2> QED
    BY <1>2, <2>1, EmptySeq
<1>4. Tail(q) \in Seq(Nat) /\ Len(Tail(q)) = Len(p) /\ \A i \in 1..Len(p) : Tail(q)[i] = q[i + 1]
  BY <1>1, <1>2, <1>3
<1>5. ASSUME NEW i \in 1..Len(p)
      PROVE  q[i + 1] = p[i]
  <2>1. i \in 1..Len(t) + Len(x) /\ i + 1 \in 1..Len(l) + Len(x)
        /\ (i + 1) - Len(l) = i - Len(t)
    BY <1>1, <1>2
  <2>2. CASE i <= Len(t)
    <3>1. i \in 1..Len(t) /\ i + 1 <= Len(l)
      BY <1>1, <2>1, <2>2
    <3> QED
      BY <1>1, <1>2, <2>1, <2>2, <3>1
  <2>3. CASE ~(i <= Len(t))
    <3>1. ~(i + 1 <= Len(l))
      BY <1>1, <2>1, <2>3
    <3> QED
      BY <1>2, <2>1, <2>3, <3>1
  <2> QED
    BY <2>2, <2>3
<1>6. Tail(q) = p
  BY <1>2, <1>4, <1>5, SeqEqual
<1> QED
  BY <1>1, <1>3, <1>6 DEF q, p, t

LEMMA PassedLess ==
  ASSUME NEW sent, Len(sent) \in Nat, NEW expected \in Nat, NEW less \in Nat, less <= expected,
         NEW gone, NEW up, Passed(sent, expected, gone, up)
  PROVE  Passed(sent, less, gone, up)
BY DEF Passed

\* One number further: it is no message, or it is accounted for.
LEMMA PassedOne ==
  ASSUME NEW sent, Len(sent) \in Nat, NEW n \in 1..Len(sent), NEW gone, NEW up, NEW more,
         Passed(sent, n, gone, up), ToSet(up) \subseteq ToSet(more),
         sent[n].type = "data" => sent[n].arg \in ToSet(more)
  PROVE  Passed(sent, n + 1, gone, more)
<1> SUFFICES ASSUME NEW m \in 1..Len(sent), sent[m].type = "data", m < n + 1
             PROVE  m \in gone \/ sent[m].arg \in ToSet(more)
  BY DEF Passed
<1>1. CASE m < n
  BY <1>1 DEF Passed
<1>2. CASE m = n
  BY <1>2
<1> QED
  BY <1>1, <1>2

\* Numbers that are given up are passed.
LEMMA PassedGone ==
  ASSUME NEW sent, Len(sent) \in Nat, NEW expected \in Nat, NEW next \in Nat, next <= Len(sent) + 1,
         NEW gone, NEW up, Passed(sent, expected, gone, up)
  PROVE  Passed(sent, next, gone \cup expected .. next - 1, up)
BY DEF Passed

LEMMA ToSetAppend ==
  ASSUME NEW q \in Seq(Nat), NEW a \in Nat
  PROVE  ToSet(q) \subseteq ToSet(Append(q, a)) /\ a \in ToSet(Append(q, a))
<1> DEFINE p == Append(q, a)
<1>1. /\ p \in Seq(Nat) /\ Len(p) = Len(q) + 1 /\ p[Len(q) + 1] = a /\ Len(q) \in Nat
      /\ \A i \in 1..Len(q) : p[i] = q[i]
      /\ DOMAIN p = 1..Len(p) /\ DOMAIN q = 1..Len(q)
  OBVIOUS
<1> HIDE DEF p
<1>2. ToSet(q) \subseteq ToSet(p)
  <2> SUFFICES ASSUME NEW i \in 1..Len(q)
               PROVE  q[i] \in ToSet(p)
    BY <1>1 DEF ToSet
  <2>1. i \in 1..Len(p) /\ p[i] = q[i]
    BY <1>1
  <2> QED
    BY <1>1, <2>1 DEF ToSet
<1>3. a \in ToSet(p)
  <2>1. Len(q) + 1 \in 1..Len(p)
    BY <1>1
  <2> QED
    BY <1>1, <2>1 DEF ToSet
<1> QED
  BY <1>2, <1>3 DEF p

\* What e reads: the frame, what is known of it and what e makes of it.
Reads(e, n, f, r) ==
  /\ n \in 1..Len(end[Other(e)].sent) /\ n \in Nat \ {0} /\ f = end[Other(e)].sent[n] /\ f \in Frames
  /\ line[Other(e)] # <<>> /\ n = line[Other(e)][1] /\ n = Stream(Other(e))[1]
  /\ Stream(Other(e)) # <<>> /\ end[e].state # "down"
  /\ Reaction(end[e], n, f, r) /\ Extends(end[e], r, Control(e))
  /\ f.type = "gap_fill" => f.arg <= seqstore_oldest(end[Other(e)])
  /\ f.type = "data" => f.arg \in 1..given[Other(e)] /\ end[e].state = "ready"
  /\ e = "client" => f.type # "login_req"
  /\ e = "venue" => f.type # "login_ack"
  /\ e = "venue" /\ end[e].state = "logging_in" => f.type = "login_req" /\ Stream(e) = <<>>
  /\ f.type = "login_ack" /\ end[e].state = "logging_in" =>
       After(end[Other(e)].sent, n + 1, Latest(got[e]))

LEMMA ReadKnows ==
  ASSUME IInv, NEW e \in Ends, Up(e), line[Other(e)] # <<>>
  PROVE  LET n == Head(line[Other(e)])
             f == end[Other(e)].sent[n]
         IN  Reads(e, n, f, handle_frame(count_frame(end[e], n), n, f))
<1> DEFINE o == Other(e)
           s == end[e]
           n == Head(line[o])
           f == end[o].sent[n]
           r == handle_frame(count_frame(s, n), n, f)
           q == Stream(o)
<1>1. /\ Types /\ o \in Ends /\ s \in Sessions /\ end[o] \in Sessions /\ Numbers(s) /\ s.rc = "ok"
      /\ line[o] \in Seq(Nat) /\ end[o].tx \in Seq(Nat) /\ q \in Seq(Nat) /\ Other(o) = e
      /\ Queues(o) /\ Sent(o, end[o], given[o])
  BY EndsAre, TypesFacts, SessionType DEF IInv, Queues
<1>2. /\ n = line[o][1] /\ 1 \in 1..Len(line[o]) /\ q # <<>> /\ q[1] = n
  BY <1>1, StreamHead DEF Stream
<1>3. n \in 1..Len(end[o].sent) /\ n \in Nat \ {0}
  <2>1. line[o][1] \in 1..Len(end[o].sent)
    BY <1>1, <1>2 DEF Queues
  <2> QED
    BY <1>2, <2>1
<1>4. f \in Frames
  BY <1>1, <1>3, SessionType
<1>5. /\ f.type = "resend_req" => f.arg >= 1
      /\ f.type = "gap_fill" => f.arg <= seqstore_oldest(end[o])
      /\ f.type = "data" => f.arg \in 1..given[o]
      /\ f.type # (IF o = "client" THEN "login_ack" ELSE "login_req")
  BY <1>1, <1>3 DEF Sent
<1>6. /\ e = "client" => o = "venue" /\ f.type # "login_req"
      /\ e = "venue" => o = "client" /\ f.type # "login_ack"
  BY <1>5, EndsAre
<1> HIDE DEF f, n
<1>7. Reaction(s, n, f, r)
  BY <1>1, <1>3, <1>4, <1>5, ReadFacts
<1> HIDE DEF r, q
<1>8. Extends(s, r, Control(e))
  <2>1. Answers(f) \subseteq Control(e)
    BY <1>6 DEF Answers, Control
  <2> QED
    BY <1>7, <2>1, ExtendsMore DEF Reaction
<1>9. s.state \in {"logging_in", "ready"}
  BY <1>1, SessionType DEF Up, States
<1>10. e = "venue" /\ s.state = "logging_in" => f.type = "login_req" /\ Stream(e) = <<>>
  BY <1>2, <1>6 DEF IInv, VenueLogin, q, f
<1>11. e = "client" /\ s.state = "logging_in" =>
          /\ f.type # "data"
          /\ f.type = "login_ack" => After(end[o].sent, n + 1, Latest(got[e]))
  <2> SUFFICES ASSUME e = "client", s.state = "logging_in"
               PROVE  /\ f.type # "data"
                      /\ f.type = "login_ack" => After(end[o].sent, n + 1, Latest(got[e]))
    OBVIOUS
  <2>1. LoginSafe(end[o].sent, q, Latest(got[e]))
    BY <1>6 DEF IInv, ClientLogin, q
  <2>2. 1 \in 1..Len(q) /\ 1..1 - 1 = {}
    BY <1>1, <1>2
  <2> QED
    BY <1>2, <2>1, <2>2 DEF LoginSafe, f
<1>12. Reads(e, n, f, r)
  <2>1. f.type = "data" => s.state = "ready"
    BY <1>9, <1>10, <1>11, EndsAre
  <2>2. f.type = "login_ack" /\ s.state = "logging_in" =>
          After(end[o].sent, n + 1, Latest(got[e]))
    BY <1>6, <1>11, EndsAre
  <2> QED
    BY <1>2, <1>3, <1>4, <1>5, <1>6, <1>7, <1>8, <1>10, <2>1, <2>2 DEF Reads, Up, f, q
<1> QED
  BY <1>12 DEF n, f, r

\* What e has handed up and given up when it has taken the frame.
HandedUp(e, n, f) ==
  IF f.type = "data" /\ n = end[e].expected THEN Append(got[e], f.arg) ELSE got[e]
GivenUp(e, n, f) ==
  told[e] \cup (IF f.type = "gap_fill" THEN Moved(end[e], n) .. f.arg - 1 ELSE {})

\* Whatever the number expected has moved past is accounted for, and what is
\* still to come is later than what was handed up.
Accounted(e, sent, expected, up, gone) ==
  /\ After(sent, expected, Latest(up)) /\ Latest(up) <= given[Other(e)]
  /\ restarts = 0 => Passed(sent, expected, gone, up)

LEMMA ReadMoves ==
  ASSUME IInv, NEW e \in Ends, NEW n, NEW f, NEW r, Reads(e, n, f, r)
  PROVE  /\ r.rc # "ok" => Accounted(e, end[Other(e)].sent, r.expected, got[e], told[e])
         /\ r.rc = "ok" =>
              Accounted(e, end[Other(e)].sent, r.expected, HandedUp(e, n, f), GivenUp(e, n, f))
         /\ HandedUp(e, n, f) \in Seq(Nat) /\ GivenUp(e, n, f) \subseteq Nat
         /\ \A k \in GivenUp(e, n, f) : k < seqstore_oldest(end[Other(e)])
<1> DEFINE o == Other(e)
           s == end[e]
           sent == end[o].sent
           x == Moved(s, n)
           more == IF f.type = "data" /\ n = s.expected THEN Append(got[e], f.arg) ELSE got[e]
           gone == told[e] \cup (IF f.type = "gap_fill" THEN x .. f.arg - 1 ELSE {})
<1>1. /\ Types /\ o \in Ends /\ s \in Sessions /\ end[o] \in Sessions /\ got[e] \in Seq(Nat)
      /\ given[o] \in Nat /\ Latest(got[e]) \in Nat /\ told[e] \subseteq Nat
      /\ Sent(o, end[o], given[o]) /\ Ordered(e) /\ Gone(e) /\ Complete(e) /\ Queues(e)
  BY EndsAre, TypesFacts DEF IInv
<1>2. /\ n \in 1..Len(sent) /\ n \in Nat \ {0} /\ f = sent[n] /\ f \in Frames /\ f.arg \in Nat
      /\ Reaction(s, n, f, r)
      /\ f.type = "gap_fill" => f.arg <= seqstore_oldest(end[o])
      /\ f.type = "data" => f.arg \in 1..given[o] /\ s.state = "ready"
      /\ f.type = "login_ack" /\ s.state = "logging_in" => After(sent, n + 1, Latest(got[e]))
  BY DEF Reads, Frames
<1>3. /\ s.expected \in Nat \ {0} /\ x \in Nat \ {0} /\ Len(sent) \in Nat /\ r.expected \in Nat \ {0}
      /\ x >= s.expected /\ (x = n + 1 \/ n # s.expected)
  <2>1. r \in Sessions
    BY <1>2 DEF Reaction, Extends
  <2> QED
    BY <1>1, <1>2, <2>1, SessionType DEF Moved
<1>4. seqstore_oldest(end[o]) \in Nat /\ seqstore_oldest(end[o]) <= Len(sent)
  BY <1>1, <1>2, <1>3, OldestType
<1>5. \A m \in 1..Len(sent) : sent[m].arg \in Nat
  BY <1>1, SessionType
<1> HIDE DEF o, s, sent, x
<1>6. Latest(got[e]) <= given[o] /\ After(sent, s.expected, Latest(got[e]))
  BY <1>1 DEF Ordered, o, s, sent
<1>7. After(sent, x, Latest(got[e]))
  BY <1>3, <1>6 DEF After
<1>8. \/ r.expected = x
      \/ f.type = "gap_fill" /\ r.rc = "ok" /\ r.expected = f.arg /\ x < f.arg
      \/ f.type = "login_ack" /\ s.state = "logging_in" /\ r.expected = n + 1 /\ n + 1 < x
  BY <1>2 DEF Reaction, x
<1>9. After(sent, r.expected, Latest(got[e]))
  <2>1. CASE r.expected = x
    BY <1>7, <2>1
  <2>2. CASE r.expected = f.arg /\ x < f.arg
    BY <1>2, <1>3, <1>7, <2>2 DEF After
  <2>3. CASE f.type = "login_ack" /\ s.state = "logging_in" /\ r.expected = n + 1
    BY <1>2, <2>3
  <2> QED
    BY <1>8, <2>1, <2>2, <2>3
<1>10. CASE r.rc # "ok"
  <2>1. ASSUME restarts = 0
        PROVE  Passed(sent, r.expected, told[e], got[e])
    <3>1. Passed(sent, s.expected, told[e], got[e])
      BY <1>1, <2>1 DEF Complete, o, s, sent
    <3>2. n = s.expected => f.type # "data"
      BY <1>2, <1>10 DEF Reaction
    <3>3. Passed(sent, x, told[e], got[e])
      <4>1. CASE n = s.expected
        <5>1. Passed(sent, n + 1, told[e], got[e])
          BY <1>2, <1>3, <3>1, <3>2, <4>1, PassedOne
        <5> QED
          BY <1>3, <4>1, <5>1
      <4>2. CASE n # s.expected
        BY <3>1, <4>2 DEF x, Moved
      <4> QED
        BY <4>1, <4>2
    <3>4. r.expected <= x
      BY <1>2, <1>3, <1>8, <1>10
    <3> QED
      BY <1>3, <3>3, <3>4, PassedLess
  <2>2. more \in Seq(Nat)
    BY <1>1, <1>2
  <2>3. gone \subseteq Nat /\ \A k \in gone : k < seqstore_oldest(end[o])
    <3>1. \A k \in told[e] : k < seqstore_oldest(end[o]) /\ k \in Nat
      BY <1>1 DEF Gone, o
    <3>2. \A k \in x .. f.arg - 1 : f.type = "gap_fill" => k \in Nat /\ k < seqstore_oldest(end[o])
      BY <1>2, <1>3, <1>4
    <3> QED
      BY <3>1, <3>2
  <2> HIDE DEF more, gone
  <2> QED
    BY <1>6, <1>9, <1>10, <2>1, <2>2, <2>3
       DEF Accounted, HandedUp, GivenUp, o, s, sent, x, more, gone
<1>11. CASE r.rc = "ok"
  <2>1. more \in Seq(Nat)
    BY <1>1, <1>2
  <2>2. gone \subseteq Nat /\ \A k \in gone : k < seqstore_oldest(end[o])
    <3>1. \A k \in told[e] : k < seqstore_oldest(end[o]) /\ k \in Nat
      BY <1>1 DEF Gone, o
    <3>2. \A k \in x .. f.arg - 1 : f.type = "gap_fill" => k \in Nat /\ k < seqstore_oldest(end[o])
      BY <1>2, <1>3, <1>4
    <3> QED
      BY <3>1, <3>2
  <2>3. After(sent, r.expected, Latest(more)) /\ Latest(more) <= given[o]
    <3>1. CASE f.type = "data" /\ n = s.expected
      <4>1. Latest(more) = f.arg
        <5>1. more = Append(got[e], f.arg)
          BY <3>1
        <5>2. Len(more) = Len(got[e]) + 1 /\ more[Len(got[e]) + 1] = f.arg /\ Len(got[e]) \in Nat
          BY <1>1, <1>2, <5>1
        <5>3. more # <<>>
          BY <1>1, <1>2, <5>1
        <5> HIDE DEF more
        <5> QED
          BY <5>2, <5>3 DEF Latest
      <4>2. r.expected = n + 1
        BY <1>3, <1>8, <3>1
      <4>3. After(sent, n + 1, f.arg)
        <5> SUFFICES ASSUME NEW m \in 1..Len(sent), m >= n + 1, sent[m].type = "data"
                     PROVE  sent[m].arg > f.arg
          BY DEF After
        <5>1. n < m
          BY <1>2
        <5>2. sent[n].arg < sent[m].arg
          BY <1>1, <1>2, <3>1, <5>1 DEF Sent, sent
        <5> QED
          BY <1>2, <1>5, <5>2
      <4>4. f.arg <= given[o]
        BY <1>1, <1>2, <3>1
      <4> HIDE DEF more
      <4> QED
        BY <4>1, <4>2, <4>3, <4>4
    <3>2. CASE ~(f.type = "data" /\ n = s.expected)
      <4>1. more = got[e]
        BY <3>2
      <4> QED
        BY <1>6, <1>9, <4>1
    <3> QED
      BY <3>1, <3>2
  <2>4. ASSUME restarts = 0
        PROVE  Passed(sent, r.expected, gone, more)
    <3>1. Passed(sent, s.expected, told[e], got[e])
      BY <1>1, <2>4 DEF Complete, o, s, sent
    <3>2. ToSet(got[e]) \subseteq ToSet(more)
          /\ (f.type = "data" /\ n = s.expected => f.arg \in ToSet(more))
      BY <1>1, <1>2, ToSetAppend
    <3>3. Passed(sent, x, told[e], more)
      <4>1. CASE n = s.expected
        <5> HIDE DEF more
        <5>1. Passed(sent, n + 1, told[e], more)
          BY <1>2, <1>3, <3>1, <3>2, <4>1, PassedOne
        <5> QED
          BY <1>3, <4>1, <5>1
      <4>2. CASE n # s.expected
        BY <3>1, <4>2 DEF x, Moved
      <4> QED
        BY <4>1, <4>2
    <3>4. told[e] \subseteq gone
      OBVIOUS
    <3> HIDE DEF more
    <3>5. CASE r.expected = f.arg /\ x < f.arg /\ f.type = "gap_fill"
      <4>1. Passed(sent, f.arg, told[e] \cup x .. f.arg - 1, more)
        <5>1. f.arg <= Len(sent) + 1
          BY <1>2, <1>3, <1>4, <3>5
        <5> QED
          BY <1>2, <1>3, <3>3, <5>1, PassedGone
      <4> QED
        BY <3>5, <4>1
    <3>6. CASE r.expected <= x
      <4>1. Passed(sent, r.expected, told[e], more)
        BY <1>3, <3>3, <3>6, PassedLess
      <4> HIDE DEF gone
      <4> QED
        BY <3>4, <4>1 DEF Passed
    <3> QED
      BY <1>2, <1>3, <1>8, <3>5, <3>6
  <2> HIDE DEF more, gone
  <2> QED
    BY <1>11, <2>1, <2>2, <2>3, <2>4
       DEF Accounted, HandedUp, GivenUp, o, s, sent, x, more, gone
<1> QED
  BY <1>10, <1>11

\* A read that fails.
LEMMA ReadFails ==
  ASSUME IInv, NEW e \in Ends, NEW n, NEW f, NEW r, Reads(e, n, f, r), r.rc # "ok",
         end' = [end EXCEPT ![e] = session_drop(r)], line' = [line EXCEPT ![Other(e)] = <<>>],
         UNCHANGED <<given, got, told, drops, beats, connects, restarts>>
  PROVE  IInv'
<1> DEFINE d == session_drop(r)
<1>1. Types /\ end[e] \in Sessions /\ Numbers(end[e]) /\ Other(e) \in Ends /\ Other(e) # e
  BY TypesFacts, EndsAre DEF IInv, Queues
<1>2. Extends(end[e], r, Control(e))
  BY DEF Reads
<1>3. /\ d \in Sessions /\ d.state = "down" /\ d.tx = <<>> /\ d.rc = "ok" /\ d.expected = r.expected
      /\ Extends(end[e], [d EXCEPT !.tx = end[e].tx], Control(e))
  BY <1>1, <1>2, DropFacts
<1>4. /\ After(end[Other(e)].sent, r.expected, Latest(got[e]))
      /\ restarts = 0 => Passed(end[Other(e)].sent, r.expected, told[e], got[e])
  BY ReadMoves DEF Accounted
<1> HIDE DEF d
<1>5. line'[e] = line[e] /\ line'[Other(e)] \in {line[Other(e)], <<>>} /\ line' \in [Ends -> Seq(Nat)]
  <2>1. line \in [Ends -> Seq(Nat)] /\ <<>> \in Seq(Nat)
    BY <1>1 DEF Types
  <2> QED
    BY <1>1, <2>1
<1>6. end' = [end EXCEPT ![e] = d]
  BY DEF d
<1>7. Types'
  <2>1. end' \in [Ends -> Sessions]
    BY <1>1, <1>3, <1>6, ExceptEnd
  <2> QED
    BY <1>1, <1>5, <2>1 DEF Types
<1> QED
  BY <1>3, <1>4, <1>5, <1>6, <1>7, Drops

\* A read that is taken.
LEMMA ReadTakes ==
  ASSUME IInv, NEW e \in Ends, NEW n, NEW f, NEW r, Reads(e, n, f, r), r.rc = "ok",
         end' = [end EXCEPT ![e] = r],
         line' = [line EXCEPT ![Other(e)] = Tail(line[Other(e)])],
         got' = [got EXCEPT ![e] = HandedUp(e, n, f)],
         told' = [told EXCEPT ![e] = GivenUp(e, n, f)],
         UNCHANGED <<given, drops, beats, connects, restarts>>
  PROVE  IInv'
<1> DEFINE o == Other(e)
           s == end[e]
           more == HandedUp(e, n, f)
           gone == GivenUp(e, n, f)
<1>1. Types
  BY DEF IInv
<1>2. /\ n \in 1..Len(end[o].sent) /\ f = end[o].sent[n] /\ line[o] # <<>>
      /\ Stream(o)[1] = n /\ Stream(o) # <<>> /\ s.state # "down"
      /\ Reaction(s, n, f, r) /\ Extends(s, r, Control(e))
      /\ f.type = "data" => s.state = "ready"
      /\ e = "venue" /\ s.state = "logging_in" => f.type = "login_req" /\ Stream(e) = <<>>
  BY DEF Reads
<1>3. /\ r \in Sessions /\ Numbers(r) /\ Grows(s, r) /\ Longer(s.tx, r.tx)
  BY <1>2 DEF Extends, Longer
<1>4. /\ end' \in [Ends -> Sessions] /\ end'[e] = r /\ end'[o] = end[o] /\ o \in Ends /\ o # e
      /\ Other(o) = e /\ \A x \in Ends : x = e \/ x = o
  BY <1>1, <1>3, ExceptEnd
<1>5. /\ s \in Sessions /\ end[o] \in Sessions /\ line[e] \in Seq(Nat) /\ line[o] \in Seq(Nat)
      /\ given[e] \in Nat /\ given[o] \in Nat /\ Latest(got[o]) \in Nat /\ Latest(got[e]) \in Nat
      /\ Stream(e) \in Seq(Nat) /\ Stream(o) \in Seq(Nat)
      /\ s.tx \in Seq(Nat) /\ r.tx \in Seq(Nat) /\ end[o].tx \in Seq(Nat)
  BY <1>1, <1>3, <1>4, TypesFacts, SessionType
<1>6. /\ Len(s.sent) \in Nat /\ Len(r.sent) \in Nat /\ Len(s.sent) <= Len(r.sent)
      /\ end[o].expected \in Nat
      /\ seqstore_oldest(s) \in Nat /\ seqstore_oldest(r) \in Nat
      /\ seqstore_oldest(s) <= seqstore_oldest(r)
  BY <1>3, <1>5, SessionType, OldestType, OldestGrows DEF Grows
<1>7. /\ After(end[o].sent, r.expected, Latest(more)) /\ Latest(more) <= given[o]
      /\ restarts = 0 => Passed(end[o].sent, r.expected, gone, more)
      /\ more \in Seq(Nat) /\ gone \subseteq Nat
      /\ \A k \in gone : k < seqstore_oldest(end[o])
  BY ReadMoves DEF Accounted
<1>8. \A x \in Ends : Queues(x) /\ Sent(x, end[x], given[x]) /\ Ordered(x) /\ Gone(x) /\ Complete(x)
  BY DEF IInv
<1>9. /\ got' \in [Ends -> Seq(Nat)] /\ got'[e] = more /\ got'[o] = got[o]
      /\ told' \in [Ends -> SUBSET Nat] /\ told'[e] = gone /\ told'[o] = told[o]
  <2>1. got' = [got EXCEPT ![e] = more] /\ told' = [told EXCEPT ![e] = gone]
    OBVIOUS
  <2> HIDE DEF more, gone
  <2>2. got' \in [Ends -> Seq(Nat)] /\ got'[e] = more /\ got'[o] = got[o]
    BY <1>1, <1>4, <1>7, <2>1 DEF Types
  <2>3. told' \in [Ends -> SUBSET Nat] /\ told'[e] = gone /\ told'[o] = told[o]
    BY <1>1, <1>4, <1>7, <2>1 DEF Types
  <2> QED
    BY <2>2, <2>3
<1> HIDE DEF more, gone
<1>10. /\ line' \in [Ends -> Seq(Nat)] /\ line'[e] = line[e] /\ line'[o] = Tail(line[o])
       /\ Tail(line[o]) \in Seq(Nat) /\ Tail(line[o]) \o end[o].tx = Tail(Stream(o))
       /\ Len(Tail(line[o])) = Len(line[o]) - 1 /\ Len(line[o]) \in Nat
       /\ \A i \in 1..Len(Tail(line[o])) : Tail(line[o])[i] = line[o][i + 1] /\ i + 1 \in 1..Len(line[o])
  <2>1. /\ Tail(line[o]) \in Seq(Nat) /\ Tail(line[o]) \o end[o].tx = Tail(Stream(o))
        /\ Len(Tail(line[o])) = Len(line[o]) - 1 /\ Len(line[o]) \in Nat
        /\ \A i \in 1..Len(Tail(line[o])) : Tail(line[o])[i] = line[o][i + 1] /\ i + 1 \in 1..Len(line[o])
    BY <1>2, <1>5, StreamHead DEF Stream
  <2>2. /\ line' \in [Ends -> Seq(Nat)] /\ line'[e] = line[e] /\ line'[o] = Tail(line[o])
    BY <1>1, <1>4, <2>1 DEF Types
  <2> QED
    BY <2>1, <2>2
<1> HIDE DEF o, s
<1>11. Types'
  BY <1>1, <1>4, <1>9, <1>10 DEF Types
<1>12. r.state # "down"
  BY <1>2 DEF Reaction
<1>13. Queues(e)'
  <2>1. \A i \in 1..Len(line[e]) : line[e][i] \in 1..Len(r.sent)
    <3>1. \A i \in 1..Len(line[e]) : line[e][i] \in 1..Len(s.sent)
      BY <1>8 DEF Queues, s
    <3>2. 1..Len(s.sent) \subseteq 1..Len(r.sent)
      BY <1>6
    <3> QED
      BY <3>1, <3>2
  <2>2. Len(line[e]) <= LineCap
    BY <1>8 DEF Queues
  <2> QED
    BY <1>3, <1>4, <1>10, <1>12, <2>1, <2>2 DEF Queues
<1>14. Queues(o)'
  <2>1. Queues(o)
    BY <1>4, <1>8
  <2>2. \A i \in 1..Len(Tail(line[o])) : Tail(line[o])[i] \in 1..Len(end[o].sent)
    BY <1>10, <2>1 DEF Queues
  <2>3. Len(Tail(line[o])) <= LineCap
    BY <1>10, <2>1, CapAssumption DEF Queues
  <2> QED
    BY <1>4, <1>10, <2>1, <2>2, <2>3 DEF Queues
<1>15. Sent(e, end[e], given[e])' /\ Sent(o, end[o], given[o])'
  <2>1. Sent(e, r, given[e])
    BY <1>2, <1>5, <1>8, SentKept DEF s
  <2> QED
    BY <1>4, <1>8, <2>1
<1>16. Ordered(e)'
  BY <1>4, <1>7, <1>9 DEF Ordered, o
<1>17. Outlives(s, r, given[e])
  BY <1>2, <1>5, ControlOutlives
<1>18. Ordered(o)'
  <2>1. Latest(got[o]) <= given[e] /\ After(s.sent, end[o].expected, Latest(got[o]))
    BY <1>4, <1>8 DEF Ordered, s
  <2>2. After(r.sent, end[o].expected, Latest(got[o]))
    BY <1>5, <1>6, <1>17, <2>1 DEF Outlives
  <2> QED
    BY <1>4, <1>9, <2>1, <2>2 DEF Ordered
<1>19. Gone(e)'
  BY <1>4, <1>7, <1>9 DEF Gone, o
<1>20. Gone(o)'
  <2>1. \A k \in told[o] : k < seqstore_oldest(s) /\ k \in Nat
    BY <1>1, <1>4, <1>8 DEF Gone, s, Types
  <2> QED
    BY <1>4, <1>6, <1>9, <2>1 DEF Gone
<1>21. Complete(e)'
  BY <1>4, <1>7, <1>9 DEF Complete, o
<1>22. Complete(o)'
  <2>1. ASSUME restarts = 0
        PROVE  Passed(r.sent, end[o].expected, told[o], got[o])
    <3>1. Passed(s.sent, end[o].expected, told[o], got[o])
      BY <1>4, <1>8, <2>1 DEF Complete, s
    <3> QED
      BY <1>3, <1>5, <1>6, <3>1, PassedKept
  <2> QED
    BY <1>4, <1>9, <2>1 DEF Complete
<1>23. VenueLogin'
  <2>1. CASE e = "venue"
    <3>1. r.state # "logging_in"
      BY <1>2, <2>1 DEF Reaction
    <3> QED
      BY <1>4, <2>1, <3>1 DEF VenueLogin
  <2>2. CASE e = "client"
    <3>1. o = "venue"
      BY <2>2, EndsAre DEF o
    <3>2. end["venue"].state # "logging_in"
      BY <1>2, <3>1 DEF IInv, VenueLogin
    <3> QED
      BY <1>4, <3>1, <3>2 DEF VenueLogin
  <2> QED
    BY <2>1, <2>2, EndsAre
<1>24. ClientLogin'
  <2>1. CASE e = "client"
    <3>1. o = "venue"
      BY <2>1, EndsAre DEF o
    <3> DEFINE q == Stream(o)
    <3>2. Stream(o)' = Tail(q)
      BY <1>4, <1>10 DEF Stream
    <3>3. SUFFICES ASSUME r.state = "logging_in"
                   PROVE  /\ end[o].state = "ready" => HasAck(end[o].sent, Tail(q))
                          /\ LoginSafe(end[o].sent, Tail(q), Latest(more))
      BY <1>4, <1>9, <2>1, <3>1, <3>2 DEF ClientLogin
    <3>4. s.state = "logging_in" /\ f.type # "login_ack"
      BY <1>2, <3>3 DEF Reaction
    <3>5. more = got[e]
      BY <1>2, <3>4 DEF more, HandedUp
    <3>6. /\ end[o].state = "ready" => HasAck(end[o].sent, q)
          /\ LoginSafe(end[o].sent, q, Latest(got[e]))
      BY <2>1, <3>1, <3>4 DEF IInv, ClientLogin, s
    <3> HIDE DEF q
    <3>7. q \in Seq(Nat) /\ q # <<>> /\ end[o].sent[q[1]].type # "login_ack"
      BY <1>2, <1>5, <3>4 DEF q
    <3>8. LoginSafe(end[o].sent, Tail(q), Latest(more))
      BY <3>5, <3>6, <3>7, SafeTail
    <3>9. ASSUME end[o].state = "ready"
          PROVE  HasAck(end[o].sent, Tail(q))
      <4>1. PICK i \in 1..Len(q) : end[o].sent[q[i]].type = "login_ack"
        BY <3>6, <3>9 DEF HasAck
      <4>2. i # 1
        BY <3>7, <4>1
      <4>3. i - 1 \in 1..Len(Tail(q)) /\ Tail(q)[i - 1] = q[(i - 1) + 1] /\ (i - 1) + 1 = i
        BY <3>7, <4>1, <4>2
      <4> QED
        BY <4>1, <4>3 DEF HasAck
    <3> QED
      BY <3>8, <3>9
  <2>2. CASE e = "venue"
    <3>1. o = "client"
      BY <2>2, EndsAre DEF o
    <3> DEFINE p == line[e] \o r.tx
               least == Latest(got["client"])
    <3>2. Stream(e)' = p /\ p \in Seq(Nat)
      <4>1. Stream(e)' = line'[e] \o end'[e].tx
        BY DEF Stream
      <4>2. line'[e] = line[e] /\ end'[e] = r
        BY <1>4, <1>10
      <4>3. p \in Seq(Nat)
        BY <1>5, ConcatProperties
      <4> QED
        BY <4>1, <4>2, <4>3
    <3>3. SUFFICES ASSUME end["client"].state = "logging_in"
                   PROVE  /\ HasAck(r.sent, p) /\ LoginSafe(r.sent, p, least)
      BY <1>4, <1>9, <2>2, <3>1, <3>2 DEF ClientLogin
    <3>4. least \in Nat /\ least <= given[e]
      BY <1>4, <1>5, <1>8, <3>1 DEF Ordered
    <3>5. CASE s.state = "ready"
      <4> DEFINE q == Stream(e)
      <4>1. HasAck(s.sent, q) /\ LoginSafe(s.sent, q, least)
        BY <2>2, <3>3, <3>5 DEF IInv, ClientLogin, s
      <4>2. SentBy(s, q)
        BY <1>1, <1>8, StreamSent DEF s
      <4>3. Longer(q, p)
        BY <1>3, <1>5, StreamLonger DEF Stream, s
      <4>4. q \in Seq(Nat)
        BY <1>5
      <4> HIDE DEF q, p, least
      <4> QED
        BY <1>3, <1>5, <1>17, <3>2, <3>4, <4>1, <4>2, <4>3, <4>4, SafeGrows
    <3>6. CASE s.state = "logging_in"
      <4>1. Stream(e) = <<>> /\ f.type = "login_req"
        BY <1>2, <2>2, <3>6
      <4>2. line[e] = <<>> /\ s.tx = <<>>
        <5>1. line[e] \o s.tx = <<>>
          BY <4>1 DEF Stream, s
        <5> QED
          BY <1>5, <5>1
      <4>3. p = r.tx
        BY <1>5, <4>2, ConcatEmptySeq
      <4>4. /\ QueuesOnlyNew(s, r)
            /\ \E j \in Len(s.tx) + 1..Len(r.tx) : r.sent[r.tx[j]].type = "login_ack"
        BY <1>2, <3>6, <4>1 DEF Reaction
      <4>5. Len(s.tx) = 0
        BY <4>2, EmptySeq
      <4>6. /\ \A j \in 1..Len(r.tx) : r.tx[j] > Len(s.sent) /\ r.tx[j] \in 1..Len(r.sent)
            /\ \E j \in 1..Len(r.tx) : r.sent[r.tx[j]].type = "login_ack"
        BY <1>3, <4>4, <4>5 DEF QueuesOnlyNew, Numbers
      <4>7. \A m \in 1..Len(r.sent) : m > Len(s.sent) => r.sent[m].type # "data"
        <5>1. \A m \in Len(s.sent) + 1..Len(r.sent) : r.sent[m].type # "data"
          BY <1>2 DEF Extends, Control
        <5> QED
          BY <1>6, <5>1
      <4>8. HasAck(r.sent, r.tx)
        BY <4>6 DEF HasAck
      <4>9. ASSUME NEW j \in 1..Len(r.tx)
            PROVE  r.sent[r.tx[j]].type # "data" /\ After(r.sent, r.tx[j] + 1, least)
        <5>1. r.tx[j] > Len(s.sent) /\ r.tx[j] \in 1..Len(r.sent)
          BY <4>6
        <5>2. \A m \in 1..Len(r.sent) : m >= r.tx[j] + 1 => m > Len(s.sent)
          BY <1>6, <5>1
        <5> QED
          BY <4>7, <5>1, <5>2 DEF After
      <4>10. LoginSafe(r.sent, r.tx, least)
        BY <4>9 DEF LoginSafe
      <4> QED
        BY <4>3, <4>8, <4>10
    <3>7. s.state \in {"ready", "logging_in"}
      BY <1>2, <1>5, SessionType DEF States
    <3> QED
      BY <3>5, <3>6, <3>7
  <2> QED
    BY <2>1, <2>2, EndsAre
<1> QED
  BY <1>4, <1>11, <1>13, <1>14, <1>15, <1>16, <1>18, <1>19, <1>20, <1>21, <1>22, <1>23, <1>24 DEF IInv

LEMMA ReadStep ==
  ASSUME IInv, NEW e \in Ends, Read(e)
  PROVE  IInv'
<1> DEFINE o == Other(e)
           n == Head(line[o])
           f == end[o].sent[n]
           r == handle_frame(count_frame(end[e], n), n, f)
<1>1. Reads(e, n, f, r)
  BY ReadKnows DEF Read
<1>2. UNCHANGED <<given, drops, beats, connects, restarts>>
  BY DEF Read, bounds
<1>3. end[e] \in Sessions /\ Numbers(end[e]) /\ n \in Nat \ {0}
  BY <1>1, TypesFacts DEF IInv, Queues, Reads
<1>4. Excused(end[e], n, f) = IF f.type = "gap_fill" THEN Moved(end[e], n) .. f.arg - 1 ELSE {}
  <2>1. Track(end[e], n).expected = Moved(end[e], n)
    BY <1>3, TrackFacts
  <2> QED
    BY <2>1 DEF Excused
<1>5. seqtrack_on(end[e], n) = "ok" <=> n = end[e].expected
  BY DEF seqtrack_on
<1>6. CASE r.rc = "ok"
  <2>1. /\ end' = [end EXCEPT ![e] = r]
        /\ line' = [line EXCEPT ![o] = Tail(line[o])]
        /\ got' = [got EXCEPT ![e] = HandedUp(e, n, f)]
        /\ told' = [told EXCEPT ![e] = GivenUp(e, n, f)]
    <3>1. /\ end' = [end EXCEPT ![e] = r]
          /\ line' = [line EXCEPT ![o] = Tail(line[o])]
          /\ got' = IF f.type = "data" /\ seqtrack_on(end[e], n) = "ok"
                    THEN [got EXCEPT ![e] = Append(got[e], f.arg)] ELSE got
          /\ told' = [told EXCEPT ![e] = told[e] \cup Excused(end[e], n, f)]
      BY <1>6 DEF Read
    <3>2. got = [got EXCEPT ![e] = got[e]]
      BY DEF IInv, Types
    <3> HIDE DEF n, f, r
    <3> QED
      BY <1>4, <1>5, <3>1, <3>2 DEF HandedUp, GivenUp
  <2> HIDE DEF n, f, r
  <2> QED
    BY <1>1, <1>2, <1>4, <1>6, <2>1, ReadTakes
<1>7. CASE r.rc # "ok"
  <2>1. /\ end' = [end EXCEPT ![e] = session_drop(r)]
        /\ line' = [line EXCEPT ![o] = <<>>] /\ UNCHANGED <<got, told>>
    BY <1>7 DEF Read
  <2> HIDE DEF n, f, r
  <2> QED
    BY <1>1, <1>2, <1>7, <2>1, ReadFails
<1> QED
  BY <1>6, <1>7

LEMMA FreshFacts ==
  /\ Fresh \in Sessions /\ Numbers(Fresh) /\ Fresh.rc = "ok" /\ Fresh.tx = <<>> /\ Fresh.sent = <<>>
  /\ Fresh.state = "down" /\ Fresh.expected = 1
  /\ \A e \in Ends : \A most : Sent(e, Fresh, most)
<1>1. <<>> \in Seq(Frames) /\ <<>> \in Seq(Nat) /\ Len(<<>>) = 0
  BY EmptySeq
<1>2. /\ Fresh.rc = "ok" /\ Fresh.tx = <<>> /\ Fresh.sent = <<>> /\ Fresh.state = "down"
      /\ Fresh.expected = 1 /\ Fresh.unsaid = {}
  BY DEF Fresh
<1>3. Fresh \in Sessions
  BY <1>1 DEF Fresh, Sessions, States, Codes
<1>4. Numbers(Fresh)
  BY <1>2, CapAssumption DEF Numbers
<1>5. \A e \in Ends : \A most : Sent(e, Fresh, most)
  BY <1>1, <1>2 DEF Sent
<1> QED
  BY <1>2, <1>3, <1>4, <1>5

LEMMA RestartStep ==
  ASSUME IInv, Restart
  PROVE  IInv'
<1>1. Types /\ "client" \in Ends /\ "venue" \in Ends /\ Ends = {"client", "venue"}
      /\ Other("client") = "venue" /\ Other("venue") = "client"
  BY EndsAre DEF IInv
<1>2. /\ end' = [end EXCEPT !["venue"] = Fresh] /\ line' = [e \in Ends |-> <<>>]
      /\ got' = [got EXCEPT !["venue"] = <<>>] /\ told' = [e \in Ends |-> {}]
      /\ restarts' = restarts + 1 /\ UNCHANGED <<given, drops, beats, connects>>
      /\ end["client"].state = "down"
  BY <1>1 DEF Restart, Up
<1>3. /\ end' \in [Ends -> Sessions] /\ end'["venue"] = Fresh /\ end'["client"] = end["client"]
      /\ line' \in [Ends -> Seq(Nat)] /\ line'["client"] = <<>> /\ line'["venue"] = <<>>
      /\ got' \in [Ends -> Seq(Nat)] /\ got'["venue"] = <<>> /\ got'["client"] = got["client"]
      /\ told' \in [Ends -> SUBSET Nat] /\ told'["client"] = {} /\ told'["venue"] = {}
      /\ restarts' \in Nat /\ restarts' # 0
  <2>1. <<>> \in Seq(Nat) /\ restarts \in Nat
    BY <1>1, EmptySeq DEF Types
  <2> QED
    BY <1>1, <1>2, <2>1, FreshFacts DEF Types
<1>4. Types'
  BY <1>1, <1>2, <1>3 DEF Types
<1>5. \A x \in Ends : Queues(x) /\ Sent(x, end[x], given[x]) /\ Ordered(x) /\ Gone(x) /\ Complete(x)
  BY DEF IInv
<1>6. Queues("client")' /\ Queues("venue")'
  <2>1. Queues("client")'
    BY <1>1, <1>3, <1>5, CapAssumption, EmptySeq DEF Queues
  <2>2. Queues("venue")'
    BY <1>1, <1>3, FreshFacts, CapAssumption, EmptySeq DEF Queues
  <2> QED
    BY <2>1, <2>2
<1>7. Sent("client", end["client"], given["client"])' /\ Sent("venue", end["venue"], given["venue"])'
  BY <1>1, <1>2, <1>3, <1>5, FreshFacts
<1>8. given["client"] \in Nat /\ given["venue"] \in Nat
  BY <1>1 DEF Types
<1>9. Ordered("client")'
  <2>1. Latest(got["client"]) <= given["venue"]
    BY <1>1, <1>5 DEF Ordered
  <2>2. After(Fresh.sent, end["client"].expected, Latest(got["client"]))
    BY FreshFacts, EmptySeq DEF After
  <2> QED
    BY <1>1, <1>2, <1>3, <2>1, <2>2 DEF Ordered
<1>10. Ordered("venue")'
  <2>1. Sent("client", end["client"], given["client"])
    BY <1>1, <1>5
  <2>2. After(end["client"].sent, 1, 0)
    BY <1>8, <2>1 DEF After, Sent
  <2>3. Latest(<<>>) = 0
    BY DEF Latest
  <2> QED
    BY <1>1, <1>2, <1>3, <1>8, <2>2, <2>3, FreshFacts DEF Ordered
<1>11. Gone("client")' /\ Gone("venue")'
  BY <1>3 DEF Gone
<1>12. Complete("client")' /\ Complete("venue")'
  BY <1>3 DEF Complete
<1>13. VenueLogin' /\ ClientLogin'
  BY <1>2, <1>3, FreshFacts DEF VenueLogin, ClientLogin
<1> QED
  BY <1>1, <1>4, <1>6, <1>7, <1>9, <1>10, <1>11, <1>12, <1>13 DEF IInv

LEMMA IInvInit == Init => IInv
<1> SUFFICES ASSUME Init
             PROVE  IInv
  OBVIOUS
<1>1. Len(<<>>) = 0 /\ <<>> \in Seq(Nat) /\ \A e \in Ends : Other(e) \in Ends
  BY EmptySeq, EndsAre
<1>2. \A e \in Ends : end[e] = Fresh /\ line[e] = <<>> /\ given[e] = 0 /\ got[e] = <<>> /\ told[e] = {}
  BY DEF Init
<1>3. Types
  <2>1. end \in [Ends -> Sessions]
    BY FreshFacts DEF Init
  <2> QED
    BY <1>1, <2>1 DEF Init, Types
<1>4. \A e \in Ends : Queues(e)
  BY <1>1, <1>2, FreshFacts, CapAssumption DEF Queues
<1>5. \A e \in Ends : Sent(e, end[e], given[e])
  BY <1>2, FreshFacts
<1>6. Latest(<<>>) = 0
  BY DEF Latest
<1>7. \A e \in Ends : Ordered(e) /\ Gone(e)
  BY <1>1, <1>2, <1>6, FreshFacts DEF Ordered, Gone, After
<1>8. \A e \in Ends : Complete(e)
  BY <1>1, <1>2, FreshFacts DEF Complete, Passed
<1>9. VenueLogin /\ ClientLogin
  BY <1>2, FreshFacts, EndsAre DEF VenueLogin, ClientLogin
<1> QED
  BY <1>3, <1>4, <1>5, <1>7, <1>8, <1>9 DEF IInv

LEMMA IInvStep == IInv /\ [Next]_vars => IInv'
<1> SUFFICES ASSUME IInv, [Next]_vars
             PROVE  IInv'
  OBVIOUS
<1>1. ASSUME NEW e \in Ends, Give(e)
      PROVE  IInv'
  BY <1>1, GiveStep
<1>2. ASSUME NEW e \in Ends, Heartbeat(e)
      PROVE  IInv'
  BY <1>2, HeartbeatStep
<1>3. ASSUME NEW e \in Ends, Write(e)
      PROVE  IInv'
  BY <1>3, WriteStep
<1>4. ASSUME NEW e \in Ends, Read(e)
      PROVE  IInv'
  BY <1>4, ReadStep
<1>5. ASSUME NEW e \in Ends, Cut(e)
      PROVE  IInv'
  BY <1>5, CutStep
<1>6. ASSUME NEW e \in Ends, EndOfFile(e)
      PROVE  IInv'
  BY <1>6, EndOfFileStep
<1>7. CASE Connect
  BY <1>7, ConnectStep
<1>8. CASE Restart
  BY <1>8, RestartStep
<1>9. CASE UNCHANGED vars
  <2>1. UNCHANGED <<end, line, given, got, told, drops, beats, connects, restarts>>
    BY <1>9 DEF vars
  <2>2. Types'
    BY <2>1 DEF IInv, Types
  <2>3. \A e \in Ends : Queues(e)' /\ Sent(e, end[e], given[e])'
    BY <2>1 DEF IInv, Queues
  <2>4. \A e \in Ends : Ordered(e)' /\ Gone(e)' /\ Complete(e)'
    BY <2>1 DEF IInv, Ordered, Gone, Complete
  <2>5. VenueLogin' /\ ClientLogin'
    BY <2>1 DEF IInv, VenueLogin, ClientLogin, Stream
  <2> QED
    BY <2>2, <2>3, <2>4, <2>5 DEF IInv
<1> QED
  BY <1>1, <1>2, <1>3, <1>4, <1>5, <1>6, <1>7, <1>8, <1>9 DEF Next

-----------------------------------------------------------------------------
LEMMA Invariance == Spec => []IInv
<1> QED
  BY IInvInit, IInvStep, PTL DEF Spec

\* Queues and lines hold only numbers of frames that were sent, no queue is
\* over its capacity, and the code is "ok" between steps (session.c, sendq.c).
THEOREM TypeCorrect == Spec => []TypeOK
<1>1. IInv => TypeOK
  <2> SUFFICES ASSUME IInv
               PROVE  TypeOK
    OBVIOUS
  <2>1. Types
    BY DEF IInv
  <2>2. ASSUME NEW e \in Ends
        PROVE  /\ end[e].state \in {"down", "logging_in", "ready"}
               /\ \A n \in DOMAIN end[e].sent : end[e].sent[n].type \in FrameTypes
               /\ Len(end[e].tx) <= QueueCap /\ Len(line[e]) <= LineCap
               /\ ToSet(end[e].tx) \cup ToSet(line[e]) \subseteq DOMAIN end[e].sent
               /\ end[e].expected \in Nat \ {0} /\ end[e].recovering \in BOOLEAN
               /\ end[e].unsaid \subseteq DOMAIN end[e].sent /\ end[e].rc = "ok"
               /\ told[e] \subseteq Nat
    <3>1. /\ end[e] \in Sessions /\ line[e] \in Seq(Nat) /\ told[e] \subseteq Nat /\ Queues(e)
      BY <2>1, TypesFacts DEF IInv
    <3>2. /\ end[e].sent \in Seq(Frames) /\ end[e].tx \in Seq(Nat)
          /\ end[e].expected \in Nat \ {0} /\ end[e].recovering \in BOOLEAN
          /\ end[e].state \in {"down", "logging_in", "ready"}
      BY <3>1, SessionType DEF States
    <3>3. /\ DOMAIN end[e].sent = 1..Len(end[e].sent) /\ DOMAIN end[e].tx = 1..Len(end[e].tx)
          /\ DOMAIN line[e] = 1..Len(line[e])
      BY <3>1, <3>2
    <3>4. \A n \in DOMAIN end[e].sent : end[e].sent[n].type \in FrameTypes
      <4>1. \A n \in 1..Len(end[e].sent) : end[e].sent[n] \in Frames
        BY <3>1, SessionType
      <4> QED
        BY <3>3, <4>1 DEF Frames
    <3>5. ToSet(end[e].tx) \subseteq 1..Len(end[e].sent) /\ ToSet(line[e]) \subseteq 1..Len(end[e].sent)
      BY <3>1, <3>3 DEF ToSet, Queues, Numbers
    <3> QED
      BY <3>1, <3>2, <3>3, <3>4, <3>5 DEF Queues, Numbers
  <2>3. <<drops, beats, connects, restarts>> \in Nat \X Nat \X Nat \X Nat
    BY <2>1 DEF Types
  <2> QED
    BY <2>1, <2>2, <2>3 DEF Types, TypeOK
<1> QED
  BY <1>1, Invariance, PTL

\* What an end has moved past it has handed up, or was told that it is gone;
\* and only what the sender no longer keeps is given up (seqtrack.h, seqstore).
THEOREM NothingSkipped == Spec => []NoFrameMissed
<1>1. IInv => NoFrameMissed
  <2> SUFFICES ASSUME IInv
               PROVE  NoFrameMissed
    OBVIOUS
  <2>1. ASSUME restarts = 0, NEW e \in Ends, NEW n \in DOMAIN end[Other(e)].sent,
               end[Other(e)].sent[n].type = "data", n < end[e].expected
        PROVE  n \in told[e] \/ end[Other(e)].sent[n].arg \in ToSet(got[e])
    <3>1. Types /\ Complete(e)
      BY DEF IInv
    <3>2. n \in 1..Len(end[Other(e)].sent)
      <4>1. end[Other(e)].sent \in Seq(Frames)
        BY <3>1, TypesFacts, SessionType
      <4> QED
        BY <2>1, <4>1
    <3> QED
      BY <2>1, <3>1, <3>2 DEF Complete, Passed
  <2>2. \A e \in Ends : \A n \in told[e] : n < seqstore_oldest(end[Other(e)])
    BY DEF IInv, Gone
  <2> QED
    BY <2>1, <2>2 DEF NoFrameMissed, NothingLost
<1> QED
  BY <1>1, Invariance, PTL

LEMMA PromisedInit == Init => Promise!Init
BY DEF Init, Promise!Init

LEMMA PromisedStep == IInv /\ [Next]_vars => [Promise!Next]_(Promise!vars)
<1> SUFFICES ASSUME IInv, [Next]_vars
             PROVE  Promise!Next \/ UNCHANGED <<given, got>>
  BY DEF Promise!vars
<1>1. ASSUME NEW e \in Ends, Give(e)
      PROVE  Promise!Next
  <2>1. Promise!Give(e)
    BY <1>1 DEF Give, Promise!Give
  <2> QED
    BY <2>1 DEF Promise!Next
<1>2. ASSUME NEW e \in Ends, Read(e)
      PROVE  Promise!Next \/ UNCHANGED <<given, got>>
  <2> DEFINE o == Other(e)
             n == Head(line[o])
             f == end[o].sent[n]
             r == handle_frame(count_frame(end[e], n), n, f)
  <2>1. Reads(e, n, f, r)
    BY <1>2, ReadKnows DEF Read
  <2>2. given' = given /\ (got' = got \/ (/\ f.type = "data" /\ n = end[e].expected
                                          /\ got' = [got EXCEPT ![e] = Append(@, f.arg)]))
    <3>1. seqtrack_on(end[e], n) = "ok" => n = end[e].expected
      BY DEF seqtrack_on
    <3>2. given' = given
      BY <1>2 DEF Read
    <3>3. CASE r.rc = "ok"
      <4>1. got' = IF f.type = "data" /\ seqtrack_on(end[e], n) = "ok"
                   THEN [got EXCEPT ![e] = Append(@, f.arg)] ELSE got
        BY <1>2, <3>3 DEF Read
      <4> HIDE DEF n, f, r
      <4> QED
        BY <3>1, <3>2, <4>1
    <3>4. CASE r.rc # "ok"
      BY <1>2, <3>2, <3>4 DEF Read
    <3> QED
      BY <3>3, <3>4
  <2>3. /\ n \in 1..Len(end[o].sent) /\ n \in Nat /\ f = end[o].sent[n]
        /\ f.type = "data" => f.arg \in 1..given[o]
    BY <2>1 DEF Reads
  <2>4. Ordered(e) /\ Latest(got[e]) \in Nat /\ given[o] \in Nat
    BY TypesFacts DEF IInv
  <2> HIDE DEF n, f, r
  <2>5. CASE f.type = "data" /\ n = end[e].expected /\ got' = [got EXCEPT ![e] = Append(@, f.arg)]
    <3>1. f.arg \in 1..given[o] /\ f.arg > Latest(got[e])
      BY <2>3, <2>4, <2>5 DEF Ordered, After
    <3>2. Promise!Latest(got[e]) = Latest(got[e])
      BY DEF Promise!Latest, Latest
    <3>3. f.arg \in Promise!Latest(got[e]) + 1 .. given[Other(e)]
      BY <2>4, <3>1, <3>2
    <3>4. Promise!Deliver(e)
      BY <2>2, <2>5, <3>3 DEF Promise!Deliver
    <3> QED
      BY <3>4 DEF Promise!Next
  <2> QED
    BY <2>2, <2>5
<1>3. CASE Restart
  <2>1. Promise!StartAgain("venue") /\ "venue" \in Ends
    BY <1>3, EndsAre DEF Restart, Promise!StartAgain
  <2> QED
    BY <2>1 DEF Promise!Next
<1>4. ASSUME NEW e \in Ends, Heartbeat(e) \/ Write(e) \/ Cut(e) \/ EndOfFile(e)
      PROVE  UNCHANGED <<given, got>>
  BY <1>4 DEF Heartbeat, Write, Cut, EndOfFile
<1>5. CASE Connect
  BY <1>5 DEF Connect
<1>6. CASE UNCHANGED vars
  BY <1>6 DEF vars
<1> QED
  BY <1>1, <1>2, <1>3, <1>4, <1>5, <1>6 DEF Next

\* Whatever the connection goes through, messages are handed up in the order
\* they were handed over and never twice: every step of the sessions is a step
\* of OrderedDelivery or leaves it alone.
THEOREM DeliversInOrder == Spec => InOrderOnce
<1>1. Spec => Promise!Init /\ [][Promise!Next]_(Promise!vars)
  BY PromisedInit, PromisedStep, Invariance, PTL DEF Spec
<1> QED
  BY <1>1 DEF InOrderOnce, Promise!Spec
=============================================================================
