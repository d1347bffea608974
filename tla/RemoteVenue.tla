---------------------------- MODULE RemoteVenue -----------------------------
(***************************************************************************)
(* One market reached over a connection: the ledger's end of it, ledger/   *)
(* src/remote_venue.c, with the number table, the leg records the executor *)
(* keeps, and the exchange process, exchange/exchanged.c. The ledger sends *)
(* one request at a time and waits for its answer with a limit; when the   *)
(* limit is reached the connection stays up and the answer comes late, in  *)
(* the middle of another wait. How the exchange matches a leg is any       *)
(* outcome Matching allows: a refusal, or a fill and a rest that may stay. *)
(* The other market's link delays this one and shares nothing with it.     *)
(***************************************************************************)
EXTENDS NumberMap, OrderMap, FiniteSets

CONSTANTS MaxOrders,                \* physical orders the ledger sends
          Qty,                      \* shares of a leg
          QueueCap,                 \* frames the send queue holds
          MaxTimeouts, MaxLosses, MaxBooks, MaxMade

ASSUME SizeAssumption == Qty \in Nat \ {0} /\ QueueCap \in Nat \ {0}

Orders == 1..MaxOrders

VARIABLES
  lo,         \* the leg records of the orders sent so far
  call,       \* the request the ledger is waiting on
  up,         \* remote_link_t.up
  om,         \* the number table of the link
  conn,       \* the connection still carries bytes
  sent,       \* requests the exchange has not read
  replies,    \* answers the ledger has not read
  resting,    \* the exchange's book: exchange number -> order and open shares
  next,       \* venue_t.next_id
  taken,      \* what each order traded on arrival
  forgotten,  \* orders sent before the connection in use was made
  book,       \* requests made, how far behind the last answer was, late answers
  count       \* uses of the bounds

ledger   == <<lo, call, up, om, forgotten, book>>
exchange == <<resting, next, taken>>
line     == <<conn, sent, replies>>
vars     == <<ledger, exchange, line, count>>

Idle == [kind |-> "none", ord |-> 0, id |-> 0]
Ask(kind, ord, id) == [kind |-> kind, ord |-> ord, id |-> id]
Answer(r, id, ok, qty, rests) ==
  [kind |-> r.kind, ord |-> r.ord, id |-> id, ok |-> ok, qty |-> qty, rests |-> rests]

Init == /\ lo = <<>> /\ call = Idle /\ up = TRUE /\ om = <<>>
        /\ conn = TRUE /\ sent = <<>> /\ replies = <<>>
        /\ resting = <<>> /\ next = 1 /\ taken = <<>>
        /\ forgotten = {}
        /\ book = [asked |-> 0, lag |-> 0, late |-> 0]
        /\ count = [timeouts |-> 0, losses |-> 0, made |-> 0]

-----------------------------------------------------------------------------
(* The ledger sends.                                                        *)

\* exec_submit_via cancels the whole of a leg whose sending did not succeed,
\* whatever the reason.
Refused == omap_on_cancel(NewLeg(Qty), Qty)
\* The map f with the entry of key k set to v.
Put(f, k, v) == [x \in DOMAIN f \cup {k} |-> IF x = k THEN v ELSE f[x]]
Record(o, leg) == lo' = Put(lo, o, leg)

session_send(r) == sent' = IF conn THEN Append(sent, r) ELSE sent
Wait(r) == call' = r

send_remote(o) ==
  /\ call = Idle /\ o = Cardinality(DOMAIN lo) + 1
  /\ UNCHANGED <<exchange, up, conn, replies, forgotten, book, count>>
  /\ \/ /\ ~up \/ ~HasRoom(om)
        /\ Record(o, Refused) /\ UNCHANGED <<call, om, sent>>
     \/ /\ up /\ HasRoom(om) /\ om' = ordmap_add(om, o)
        /\ \/ /\ Len(sent) = QueueCap              \* the send queue is full
              /\ Record(o, Refused) /\ UNCHANGED <<call, sent>>
           \/ /\ Len(sent) < QueueCap
              /\ Record(o, NewLeg(Qty))
              /\ session_send(Ask("leg", o, 0)) /\ Wait(Ask("leg", o, 0))

\* A cancel that cannot be sent returns an error and changes nothing.
cancel_remote(o) ==
  /\ call = Idle /\ o \in DOMAIN lo /\ lo[o].live
  /\ up /\ Len(sent) < QueueCap
  /\ \E id \in ordmap_cancel_key(om, o) :
       session_send(Ask("cancel", o, id)) /\ Wait(Ask("cancel", o, id))
  /\ UNCHANGED <<lo, up, om, forgotten, book, exchange, conn, replies, count>>

remote_book ==
  /\ call = Idle /\ up /\ Len(sent) < QueueCap /\ book.asked < MaxBooks
  /\ LET r == Ask("book", 0, book.asked + 1) IN session_send(r) /\ Wait(r)
  /\ book' = [book EXCEPT !.asked = @ + 1]
  /\ UNCHANGED <<lo, up, om, forgotten, exchange, conn, replies, count>>

-----------------------------------------------------------------------------
(* The exchange answers, one frame at a time. An answer to a connection     *)
(* that is gone is lost; what was asked has been done all the same.         *)

Reply(x) == replies' = IF conn THEN Append(replies, x) ELSE replies

on_leg(r) ==
  /\ next' = next + 1
  /\ \/ /\ Reply(Answer(r, next, FALSE, 0, FALSE)) /\ UNCHANGED <<resting, taken>>
     \/ \E filled \in 0..Qty, rests \in BOOLEAN :
          /\ rests => filled < Qty
          /\ taken' = Put(taken, r.ord, filled)
          /\ resting' = IF rests THEN Put(resting, next, [cl |-> r.ord, qty |-> Qty - filled])
                                 ELSE resting
          /\ Reply(Answer(r, next, TRUE, filled, rests))

\* By the exchange's own number and nothing else.
on_cancel(r) ==
  /\ IF r.id \in DOMAIN resting
     THEN /\ Reply(Answer(r, r.id, TRUE, resting[r.id].qty, FALSE))
          /\ resting' = [id \in DOMAIN resting \ {r.id} |-> resting[id]]
     ELSE Reply(Answer(r, r.id, FALSE, 0, FALSE)) /\ UNCHANGED resting
  /\ UNCHANGED <<next, taken>>

on_book(r) == Reply(Answer(r, r.id, TRUE, 0, FALSE)) /\ UNCHANGED exchange

on_msg ==
  /\ sent /= <<>> /\ sent' = Tail(sent)
  /\ LET r == Head(sent)
     IN  \/ r.kind = "leg"    /\ on_leg(r)
         \/ r.kind = "cancel" /\ on_cancel(r)
         \/ r.kind = "book"   /\ on_book(r)
  /\ UNCHANGED <<ledger, conn, count>>

\* Another member's order trades against one that rests: nobody tells the
\* ledger, the exchange answers only who asks.
MakerFill ==
  /\ count.made < MaxMade /\ count' = [count EXCEPT !.made = @ + 1]
  /\ \E id \in DOMAIN resting :
       resting' = IF resting[id].qty = 1
                  THEN [i \in DOMAIN resting \ {id} |-> resting[i]]
                  ELSE [resting EXCEPT ![id].qty = @ - 1]
  /\ UNCHANGED <<ledger, line, next, taken>>

-----------------------------------------------------------------------------
(* The ledger reads an answer, or gives up.                                 *)

\* Faulty: an answer is taken for any order of the kind waited on.
Wanted_of_kind(x) == x.kind = call.kind

\* A book answer carries no number to tell it by.
Wanted(x) == x.kind = call.kind /\ (x.kind = "book" \/ x.ord = call.ord)

\* pump_once hands on every frame it has read before wait_for looks: of several
\* answers to the request in hand the last one read is kept.
Replaced == \E i \in 2..Len(replies) : Wanted(replies[i])

\* What exec_submit_via records of an accepted leg: the fill, and a rest that
\* does not stay is cancelled.
Accepted(x) ==
  LET leg    == omap_on_accept(NewLeg(Qty))
      traded == IF x.qty > 0 THEN omap_on_fill(leg, x.qty, x.qty) ELSE leg
  IN  IF x.rests \/ LegLeft(traded) = 0 THEN traded
      ELSE omap_on_cancel(traded, LegLeft(traded))

\* A wait that ends with the answer it is for; seen is the table after on_frame.
Finish(x, seen) ==
  /\ call' = Idle
  /\ CASE x.kind = "leg" ->
            /\ lo' = [lo EXCEPT ![call.ord] = IF x.ok THEN Accepted(x) ELSE Refused]
            /\ om' = IF x.ok /\ ~x.rests THEN ordmap_close(seen, call.ord) ELSE seen
            /\ UNCHANGED book
       [] x.kind = "cancel" ->
            /\ lo' = IF x.ok THEN [lo EXCEPT ![call.ord] = omap_on_cancel(@, x.qty)] ELSE lo
            /\ om' = IF x.ok THEN ordmap_close(seen, call.ord) ELSE seen
            /\ UNCHANGED book
       [] x.kind = "book" ->
            /\ book' = [book EXCEPT !.lag = book.asked - x.id]
            /\ UNCHANGED <<lo, om>>

\* Outside a wait every frame is read and dropped (the handler's context is
\* NULL); inside one, a leg's answer reaches the table whoever it is for.
on_frame ==
  /\ up /\ replies /= <<>> /\ replies' = Tail(replies)
  /\ LET x    == Head(replies)
         seen == IF x.kind = "leg" THEN ordmap_on_ack(om, x.ord, x.id, x.ok) ELSE om
     IN  \/ call = Idle /\ UNCHANGED <<lo, call, om, book>>
         \/ call /= Idle /\ (~Wanted(x) \/ Replaced) /\ om' = seen
            /\ UNCHANGED <<lo, call, book>>
         \/ call /= Idle /\ Wanted(x) /\ Finish(x, seen)
  /\ UNCHANGED <<up, forgotten, exchange, conn, sent, count>>

\* The error a wait ends with: send_remote puts its order in doubt, and the
\* executor writes the leg off; a cancel and a book query leave no trace.
GiveUp ==
  /\ call' = Idle
  /\ IF call.kind = "leg"
     THEN om' = ordmap_on_disconnect(om) /\ lo' = [lo EXCEPT ![call.ord] = Refused]
     ELSE UNCHANGED <<om, lo>>

\* wait_for reaches its deadline; the link stays up.
wait_for_expires ==
  /\ call /= Idle /\ count.timeouts < MaxTimeouts
  /\ count' = [count EXCEPT !.timeouts = @ + 1]
  /\ GiveUp
  /\ book' = [book EXCEPT !.late = @ + IF call.kind = "book" THEN 1 ELSE 0]
  /\ UNCHANGED <<up, forgotten, exchange, line>>

\* pump_once fails, in a wait or in the idle callback: the link is down.
pump_once_fails ==
  /\ up /\ ~conn /\ up' = FALSE
  /\ IF call = Idle THEN UNCHANGED <<call, om, lo>> ELSE GiveUp
  /\ UNCHANGED <<forgotten, book, exchange, line, count>>

-----------------------------------------------------------------------------
(* Connections.                                                             *)

\* The requests the exchange has not read may be lost with the connection.
Break ==
  /\ conn /\ count.losses < MaxLosses /\ count' = [count EXCEPT !.losses = @ + 1]
  /\ conn' = FALSE /\ sent' \in {sent, <<>>}
  /\ UNCHANGED <<ledger, exchange, replies>>

\* The exchange keeps its book and its numbers in memory only.
VenueRestart ==
  /\ count.losses < MaxLosses /\ count' = [count EXCEPT !.losses = @ + 1]
  /\ conn' = FALSE /\ sent' = <<>> /\ resting' = <<>> /\ next' = 1
  /\ UNCHANGED <<ledger, replies, taken>>

\* Faulty: the table outlives the connection.
link_connect_keeping_map ==
  /\ ~up /\ sent = <<>>
  /\ up' = TRUE /\ conn' = TRUE /\ replies' = <<>>
  /\ forgotten' = DOMAIN lo
  /\ book' = [book EXCEPT !.lag = 0, !.late = 0]
  /\ UNCHANGED <<lo, call, om, sent, exchange, count>>

\* Faulty: the frames read for the old connection are answers on the new one.
link_connect_keeping_session ==
  /\ ~up /\ sent = <<>>
  /\ up' = TRUE /\ conn' = TRUE /\ om' = <<>>
  /\ forgotten' = DOMAIN lo
  /\ book' = [book EXCEPT !.lag = 0, !.late = 0]
  /\ UNCHANGED <<lo, call, sent, replies, exchange, count>>

\* Faulty: the link is only retried while no order is on record.
link_connect_once ==
  /\ ~up /\ sent = <<>> /\ om = <<>>
  /\ up' = TRUE /\ conn' = TRUE /\ replies' = <<>>
  /\ forgotten' = DOMAIN lo
  /\ book' = [book EXCEPT !.lag = 0, !.late = 0]
  /\ UNCHANGED <<lo, call, om, sent, exchange, count>>

\* The idle callback dials again. The exchange serves one connection at a time
\* and reads the old one to its end first; session and table start empty.
link_connect ==
  /\ ~up /\ sent = <<>>
  /\ up' = TRUE /\ conn' = TRUE /\ replies' = <<>>
  /\ om' = <<>> /\ forgotten' = DOMAIN lo
  /\ book' = [book EXCEPT !.lag = 0, !.late = 0]
  /\ UNCHANGED <<lo, call, sent, exchange, count>>

Next == \/ \E o \in Orders : send_remote(o) \/ cancel_remote(o)
        \/ remote_book \/ on_msg \/ MakerFill \/ on_frame
        \/ wait_for_expires \/ pump_once_fails
        \/ Break \/ VenueRestart \/ link_connect

\* Both processes poll: what has arrived is read, a dead connection is found
\* out by the session's timers, and a link that is down is dialled every second.
Fairness == WF_vars(on_msg) /\ WF_vars(on_frame) /\ WF_vars(pump_once_fails)
            /\ WF_vars(link_connect)

Spec == Init /\ [][Next]_vars /\ Fairness

-----------------------------------------------------------------------------
(* What must hold.                                                          *)

\* The state is well formed, and no leg is ever recorded beyond its shares.
TypeOK ==
  /\ DOMAIN lo \subseteq Orders /\ \A o \in DOMAIN lo : LegLeft(lo[o]) \in 0..Qty
  /\ call.kind \in {"none", "leg", "cancel", "book"}
  /\ {up, conn} \subseteq BOOLEAN
  /\ Len(om) <= MapSize /\ Len(sent) <= QueueCap
  /\ \A i \in DOMAIN om : om[i].st \in {"pending", "live", "indoubt", "done"}
  /\ \A id \in DOMAIN resting : id < next /\ resting[id].qty \in 1..Qty

\* send_remote, on_frame: a leg recorded as accepted carries exactly what the
\* exchange traded for that order on arrival, however many late answers of
\* other orders were read in between.
RecordedAsTraded ==
  \A o \in DOMAIN lo : lo[o].accepted =>
    o \in DOMAIN taken /\ lo[o].filled = taken[o]

\* cancel_remote: a leg that was accepted and that the ledger has closed does
\* not rest at the exchange. ordmap take_slot: an order that rests there and was
\* sent on the connection in use is still in the table, live under its exchange
\* number or not yet known; only an order that is over makes room.
TableFollowsOrders ==
  \A id \in DOMAIN resting :
    LET o == resting[id].cl
    IN  /\ lo[o].accepted => lo[o].live
        /\ o \in forgotten \/
           \E i \in find_cl(om, o) :
             om[i].st \in {"pending", "indoubt"} \/ (om[i].st = "live" /\ om[i].exch = id)

\* link_connect empties the table: an exchange that was started again gives its
\* numbers out anew, and a cancel on its way never names another order's.
CancelNamesItsOrder ==
  \A i \in DOMAIN sent :
    (sent[i].kind = "cancel" /\ sent[i].id \in DOMAIN resting)
      => resting[sent[i].id].cl = sent[i].ord

\* remote_book: an answer to a book query may be an earlier query's, but it is
\* behind by no more than the queries that expired on this connection.
BookNoStaler == book.lag <= book.late

\* wait_for, remote_venues_pump: every call comes back and a link that went down
\* is used again, once connections stop breaking.
CallsReturn == []<>(call = Idle /\ up)
=============================================================================
