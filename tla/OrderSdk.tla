------------------------------ MODULE OrderSdk ------------------------------
(***************************************************************************)
(* The order library a strategy links, sdk/order_sdk.c, and the venue at   *)
(* the other end of its connection. The library writes requests, takes     *)
(* answers and fill notices as they come, and keeps one slot per order     *)
(* until the strategy reaps it. The venue answers in the order it acts and *)
(* the connection keeps that order (Session shows it does). It may trade   *)
(* an order on arrival, at any time later, or never. What an ORDER_ACK     *)
(* counts as filled is cumulative; the notices of the fills it counts come *)
(* before it, or after it as from the peer of fep/tests/test_integration.c *)
(* (199 and 223), and an order of the second kind is `twice`.              *)
(***************************************************************************)
EXTENDS Integers, Sequences, FiniteSets

CONSTANTS SDK_ORDERS_MAX,   \* slots
          MaxOrders,        \* orders the strategy sends
          MaxChanges,       \* cancels and modifies it sends
          Qty,              \* shares of an order
          Sizes,            \* shares a modify may ask for
          Prices,           \* prices a modify may ask for
          FirstPrice,       \* the price an order is sent at
          MaxUnread         \* messages the connection holds, either way

ASSUME SizeAssumption  == Qty \in Nat \ {0} /\ Sizes \subseteq Nat \ {0}
ASSUME BoundAssumption == SDK_ORDERS_MAX \in Nat /\ MaxOrders \in Nat

Slots == 1..SDK_ORDERS_MAX

VARIABLES
  ord,      \* sdk->ord: a record, or NONE where the slot is free
  next,     \* sdk->next_cl_ord_id
  orphans,  \* sdk->orphans
  up,       \* requests the venue has not read
  down,     \* answers and notices the library has not read
  venue,    \* the venue's orders, by the strategy's number
  changes   \* cancels and modifies sent

vars == <<ord, next, orphans, up, down, venue, changes>>

NONE == [state |-> "NONE"]

Init == /\ ord = [s \in Slots |-> NONE] /\ next = 1 /\ orphans = 0
        /\ up = <<>> /\ down = <<>> /\ venue = <<>> /\ changes = 0

-----------------------------------------------------------------------------
(* Slots.                                                                   *)

Used == {s \in Slots : ord[s].state # "NONE"}
find(cl) == {s \in Used : ord[s].cl = cl}
find_by_order_id(id) == {s \in Used : id # 0 /\ ord[s].id = id}

\* The slot of an answer: by our number, then by the venue's.
Addressee(m) == IF find(m.cl) # {} THEN find(m.cl) ELSE find_by_order_id(m.id)

\* Mutant: with no slot free the first one is taken all the same.
take_slot_overwriting(s) ==
  \/ ord[s].state = "NONE" /\ \A t \in 1..(s - 1) : ord[t].state # "NONE"
  \/ s = 1 /\ Used = Slots

take_slot(s) == /\ ord[s].state = "NONE"
                /\ \A t \in 1..(s - 1) : ord[t].state # "NONE"

settle(o) == IF o.filled + o.canceled >= o.qty THEN [o EXCEPT !.state = "DONE"] ELSE o
Larger(m, n) == IF m > n THEN m ELSE n
Woken(o) == IF o.state = "PENDING" THEN [o EXCEPT !.state = "LIVE"] ELSE o

-----------------------------------------------------------------------------
(* Sending.                                                                 *)

sdk_new_order ==
  /\ next <= MaxOrders
  /\ \E s \in Slots :
       /\ take_slot(s)
       /\ ord' = [ord EXCEPT ![s] = [cl |-> next, id |-> 0, state |-> "PENDING",
                                     qty |-> Qty, price |-> FirstPrice,
                                     filled |-> 0, canceled |-> 0]]
  /\ up' = Append(up, [kind |-> "order", cl |-> next, id |-> 0,
                      price |-> FirstPrice, qty |-> Qty])
  /\ next' = next + 1
  /\ UNCHANGED <<orphans, down, venue, changes>>

\* An order still known, and not over: what may be cancelled or modified.
mutable_order(s) == ord[s].state \notin {"NONE", "DONE"}

Request(kind, s, p, q) ==
  /\ mutable_order(s) /\ changes < MaxChanges /\ changes' = changes + 1
  /\ up' = Append(up, [kind |-> kind, cl |-> ord[s].cl, id |-> ord[s].id,
                      price |-> p, qty |-> q])
  /\ UNCHANGED <<ord, next, orphans, down, venue>>

sdk_cancel == \E s \in Slots : Request("cancel", s, FirstPrice, Qty)
sdk_modify == \E s \in Slots, p \in Prices, q \in Sizes : Request("modify", s, p, q)

sdk_reap_done ==
  /\ \E s \in Slots : ord[s].state = "DONE"
  /\ ord' = [s \in Slots |-> IF ord[s].state = "DONE" THEN NONE ELSE ord[s]]
  /\ UNCHANGED <<next, orphans, up, down, venue, changes>>

-----------------------------------------------------------------------------
(* Receiving.                                                               *)

\* The slot a search from the first one finds.
Found(slots) == CHOOSE s \in slots : \A t \in slots : s <= t

\* The record of the order the message is about becomes o, if we know it.
Take(slots, o) ==
  /\ down' = Tail(down)
  /\ IF slots = {} THEN orphans' = orphans + 1 /\ UNCHANGED ord
                   ELSE ord' = [ord EXCEPT ![Found(slots)] = o] /\ UNCHANGED orphans
  /\ UNCHANGED <<next, up, venue, changes>>

Told(kind) == down # <<>> /\ Head(down).kind = kind

\* Mutant: what the answer counts is added to what the notices told.
sdk_on_order_ack_adding ==
  /\ Told("order")
  /\ LET m == Head(down)
         known == [ord[Found(find(m.cl))] EXCEPT !.id = m.id]
     IN Take(find(m.cl), IF ~m.ok THEN [known EXCEPT !.state = "DONE"]
                         ELSE settle(Woken([known EXCEPT !.filled = @ + m.n])))

\* The answer counts all that is filled so far: the larger count is taken.
sdk_on_order_ack ==
  /\ Told("order")
  /\ LET m == Head(down)
         known == [ord[Found(find(m.cl))] EXCEPT !.id = m.id]
     IN Take(find(m.cl), IF ~m.ok THEN [known EXCEPT !.state = "DONE"]
                         ELSE settle(Woken([known EXCEPT !.filled = Larger(m.n, @)])))

\* A refused cancel leaves the order as it is.
sdk_on_cancel_ack ==
  /\ Told("cancel")
  /\ LET m == Head(down)
         o == ord[Found(Addressee(m))]
     IN Take(Addressee(m), IF ~m.ok THEN o
                           ELSE settle([o EXCEPT !.canceled = Larger(m.n, @)]))

sdk_on_modify_ack ==
  /\ Told("modify")
  /\ LET m == Head(down)
         o == ord[Found(Addressee(m))]
     IN Take(Addressee(m), IF ~m.ok THEN o ELSE [o EXCEPT !.price = m.n])

sdk_on_fill ==
  /\ Told("fill")
  /\ LET m == Head(down)
         o == ord[Found(Addressee(m))]
     IN Take(Addressee(m), settle(Woken([o EXCEPT !.filled = @ + m.n])))

-----------------------------------------------------------------------------
(* The venue and the connection.                                            *)

Say(kind, cl, id, ok, n) == [kind |-> kind, cl |-> cl, id |-> id, ok |-> ok, n |-> n]
Open(cl) == venue[cl].qty - venue[cl].traded - venue[cl].canceled
Asked(kind) == up # <<>> /\ Head(up).kind = kind

\* An order of number cl gets the venue's number cl + MaxOrders. What it trades
\* on arrival is told by notices alone, by notices before the answer that
\* counts them, or by notices after it.
on_order ==
  /\ Asked("order") /\ Len(down) < MaxUnread
  /\ LET r == Head(up)
         id == r.cl + MaxOrders
         Placed(k, over, twice) == [id |-> id, price |-> r.price, qty |-> Qty, traded |-> k,
                                    canceled |-> over, twice |-> twice]
         Fill(k) == Say("fill", r.cl, id, TRUE, k)
         Ack(k) == Say("order", r.cl, id, TRUE, k)
     IN \/ /\ venue' = Append(venue, Placed(0, Qty, FALSE))
           /\ down' = Append(down, Say("order", r.cl, 0, FALSE, 0))
        \/ /\ venue' = Append(venue, Placed(0, 0, FALSE)) /\ down' = Append(down, Ack(0))
        \/ \E k \in 1..Qty, twice \in BOOLEAN :
             /\ venue' = Append(venue, Placed(k, 0, twice))
             /\ down' \in IF twice THEN {down \o <<Ack(k), Fill(k)>>}
                         ELSE {down \o <<Ack(0), Fill(k)>>, down \o <<Fill(k), Ack(k)>>}
  /\ up' = Tail(up) /\ UNCHANGED <<ord, next, orphans, changes>>

\* A resting order trades. The notice may name it by the venue's number alone.
Trade ==
  /\ Len(down) < MaxUnread
  /\ \E cl \in DOMAIN venue : \E k \in 1..Open(cl), named \in {0, cl} :
       /\ venue' = [venue EXCEPT ![cl].traded = @ + k]
       /\ down' = Append(down, Say("fill", named, venue[cl].id, TRUE, k))
       /\ UNCHANGED <<ord, next, orphans, up, changes>>

\* A request that carries no number of the venue's is looked up by ours, as
\* sdk_cancel asks, or is not found, as in ledger_core.c.
on_change ==
  /\ Asked("cancel") \/ Asked("modify")
  /\ Len(down) < MaxUnread
  /\ LET r == Head(up)
     IN \/ /\ r.id = 0 \/ Open(r.cl) = 0 \/ r.kind = "modify"
           /\ down' = Append(down, Say(r.kind, r.cl, r.id, FALSE, 0)) /\ UNCHANGED venue
        \/ /\ r.kind = "cancel" /\ Open(r.cl) > 0
           /\ down' = Append(down, Say("cancel", r.cl, venue[r.cl].id, TRUE, Open(r.cl)))
           /\ venue' = [venue EXCEPT ![r.cl].canceled = @ + Open(r.cl)]
        \/ /\ r.kind = "modify" /\ Open(r.cl) > 0 /\ r.qty > venue[r.cl].traded
           /\ down' = Append(down, Say("modify", r.cl, venue[r.cl].id, TRUE, r.price))
           /\ venue' = [venue EXCEPT ![r.cl].price = r.price, 
                                        ![r.cl].qty = r.qty]
  /\ up' = Tail(up) /\ UNCHANGED <<ord, next, orphans, changes>>

-----------------------------------------------------------------------------
Next == \/ sdk_new_order \/ sdk_cancel \/ sdk_modify \/ sdk_reap_done
        \/ sdk_on_order_ack \/ sdk_on_cancel_ack \/ sdk_on_modify_ack \/ sdk_on_fill
        \/ on_order \/ Trade \/ on_change

Spec == Init /\ [][Next]_vars

-----------------------------------------------------------------------------
(* Properties.                                                              *)

\* Nothing about the order is on its way to the library.
Heard(cl) == /\ cl \in DOMAIN venue
             /\ \A i \in DOMAIN down : down[i].cl # cl /\ down[i].id # venue[cl].id

\* What a record can follow: fills told once, and no change of the quantity. A
\* MODIFY_ACK carries the price alone and sdk_on_modify_ack keeps the old
\* quantity, whatever was asked for.
Followed(v) == ~v.twice /\ v.qty = Qty

\* Once every answer about an order has been read, its record is the venue's:
\* the shares traded and cancelled, the price, and whether it is over. Notices
\* and the count of an answer overlap, come in either order and name the order
\* by either number (order_sdk.c:268-388). Shares told twice are counted twice,
\* never less than once.
RecordIsVenues ==
  \A s \in Used : LET o == ord[s] IN Heard(o.cl) =>
    LET v == venue[o.cl] IN
    /\ Followed(v) => (o.filled = v.traded /\ (o.state = "DONE" <=> Open(o.cl) = 0))
    /\ v.id = o.id => (o.filled >= v.traded /\ o.canceled = v.canceled /\ o.price = v.price)
    /\ o.state # "PENDING"

\* An order that may still trade is in a slot the strategy can cancel it from:
\* it is never taken for over, and its slot never given to another
\* (order_sdk.h:56-57, order_sdk.c:100-108, 318-324, 458-472). Not so when its
\* fills are told twice.
NoOrderForgotten ==
  \A cl \in DOMAIN venue : Open(cl) > 0 /\ Followed(venue[cl]) =>
    \E s \in Slots : mutable_order(s) /\ ord[s].cl = cl
=============================================================================
