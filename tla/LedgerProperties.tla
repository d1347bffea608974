-------------------------- MODULE LedgerProperties --------------------------
(* What the ledger's accounts, order map and books owe one another.         *)
EXTENDS Ledger, Recon

Legs(id)  == orders[id].legs
OrdersOf(a, side) ==
  {id \in Ids : IsOrder(orders[id]) /\ orders[id].acct = a /\ orders[id].side = side}

Total(S, f(_)) == FoldFunction(LAMBDA x, y : x + y, 0, [x \in S |-> f(x)])

TypeOK ==
  /\ acct \in [Accounts -> Account] /\ open \subseteq Accounts
  /\ Len(orders) <= OrderCap
  /\ \A id \in Ids : IsOrder(orders[id]) =>
       /\ orders[id].acct \in open /\ orders[id].side \in Side
       /\ DOMAIN Legs(id) \subseteq Markets
  /\ \A m \in Markets : Len(book[m]) <= PoolCap
  /\ fed \in [Markets -> BOOLEAN]
  /\ issued \in [Markets -> 0..MaxSynth]
  /\ strategy \in Strategies
  /\ failed \subseteq Assertions

\* Every account operation and every record update the code asserts to succeed
\* does: no settlement, release or cancel, in whatever order they come, asks
\* for money or shares that are not reserved (the assertions of settle_fill,
\* on_event, release_unused, cancel_order and exec_submit_via).
NoAssertFails == failed = {}

OrdersAddUp == \A id \in Ids : IsOrder(orders[id]) => recon_order(orders[id]) = {}
PlansAddUp  == \A r \in Requests : r.market = AnyMarket => plan_validate(Route(r), r.qty)

\* The reconciliation of core/recon.h finds nothing to report about any order,
\* after any message: its legs carry its whole quantity, none has more done
\* than was sent, a live one has something left, and money was booked exactly
\* where shares were. Makers are booked from events, takers from the report.
\* Nor could the next order fail it: whatever the books show, the strategy
\* divides every request into legs that add up to it, the rounding of a
\* proportional share and a quantity nobody offers included.
OrdersReconcile == OrdersAddUp /\ PlansAddUp

\* The shares held back are those of live sell orders, and both balance
\* invariants of account.h hold: an account that has sold out carries no cost.
HeldBacksSells ==
  \A a \in Accounts :
    /\ acct[a].held = Total(OrdersOf(a, "sell"), LAMBDA id : omap_remaining(orders[id]))
    /\ Sound(acct[a])
    /\ acct[a].qty = 0 => acct[a].cost = 0

InBook(id, m) == {i \in DOMAIN book[m] : book[m][i].owner = id}

\* The order map and the books tell the same story: a leg is live exactly when
\* its order rests in its market, at the order's side and limit, with what the
\* map says is left; no user's order rests anywhere the map does not know; and
\* no book shows a bid at or above an ask.
MapAgreesWithBook ==
  /\ \A id \in Ids : IsOrder(orders[id]) =>
       \A m \in DOMAIN Legs(id) :
         IF Legs(id)[m].live
         THEN \E i \in DOMAIN book[m] :
                /\ InBook(id, m) = {i}
                /\ book[m][i].side = orders[id].side
                /\ book[m][i].price = orders[id].limit
                /\ Rem(book[m][i]) = LegLeft(Legs(id)[m])
         ELSE InBook(id, m) = {} /\ LegLeft(Legs(id)[m]) = 0
  /\ \A m \in Markets : \A i \in DOMAIN book[m] :
       IsUser(book[m][i].owner) =>
         /\ book[m][i].owner \in Ids /\ IsOrder(orders[book[m][i].owner])
         /\ m \in DOMAIN Legs(book[m][i].owner)
  /\ \A m \in Markets : NeverCrossed(book[m])

-----------------------------------------------------------------------------
Traded(a, side) == Total(OrdersOf(a, side), LAMBDA id : omap_notional(orders[id]))
Shares(a, side) == Total(OrdersOf(a, side), LAMBDA id : omap_filled_qty(orders[id]))
OpenReserved(a) ==
  Total(OrdersOf(a, "buy"), LAMBDA id : orders[id].limit * omap_remaining(orders[id]))

\* What reconciling account a over one message is handed.
Interval(a) ==
  [cash_start |-> acct[a].cash, deposits |-> 0, withdrawals |-> 0,
   buy_notional  |-> Traded(a, "buy")'  - Traded(a, "buy"),
   sell_notional |-> Traded(a, "sell")' - Traded(a, "sell"),
   cash_now |-> acct'[a].cash, reserved_now |-> acct'[a].reserved,
   open_reserved |-> OpenReserved(a)']

Worth(a) == acct[a].cash + acct[a].cost - acct[a].realized

\* The reconciliation finds nothing to report about any account over any
\* message but ACCOUNT_OPEN: cash moves by exactly the notional its orders
\* gained, and what stays reserved is the limit price times the quantity its
\* buy orders still have alive in a book (the invariant of ledger_core.h). Its
\* position grows by what its orders gained in shares, and a trade turns cash
\* into cost and cost into cash and realized gain without making or losing any,
\* the rounding of the cost taken out included.
SettledAsRecorded ==
  [][opens' = opens =>
       \A a \in Accounts :
         /\ recon_account(Interval(a)) = {}
         /\ acct'[a].qty - acct[a].qty =
              Shares(a, "buy")' - Shares(a, "buy") - (Shares(a, "sell")' - Shares(a, "sell"))
         /\ Worth(a)' = Worth(a)]_vars

NewOrder == Len(orders') > Len(orders) /\ IsOrder(orders'[Len(orders')])

Successors(status) ==
  CASE status = "new"     -> {"new", "partial", "filled", "canceled"}
    [] status = "partial" -> {"partial", "filled"}
    [] OTHER              -> {status}

\* What a client was told stays true. An order answered as refused left nothing
\* behind: no fill, no reservation, no change to any book (executor.h: it is
\* refused only when no leg was taken). An order with nothing left is never
\* touched again, whatever arrives after it, and the status a query reports
\* only moves forward. A limit order that finds the order pool full after it
\* has traded would break this; it cannot, because it has freed a slot.
AnswersStand ==
  [][/\ NewOrder /\ exec_status(orders'[Len(orders')]) = "rejected" =>
          acct' = acct /\ book' = book
     /\ \A id \in Ids : IsOrder(orders[id]) =>
          /\ exec_status(orders'[id]) \in Successors(exec_status(orders[id]))
          /\ omap_remaining(orders[id]) = 0 => orders'[id] = orders[id]]_vars

OneBook == FlattenSeq([k \in DOMAIN Venues |-> book[Venues[k]]])

\* An order the SWEEP strategy divides fares exactly as it would have in one
\* book holding the orders of every market (strategy_sweep.c:11-13): it trades
\* as many shares, for the same money, whenever no market refuses its leg.
SweepIsOneBook ==
  [][strategy = "sweep" /\ NewOrder =>
       LET lo   == orders'[Len(orders')]
           best == match_sweep(OneBook, [owner |-> FeedId, side |-> lo.side,
                                         price |-> lo.limit, qty |-> lo.qty])
       IN  lo.market = AnyMarket /\ (\A m \in DOMAIN lo.legs : lo.legs[m].accepted) =>
             /\ omap_filled_qty(lo) = lo.qty - best.left
             /\ omap_notional(lo) =
                  Sum([k \in DOMAIN best.fills |-> best.fills[k].price * best.fills[k].qty])]_vars

\* Shares waiting ahead of place i of book b, at its price.
AheadOf(b, i) ==
  Total({k \in DOMAIN b : k < i /\ b[k].side = b[i].side /\ b[k].price = b[i].price},
        LAMBDA k : Rem(b[k]))

\* And of user order id, where it rests in m.
Ahead(id, m) == AheadOf(book[m], CHOOSE i \in InBook(id, m) : TRUE)

\* A resting order only ever moves up in its queue: neither other orders, nor
\* synthetic traders, nor a feed that changes the quantity at its price put
\* anything in front of it.
PlaceInQueueKept ==
  [][\A id \in Ids, m \in Markets :
       InBook(id, m) # {} /\ InBook(id, m)' # {} => Ahead(id, m)' <= Ahead(id, m)]_vars

\* The prices in front of p that snapshot f does not clear of book b: those it
\* quotes itself, and those where a user's order rests.
KeptInFront(b, f, side, p) ==
  {q \in Price : /\ Nearer(Opposite(side), q, p)
                 /\ \/ f[side][q] > 0
                    \/ \E i \in DOMAIN b : /\ b[i].side = side /\ b[i].price = q
                                           /\ IsUser(b[i].owner)}

\* After a snapshot a stale quote, more shares of others at a price than the
\* snapshot shows there, survives only behind ScanDepth prices that the
\* snapshot quotes or a user's order keeps: any number of stale prices in
\* front of it is no shelter, because the loop looks again after every pass
\* that removed something (ledger_core.c:1334-1351).
FeedReplacesQuotes ==
  [][issued' = issued /\ Len(orders') = Len(orders) =>
       \A m \in Markets, f \in Feeds, side \in Side, p \in Price :
         fed'[m] /\ ForeignAt(book'[m], side, p) > f[side][p] /\ ApplyFeed(m, f)
           => Cardinality(KeptInFront(book[m], f, side, p)) >= ScanDepth]_vars
=============================================================================
