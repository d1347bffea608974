------------------------------- MODULE Ledger -------------------------------
(***************************************************************************)
(* The ledger core, ledger/src/ledger_core.c: accounts, the record of      *)
(* orders and one matching engine per market, in one process that handles  *)
(* one message at a time. A fill is settled in one place, the engine's     *)
(* event callback (on_event), whoever was the maker; what an order will    *)
(* never fill is released when the order is answered or cancelled.         *)
(*                                                                         *)
(* A handler is many calls that each change something, so it is written as *)
(* operators that thread the whole state `s` through those calls in their  *)
(* order; an action takes the state before the message to the one after    *)
(* it. An account operation or a record update the code asserts to succeed *)
(* is noted in s.failed when it is refused: a build with assertions stops  *)
(* there, a Release build goes on without the operation, which is what the *)
(* operators do.                                                           *)
(***************************************************************************)
EXTENDS AccountOps, Routing, OrderMap, FiniteSets

CONSTANTS
  Accounts,      \* account numbers
  Band,          \* Band[m]: the prices the book of m takes
  Requests,      \* order requests: [side, type, price, qty, market]
  OrderCap,      \* cfg.order_capacity: logical orders ever taken
  AccountCap,    \* cfg.account_capacity
  PoolCap,       \* slots of an engine's order pool
  Strategies,    \* what cfg.strategy may be; best_price when it is not set
  Opening,       \* ACCOUNT_OPEN messages: [cash, qty, cost]
  FirstAccount,  \* the account the configuration opens
  FirstCash,     \* and what it is opened with
  Seeds,         \* Seeds[m]: synthetic orders resting when the market starts
  SynthSizes,    \* quantities a synthetic order may have
  Feeds,         \* market data snapshots: [buy, sell], each price -> quantity
  ScanDepth,     \* LEDGER_FEED_SCAN_DEPTH
  OpenWhenFlat,  \* TRUE: ACCOUNT_OPEN comes only for accounts with no live order
  MaxOpens,      \* bound: ACCOUNT_OPEN messages in a behaviour
  MaxSynth       \* bound: synthetic orders ever issued in one market

\* A market starts from orders of nobody here, uncrossed and within the pool.
\* Requests are those validate_order lets through; a seeded position without
\* shares carries no cost, as every position the ledger reported.
SeedsOK(b) ==
  /\ Len(b) <= PoolCap /\ Len(b) <= MaxSynth
  /\ \A i \in DOMAIN b : b[i].owner <= 0 /\ Rem(b[i]) > 0
  /\ NeverCrossed(b)

ASSUME LedgerAssumption ==
  /\ Band \in [Markets -> SUBSET Price]
  /\ \A r \in Requests : /\ r.side \in Side /\ r.type \in OrderType
                         /\ r.price \in Nat \ {0} /\ r.qty \in Nat \ {0}
  /\ OrderCap \in Nat /\ AccountCap \in Nat /\ PoolCap \in Nat /\ ScanDepth \in Nat
  /\ MaxOpens \in Nat /\ MaxSynth \in Nat
  /\ FirstAccount \in Accounts /\ FirstCash \in Int
  /\ \A o \in Opening : /\ o.cash \in Int /\ o.qty \in Int /\ o.cost \in Int
                        /\ o.qty = 0 => o.cost = 0
  /\ Seeds \in [Markets -> Seq(BookOrder)] /\ \A m \in Markets : SeedsOK(Seeds[m])
  /\ SynthSizes \subseteq Nat \ {0} /\ Strategies \subseteq Strategy
  /\ Feeds \subseteq [buy : [Price -> Nat], sell : [Price -> Nat]]
  /\ OpenWhenFlat \in BOOLEAN

AnyMarket == "auto"      \* MSG_MARKET_AUTO: the strategy picks the legs
Nowhere   == "nowhere"   \* a market code past MARKET_COUNT
FeedId    == 0           \* resting orders put there by a feed; synthetic ones
                         \* are -1, -2, ... and users' are logical order ids

VARIABLES
  acct,     \* acct[a], an AccountOps record
  open,     \* the accounts in use
  orders,   \* the order map: orders[id] is a logical order or NoOrder
  book,     \* book[m]
  fed,      \* fed[m]: m follows market data, the synthetic traders pause
  issued,   \* issued[m]: synthetic orders issued so far
  failed,   \* the assertions of the code that did not hold
  strategy, \* cfg.strategy, which divides the orders that name no market
  opens     \* counts towards MaxOpens

vars == <<acct, open, orders, book, fed, issued, failed, strategy, opens>>

NoOrder == [acct |-> "none"]     \* an id handed out to an order without a plan

Ids          == DOMAIN orders
IsOrder(lo)  == lo # NoOrder
IsUser(owner) == owner > 0

-----------------------------------------------------------------------------
(* The state a handler threads through its calls, and what it counts while *)
(* it handles one message: the legs refused, the shares filled, the shares *)
(* cancelled.                                                              *)

Now == [acct |-> acct, orders |-> orders, book |-> book, failed |-> failed,
        refused |-> 0, filled |-> 0, canceled |-> 0]

\* What the code asserts: that an account operation and a leg's update succeed,
\* that no buyer pays more than its limit, and that no more than the order was
\* filled or works.
Assertions == {"account", "leg", "improvement", "never"}
Fails(s, assertion) == [s EXCEPT !.failed = @ \cup {assertion}]

Become(s) == /\ acct' = s.acct /\ orders' = s.orders
             /\ book' = s.book /\ failed' = s.failed

AcctCall(s, a, r) ==
  IF Accepts(s.acct[a], r) THEN [s EXCEPT !.acct[a] = Outcome(@, r)]
                           ELSE Fails(s, "account")

LegFill(s, id, m, qty, notional) ==
  IF Takes(s.orders[id].legs[m], qty)
  THEN [s EXCEPT !.orders[id].legs[m] = omap_on_fill(@, qty, notional)]
  ELSE Fails(s, "leg")

LegCancel(s, id, m, qty) ==
  IF Takes(s.orders[id].legs[m], qty)
  THEN [s EXCEPT !.orders[id].legs[m] = omap_on_cancel(@, qty)]
  ELSE Fails(s, "leg")

\* A buyer pays from what was reserved and gets the improvement back; a seller
\* is paid and gives up shares that were held for the order.
settle_fill(s, id, price, qty) ==
  LET lo   == s.orders[id]
      gain == (lo.limit - price) * qty
      paid == AcctCall(s, lo.acct, Ask("settle", price * qty))
      back == IF gain > 0 THEN AcctCall(paid, lo.acct, Ask("release", gain)) ELSE paid
  IN  IF lo.side = "buy"
      THEN AcctCall(IF gain < 0 THEN Fails(back, "improvement") ELSE back,
                    lo.acct, AskAt("buy_fill", qty, price))
      ELSE AcctCall(AcctCall(s, lo.acct, Ask("deposit", price * qty)),
                    lo.acct, AskAt("sell_fill", qty, price))

\* Faulty: a maker's fill is settled but not recorded.
on_event_unrecorded(s, m, owner, price, qty, submitting) ==
  IF IsUser(owner) THEN settle_fill(s, owner, price, qty) ELSE s

\* One side of a trade. The order being submitted is recorded from its result,
\* later; everyone else's is recorded here.
on_event(s, m, owner, price, qty, submitting) ==
  IF ~IsUser(owner) THEN s
  ELSE settle_fill(IF owner = submitting THEN s
                   ELSE LegFill(s, owner, m, qty, price * qty),
                   owner, price, qty)

\* The engine reports each fill to the maker's side first, then the taker's.
Trades(s, m, fills, taker, submitting) ==
  FoldLeft(LAMBDA t, f :
             on_event(on_event(t, m, f.maker, f.price, f.qty, submitting),
                      m, taker, f.price, f.qty, submitting),
           s, fills)

\* Faulty: a seller's shares are never given back.
release_unused_buy_only(s, lo, qty) ==
  IF qty <= 0 \/ lo.side = "sell" THEN s
  ELSE AcctCall(s, lo.acct, Ask("release", lo.limit * qty))

release_unused(s, lo, qty) ==
  IF qty <= 0 THEN s
  ELSE AcctCall(s, lo.acct,
                IF lo.side = "buy" THEN Ask("release", lo.limit * qty)
                                   ELSE Ask("sell_release", qty))

-----------------------------------------------------------------------------
(* ORDER_REQ: process_order.                                               *)

Taken(fills) == Sum([k \in DOMAIN fills |-> fills[k].qty])
Money(fills) == Sum([k \in DOMAIN fills |-> fills[k].price * fills[k].qty])

NoteFill(s, id, m, qty, notional) == IF qty > 0 THEN LegFill(s, id, m, qty, notional) ELSE s
DropRest(s, id, m, qty)           == IF qty > 0 THEN LegCancel(s, id, m, qty) ELSE s

\* An accepted leg records its fills, then cancels what neither filled nor rests.
LegAccepted(s, id, m, r) ==
  LET known == [s EXCEPT !.orders[id].legs[m] = omap_on_accept(@), !.filled = @ + Taken(r.fills)]
  IN  DropRest(NoteFill(known, id, m, Taken(r.fills), Money(r.fills)),
               id, m, IF r.resting THEN 0 ELSE r.left)

\* A refused leg is recorded as cancelled whole.
LegRefused(s, id, leg) == [LegCancel(s, id, leg.market, leg.qty) EXCEPT !.refused = @ + 1]

LegAnswered(s, id, leg, r) ==
  LET dealt == Trades([s EXCEPT !.book[leg.market] = r.book], leg.market, r.fills, id, id)
  IN  IF r.rc = "ok" THEN LegAccepted(dealt, id, leg.market, r) ELSE LegRefused(dealt, id, leg)

\* exec_submit_via, one leg.
SendLeg(s, id, type, leg) ==
  LegAnswered(s, id, leg,
    Submit(type, s.book[leg.market], Band[leg.market], PoolCap,
           [owner |-> id, side |-> s.orders[id].side,
            price |-> s.orders[id].limit, qty |-> leg.qty]))

exec_submit(s, id, type, plan) ==
  FoldLeft(LAMBDA t, leg : SendLeg(t, id, type, leg), s, plan)

\* An order that names a market is one leg there; a market code past the last
\* adds no leg.
Route(r) == CASE r.market = AnyMarket    -> routing_plan(strategy, book, r)
              [] r.market = Nowhere -> << >>
              [] OTHER              -> <<[market |-> r.market, qty |-> r.qty]>>

Registered(a, r, plan) ==
  [acct |-> a, side |-> r.side, limit |-> r.price, qty |-> r.qty, market |-> r.market,
   legs |-> [m \in {plan[i].market : i \in DOMAIN plan} |->
               NewLeg(plan[CHOOSE i \in DOMAIN plan : plan[i].market = m].qty)]]

\* validate_order reserves a buyer's money, process_order a seller's shares. A
\* request that fails the reservation or comes after the last id is refused
\* before anything has changed.
Reservation(r) == IF r.side = "buy" THEN Ask("reserve", r.price * r.qty)
                                    ELSE Ask("sell_reserve", r.qty)

Admitted(a, r) == /\ a \in open
                  /\ Len(orders) < OrderCap
                  /\ Accepts(acct[a], Reservation(r))

Reserved(a, r) == AcctCall(Now, a, Reservation(r))

\* Faulty: what rests in a book is released as well.
AnsweredReleasingAll(s, id) ==
  LET lo == s.orders[id]
  IN  IF s.refused = Cardinality(DOMAIN lo.legs) THEN release_unused(s, lo, lo.qty)
      ELSE release_unused(s, lo, lo.qty - s.filled)

\* The reply of process_order: every leg refused means the order is, and the
\* whole reservation goes back; otherwise what neither filled nor works does.
Answered(s, id) ==
  LET lo    == s.orders[id]
      never == lo.qty - s.filled - omap_remaining(lo)
  IN  IF s.refused = Cardinality(DOMAIN lo.legs) THEN release_unused(s, lo, lo.qty)
      ELSE release_unused(IF never < 0 THEN Fails(s, "never") ELSE s, lo, never)

SubmitOrder(a) ==
  \E r \in Requests :
    /\ Admitted(a, r)
    /\ \E plan \in {Route(r)} :
         /\ plan_validate(plan, r.qty)
         /\ LET s  == Reserved(a, r)
                id == Len(orders) + 1
                t  == [s EXCEPT !.orders = Append(@, Registered(a, r, plan))]
            IN  Become(Answered(exec_submit(t, id, r.type, plan), id))
    /\ UNCHANGED <<open, fed, issued, opens>>

\* A plan without a leg is found out only after the reservation and the order
\* id; the reservation goes back.
SubmitNowhere(a) ==
  \E r \in Requests :
    /\ Admitted(a, r)
    /\ ~plan_validate(Route(r), r.qty)
    /\ LET s == Reserved(a, r)
       IN  Become(release_unused([s EXCEPT !.orders = Append(@, NoOrder)],
                                 [acct |-> a, side |-> r.side, limit |-> r.price], r.qty))
    /\ UNCHANGED <<open, fed, issued, opens>>

-----------------------------------------------------------------------------
(* CANCEL_REQ: cancel_order. The legs are visited in the order of the      *)
(* markets; one that is no longer live is skipped, one its market does not *)
(* know is left as it is.                                                  *)

CancelLeg(s, id, m) ==
  LET r == match_cancel(s.book[m], id)
  IN  IF m \notin DOMAIN s.orders[id].legs THEN s
      ELSE IF ~s.orders[id].legs[m].live \/ r.rc # "ok" THEN s
      ELSE [LegCancel([s EXCEPT !.book[m] = r.book], id, m, r.left)
              EXCEPT !.canceled = @ + r.left]

exec_cancel(s, id) ==
  FoldLeft(LAMBDA t, m : CancelLeg(t, id, m), s, Venues)

CancelOrder(id) ==
  /\ IsOrder(orders[id])
  /\ \E m \in DOMAIN orders[id].legs : orders[id].legs[m].live
  /\ LET s == exec_cancel(Now, id)
     IN  Become(release_unused(s, orders[id], s.canceled))
  /\ UNCHANGED <<open, fed, issued, opens>>

-----------------------------------------------------------------------------
(* ACCOUNT_OPEN: opens the account if it is new, then puts the channel's   *)
(* position and cash in place of its own, whether it is new or not.        *)

LiveOrderOf(a) ==
  \E id \in Ids : /\ IsOrder(orders[id]) /\ orders[id].acct = a
                  /\ \E m \in DOMAIN orders[id].legs : orders[id].legs[m].live

OpenAccount(a) ==
  /\ a \in open \/ Cardinality(open) < AccountCap
  /\ opens < MaxOpens
  /\ OpenWhenFlat => ~LiveOrderOf(a)
  /\ \E o \in Opening :
       LET was    == IF a \in open THEN acct[a] ELSE Do(EmptyAccount, Ask("deposit", o.cash))
           seeded == Do(was, AskAt("seed", o.qty, o.cost))
       IN  acct' = [acct EXCEPT ![a] = Do(seeded, Ask("set_cash", o.cash))]
  /\ open' = open \cup {a}
  /\ opens' = opens + 1
  /\ UNCHANGED <<orders, book, fed, issued, failed>>

-----------------------------------------------------------------------------
(* Traffic that is nobody's order here: synthetic traders and market data. *)

\* A limit order of no user, trading with whoever rests there.
Foreign(s, m, owner, side, price, qty) ==
  LET r == match_limit(s.book[m], Band[m], PoolCap,
                       [owner |-> owner, side |-> side, price |-> price, qty |-> qty])
  IN  Trades([s EXCEPT !.book[m] = r.book], m, r.fills, owner, owner)

\* ledger_core_tick, one order: the oldest synthetic order is retired once
\* more than the starting number are out, then the new one is sent.
Tick(m) ==
  /\ Len(Seeds[m]) > 0 /\ ~fed[m] /\ issued[m] < MaxSynth
  /\ issued' = [issued EXCEPT ![m] = @ + 1]
  /\ LET n == issued[m] + 1
         s == [Now EXCEPT !.book[m] = match_cancel(@, -(n - Len(Seeds[m]))).book]
     IN  \E side \in Side, price \in Band[m], qty \in SynthSizes :
           Become(Foreign(s, m, -n, side, price, qty))
  /\ UNCHANGED <<open, fed, opens>>

\* An order at this price that is no user's.
Quote(o, side, p) == ~IsUser(o.owner) /\ o.side = side /\ o.price = p

ForeignAt(b, side, p) ==
  Sum([i \in DOMAIN b |-> IF Quote(b[i], side, p) THEN Rem(b[i]) ELSE 0])

\* Take what is still to be dropped from one order, which goes when that is all
\* it has and keeps its place with less otherwise.
DropFrom(acc, o, side, p) ==
  LET n == IF ~Quote(o, side, p) THEN 0
           ELSE IF acc.drop < Rem(o) THEN acc.drop ELSE Rem(o)
  IN  [drop |-> acc.drop - n,
       book |-> IF n = Rem(o) THEN acc.book
                              ELSE Append(acc.book, [o EXCEPT !.qty = @ - n])]

\* Take `drop` shares off the front of the foreign queue at a price.
feed_shrink(b, side, p, drop) ==
  FoldLeft(LAMBDA acc, o : DropFrom(acc, o, side, p), [drop |-> drop, book |-> << >>], b).book

\* A price with an order, and fewer than ScanDepth better ones with an order.
Scanned(b, side, p) ==
  LET Has(q) == \E i \in DOMAIN b : b[i].side = side /\ b[i].price = q
  IN  /\ Has(p)
      /\ Cardinality({q \in Price : Has(q) /\ Nearer(Opposite(side), q, p)}) < ScanDepth

\* One pass over the best ScanDepth prices. A pass that removes nothing, or
\* sees fewer prices than that, is the last: repeating it changes nothing, so
\* as many passes as there are prices make the loop of apply_feed.
ShrinkPass(b, side, want) ==
  FoldLeft(LAMBDA c, p :
             IF Scanned(b, side, p) /\ ForeignAt(c, side, p) > want[p]
             THEN feed_shrink(c, side, p, ForeignAt(c, side, p) - want[p])
             ELSE c,
           b, BestFirst(side))

\* Faulty: one pass is trusted to reach every stale quote.
ShrinkPasses_once(b, side, want) == ShrinkPass(b, side, want)

ShrinkPasses(b, side, want) ==
  FoldLeft(LAMBDA c, k : ShrinkPass(c, side, want), b, [k \in Price |-> k])

Shrunk(b, f) == ShrinkPasses(ShrinkPasses(b, "buy", f.buy), "sell", f.sell)

\* Then what is missing at each price goes in as a limit order at the end of
\* the queue, the best price first; it trades if it meets a user's order.
Insert(s, m, side, want) ==
  FoldLeft(LAMBDA t, p :
             IF want[p] > ForeignAt(t.book[m], side, p)
             THEN Foreign(t, m, FeedId, side, p, want[p] - ForeignAt(t.book[m], side, p))
             ELSE t,
           s, BestFirst(side))

ApplyFeed(m, f) ==
  /\ fed' = [fed EXCEPT ![m] = TRUE]
  /\ \E s \in {[Now EXCEPT !.book[m] = Shrunk(@, f)]} :
     \E t \in {Insert(Insert(s, m, "buy", f.buy), m, "sell", f.sell)} : Become(t)
  /\ UNCHANGED <<open, issued, opens>>

\* MSG_FEED_END: the book stays, the synthetic traders come back.
EndFeed(m) ==
  /\ fed[m]
  /\ fed' = [fed EXCEPT ![m] = FALSE]
  /\ UNCHANGED <<acct, open, orders, book, issued, failed, opens>>

-----------------------------------------------------------------------------
Init ==
  /\ acct = [a \in Accounts |->
               IF a = FirstAccount THEN Do(EmptyAccount, Ask("deposit", FirstCash))
                                   ELSE EmptyAccount]
  /\ open = {FirstAccount}
  /\ orders = << >>
  /\ book = Seeds
  /\ fed = [m \in Markets |-> FALSE]
  /\ issued = [m \in Markets |-> Len(Seeds[m])]
  /\ strategy \in Strategies
  /\ failed = {} /\ opens = 0

Next ==
  /\ \/ \E a \in Accounts : SubmitOrder(a) \/ SubmitNowhere(a) \/ OpenAccount(a)
     \/ \E id \in Ids : CancelOrder(id)
     \/ \E m \in Markets : Tick(m) \/ EndFeed(m) \/ \E f \in Feeds : ApplyFeed(m, f)
  /\ UNCHANGED strategy

Spec == Init /\ [][Next]_vars
=============================================================================
