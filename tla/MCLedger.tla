------------------------------ MODULE MCLedger ------------------------------
(* Instances of Ledger for TLC.                                             *)
EXTENDS LedgerProperties, TLC

CONSTANTS a1, a2, krx, nxt

Ask1(side, type, price, qty, market) ==
  [side |-> side, type |-> type, price |-> price, qty |-> qty, market |-> market]

Pair == <<krx, nxt>>
OnlyKrx == <<krx>>

\* Two markets whose bands differ by a tick, so an order at price 3 is refused
\* by nxt alone; one synthetic order resting on each side of the pair.
TradeBand  == (krx :> {1, 2, 3}) @@ (nxt :> {1, 2})
TradeSeeds == (krx :> <<[owner |-> -1, side |-> "sell", price |-> 2, qty |-> 1, filled |-> 0]>>)
           @@ (nxt :> <<[owner |-> -1, side |-> "buy", price |-> 1, qty |-> 1, filled |-> 0]>>)
TradeRequests ==
  { Ask1("buy", "limit", 2, 2, AnyMarket), Ask1("sell", "limit", 2, 2, AnyMarket),
    Ask1("buy", "limit", 3, 2, AnyMarket),
    Ask1("buy", "ioc", 2, 2, krx), Ask1("sell", "fok", 1, 2, AnyMarket),
    Ask1("buy", "limit", 1, 1, Nowhere) }
TradeOpening == {[cash |-> 8, qty |-> 3, cost |-> 4]}
NoFeeds == {}

\* One market that follows snapshots: asks that meet the users' bids, bids that
\* meet the users' asks, thicker and thinner levels, and snapshots with an empty
\* side. Each side quotes fewer prices than a pass of apply_feed sees
\* (MSG_BOOK_DEPTH = 10 against 32), and the book has more: stale bids at 1 lie
\* behind a stale price, which takes a second pass, or behind users' orders at 2
\* and 3, which end the loop.
Snapshot(bids, asks) == [buy |-> bids, sell |-> asks]
FeedBand  == krx :> {1, 2, 3}
FeedSeeds == krx :> <<[owner |-> -1, side |-> "buy", price |-> 1, qty |-> 2, filled |-> 0]>>
FeedSet   == { Snapshot(<<2, 0, 0>>, <<0, 1, 0>>), Snapshot(<<0, 2, 0>>, <<0, 0, 3>>),
               Snapshot(<<0, 0, 0>>, <<1, 0, 0>>) }
FeedRequests ==
  { Ask1("buy", "limit", 1, 2, krx), Ask1("buy", "limit", 2, 1, krx),
    Ask1("buy", "limit", 3, 1, krx), Ask1("sell", "limit", 2, 2, krx) }
FeedOpening == {[cash |-> 9, qty |-> 2, cost |-> 3]}
=============================================================================
