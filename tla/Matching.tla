------------------------------ MODULE Matching ------------------------------
(***************************************************************************)
(* One market's order book and what the matching engine does with it:      *)
(* exchange/src/book/order_book.c and exchange/src/match/*.c, as pure      *)
(* operators. A book is the sequence of its resting orders in the order    *)
(* they arrived, both sides together: the FIFO list of a price level is    *)
(* the subsequence at that price, so removing an order keeps the queue and *)
(* appending one joins its end.                                            *)
(***************************************************************************)
EXTENDS Integers, Sequences, SequencesExt

CONSTANT MaxPrice      \* prices are ticks 1..MaxPrice

ASSUME MaxPriceAssumption == MaxPrice \in Nat \ {0}

Price     == 1..MaxPrice
Side      == {"buy", "sell"}
OrderType == {"limit", "ioc", "fok"}

\* An order resting in a book.
BookOrder == [owner : Int, side : Side, price : Price, qty : Int, filled : Int]

Opposite(side) == IF side = "buy" THEN "sell" ELSE "buy"
Rem(o)         == o.qty - o.filled

\* A taker on `side` with this limit may trade at price p.
Crosses(side, limit, p) == IF side = "buy" THEN p <= limit ELSE p >= limit

\* Of two prices, the one a taker on this side would rather trade at.
Nearer(side, p, q) == IF side = "buy" THEN p < q ELSE p > q

\* Positions of the orders resting at one price, oldest first.
Level(book, side, p) ==
  SelectSeq([i \in DOMAIN book |-> i],
            LAMBDA i : book[i].side = side /\ book[i].price = p)

BestFirst(side) == [k \in Price |-> IF side = "sell" THEN k ELSE MaxPrice + 1 - k]

Sum(seq) == FoldFunction(LAMBDA x, y : x + y, 0, seq)

\* The orders a taker on this side, with this limit, may trade with.
Makers(book, side, limit) ==
  {i \in DOMAIN book : book[i].side = Opposite(side) /\ Crosses(side, limit, book[i].price)}

\* Shares a taker could get at once (stops counting at `want` in the code,
\* which only ever asks whether there are at least that many).
book_qty_up_to(book, side, limit) ==
  Sum([i \in DOMAIN book |-> IF i \in Makers(book, side, limit) THEN Rem(book[i]) ELSE 0])

\* The maker a taker meets first: the best price, and the oldest order there.
FrontMaker(book, side, limit) ==
  CHOOSE i \in Makers(book, side, limit) :
    \A j \in Makers(book, side, limit) :
      \/ Nearer(side, book[i].price, book[j].price)
      \/ book[i].price = book[j].price /\ i <= j

\* One trade with the front maker, at its price. A maker with nothing left
\* leaves the book, any other keeps its place.
Trade(acc, side, limit) ==
  LET i == FrontMaker(acc.book, side, limit)
      o == acc.book[i]
      n == IF acc.left < Rem(o) THEN acc.left ELSE Rem(o)
  IN  [left  |-> acc.left - n,
       book  |-> IF n = Rem(o) THEN RemoveAt(acc.book, i)
                               ELSE [acc.book EXCEPT ![i].filled = @ + n],
       fills |-> Append(acc.fills, [maker |-> o.owner, price |-> o.price, qty |-> n])]

\* Trade until the taker is done or meets nobody. A round takes an order off the
\* book or is the last, so there are no more rounds than orders.
match_sweep(book, taker) ==
  FoldLeft(LAMBDA acc, o :
             IF acc.left = 0 \/ Makers(acc.book, taker.side, taker.price) = {} THEN acc
             ELSE Trade(acc, taker.side, taker.price),
           [left |-> taker.qty, book |-> book, fills |-> << >>], book)

Result(rc, book, fills, left, resting) ==
  [rc |-> rc, book |-> book, fills |-> fills, left |-> left, resting |-> resting]

Rejected(rc, book, taker) == Result(rc, book, << >>, taker.qty, FALSE)

Resting(taker, left) ==
  [owner |-> taker.owner, side |-> taker.side, price |-> taker.price,
   qty |-> taker.qty, filled |-> taker.qty - left]

\* Faulty: the pool takes one order more than it has slots.
match_limit_overfull(book, band, cap, taker) ==
  LET s == match_sweep(book, taker)
  IN  IF taker.price \notin band THEN Rejected("price_limit", book, taker)
      ELSE IF s.left = 0 THEN Result("ok", s.book, s.fills, 0, FALSE)
      ELSE IF Len(s.book) > cap
           THEN Result("pool_exhausted", s.book, s.fills, s.left, FALSE)
      ELSE Result("ok", Append(s.book, Resting(taker, s.left)), s.fills, s.left, TRUE)

\* Faulty: a new order is put at the head of the book.
match_limit_at_head(book, band, cap, taker) ==
  LET s == match_sweep(book, taker)
  IN  IF taker.price \notin band THEN Rejected("price_limit", book, taker)
      ELSE IF s.left = 0 THEN Result("ok", s.book, s.fills, 0, FALSE)
      ELSE IF Len(s.book) >= cap
           THEN Result("pool_exhausted", s.book, s.fills, s.left, FALSE)
      ELSE Result("ok", <<Resting(taker, s.left)>> \o s.book, s.fills, s.left, TRUE)

\* What a limit order leaves after its sweep s rests. When the order pool has
\* no slot for it the order is refused, but what traded has traded.
match_rest(s, cap, taker) ==
  IF s.left = 0 THEN Result("ok", s.book, s.fills, 0, FALSE)
  ELSE IF Len(s.book) >= cap
       THEN Result("pool_exhausted", s.book, s.fills, s.left, FALSE)
  ELSE Result("ok", Append(s.book, Resting(taker, s.left)), s.fills, s.left, TRUE)

match_limit(book, band, cap, taker) ==
  IF taker.price \notin band THEN Rejected("price_limit", book, taker)
  ELSE match_rest(match_sweep(book, taker), cap, taker)

\* Takes what there is and drops the rest; nothing at all is a refusal.
match_ioc(book, band, taker) ==
  LET s == match_sweep(book, taker)
  IN  IF taker.price \notin band THEN Rejected("price_limit", book, taker)
      ELSE IF s.fills = << >> THEN Rejected("no_liquidity", book, taker)
      ELSE Result("ok", s.book, s.fills, s.left, FALSE)

\* Faulty: sweeps first and refuses if that was not enough.
match_fok_late(book, band, taker) ==
  LET s == match_sweep(book, taker)
  IN  IF taker.price \notin band THEN Rejected("price_limit", book, taker)
      ELSE Result(IF s.left > 0 THEN "no_liquidity" ELSE "ok", s.book, s.fills, s.left, FALSE)

\* Counts first, so a refusal leaves no trace.
match_fok(book, band, taker) ==
  LET s == match_sweep(book, taker)
  IN  IF taker.price \notin band THEN Rejected("price_limit", book, taker)
      ELSE IF book_qty_up_to(book, taker.side, taker.price) < taker.qty
           THEN Rejected("no_liquidity", book, taker)
      ELSE Result("ok", s.book, s.fills, s.left, FALSE)

Submit(type, book, band, cap, taker) ==
  CASE type = "limit" -> match_limit(book, band, cap, taker)
    [] type = "ioc"   -> match_ioc(book, band, taker)
    [] type = "fok"   -> match_fok(book, band, taker)

\* Only an order still in the book can be cancelled; `left` is what it had.
match_cancel(book, owner) ==
  LET mine == {i \in DOMAIN book : book[i].owner = owner}
      i    == CHOOSE k \in mine : TRUE
  IN  IF mine = {} THEN Result("not_found", book, << >>, 0, FALSE)
      ELSE Result("ok", RemoveAt(book, i), << >>, Rem(book[i]), FALSE)

NeverCrossed(book) ==
  \A i, j \in DOMAIN book :
    book[i].side = "buy" /\ book[j].side = "sell" => book[i].price < book[j].price
=============================================================================
