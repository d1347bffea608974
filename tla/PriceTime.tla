----------------------------- MODULE PriceTime ------------------------------
(***************************************************************************)
(* What a market promises: price, then time. The book is Matching's, the   *)
(* sequence of resting orders by arrival, kept in one order whatever way   *)
(* it was reached; each operator is one whole operation on it. The ledger  *)
(* is specified over these books, and MatchEngine is what implements them. *)
(***************************************************************************)
EXTENDS Matching

CONSTANTS Cap,          \* orders a market holds
          LevelMax      \* shares a price level holds

\* Orders of a side and price keep the order they arrived in.
Canon(book) ==
  LET levels == [i \in 1..2 * MaxPrice |->
                   SelectSeq(book, LAMBDA o :
                     o.side = (IF i <= MaxPrice THEN "buy" ELSE "sell")
                     /\ o.price = (IF i <= MaxPrice THEN i ELSE i - MaxPrice))]
  IN  FlattenSeq(levels)

Holds(book, owner) == \E i \in DOMAIN book : book[i].owner = owner

\* A level has room for this many more shares.
Room(book, side, p, n) ==
  LET at == Level(book, side, p)
  IN  n <= LevelMax - Sum([k \in DOMAIN at |-> Rem(book[at[k]])])

\* A limit order; without room for its rest it only trades.
Limit(book, taker) ==
  LET swept == match_sweep(book, taker)
  IN  IF Room(swept.book, taker.side, taker.price, swept.left)
      THEN match_limit(book, Price, Cap, taker).book ELSE swept.book

\* A market order takes whatever price there is.
Market(book, taker) ==
  match_sweep(book, [taker EXCEPT !.price = IF taker.side = "buy" THEN MaxPrice ELSE 1]).book

Changed(o, price, qty) == [o EXCEPT !.price = price, !.qty = qty]

\* Less at the same price keeps its turn. Anything else goes to the back of its
\* level, if it would trade with nobody and the level has room; without room the
\* order is lost.
Modify(book, owner, price, qty) ==
  LET i      == SelectInSeq(book, LAMBDA o : o.owner = owner)
      o      == book[i]
      others == RemoveAt(book, i)
  IN  IF i = 0 \/ qty <= o.filled THEN book
      ELSE IF price = o.price /\ qty <= o.qty THEN [book EXCEPT ![i].qty = qty]
      ELSE IF \E k \in DOMAIN book : book[k].side = Opposite(o.side) /\ Crosses(o.side, price, book[k].price)
           THEN book
      ELSE IF Room(others, o.side, price, qty - o.filled)
           THEN Append(others, Changed(o, price, qty)) ELSE others

\* The book after an operation of this kind.
After(book, op, taker) ==
  Canon(IF op = "modify" THEN Modify(book, taker.owner, taker.price, taker.qty)
        ELSE IF op = "cancel" THEN match_cancel(book, taker.owner).book
        ELSE IF Holds(book, taker.owner) THEN book
        ELSE IF op = "limit" THEN Limit(book, taker)
        ELSE IF op = "market" THEN Market(book, taker)
        ELSE Submit(op, book, Price, Cap, taker).book)
=============================================================================
