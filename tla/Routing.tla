------------------------------- MODULE Routing -------------------------------
(***************************************************************************)
(* How an order that names no market is divided over the markets: the      *)
(* consolidated book (sor/src/consolidated.c), the scores of best          *)
(* execution (best_execution.c) and the four strategies. A strategy reads  *)
(* the books as they stand and returns a plan: a sequence of legs, in the  *)
(* order of the markets, that the executor sends one by one. The ledger    *)
(* attaches no market rules to its consolidated book, so every market is   *)
(* open to it (ledger_core.c:910).                                         *)
(***************************************************************************)
EXTENDS Matching

CONSTANT Venues        \* the markets in the order of their enumeration
ASSUME VenuesAssumption ==
  Venues \in Seq(Range(Venues)) /\ Len(Venues) > 0 /\ IsInjective(Venues)

Markets  == Range(Venues)
NoPrice  == 0                                  \* BOOK_PRICE_NONE
Strategy == {"best_price", "krx_only", "split", "sweep"}

Quotes(b, side) == {b[i].price : i \in {j \in DOMAIN b : b[j].side = side}}

Best(b, side) == IF Quotes(b, side) = {} THEN NoPrice
                 ELSE IF side = "buy" THEN Max(Quotes(b, side)) ELSE Min(Quotes(b, side))

LevelQty(b, side, p) ==
  Sum([i \in DOMAIN b |-> IF b[i].side = side /\ b[i].price = p THEN Rem(b[i]) ELSE 0])

-----------------------------------------------------------------------------
(* The consolidated book: one view over the levels of every market.        *)

\* Faulty: levels are ordered as the taker's own side would be.
better_for_taker(side, x, y) ==
  \/ Nearer(Opposite(side), y.price, x.price)
  \/ x.price = y.price /\ x.qty > y.qty
  \/ x.price = y.price /\ x.qty = y.qty /\ x.rank < y.rank

\* Levels of `side` in the order a taker meets them: the better price, then
\* the larger quantity, then the market enumerated first.
better(side, x, y) ==
  \/ Nearer(Opposite(side), x.price, y.price)
  \/ x.price = y.price /\ x.qty > y.qty
  \/ x.price = y.price /\ x.qty = y.qty /\ x.rank < y.rank

\* The level of rest a taker meets first.
Foremost(side, rest) == CHOOSE x \in rest : \A y \in rest \ {x} : better(side, x, y)

LevelAt(books, side, k, p) ==
  [price |-> p, qty |-> LevelQty(books[Venues[k]], side, p), rank |-> k]

Levels(books, side) ==
  {x \in {LevelAt(books, side, k, p) : k \in DOMAIN Venues, p \in Price} : x.qty > 0}

Depth == 64                                     \* SWEEP_DEPTH, PER_MARKET_MAX

InView(levels) == IF Cardinality(levels) < Depth THEN Cardinality(levels) ELSE Depth

\* Every market's own view is in this order, so merging them head by head puts
\* their levels in it, as many as the view has room for.
cons_snapshot(books, side) ==
  FoldLeft(LAMBDA view, k : Append(view, Foremost(side, Levels(books, side) \ Range(view))),
           << >>, [k \in 1..InView(Levels(books, side)) |-> k])

\* The quote r would meet in market k.
QuoteAt(books, r, k) == Best(books[Venues[k]], Opposite(r.side))

\* Where a quantity nobody offers is left to wait: the market with the best
\* opposite quote, the first enumerated when there is none.
plan_resting_market(books, r) ==
  LET quote(k) == QuoteAt(books, r, k)
      beats(j, k) == /\ quote(j) # NoPrice
                     /\ quote(k) = NoPrice \/ Nearer(r.side, quote(j), quote(k))
  IN  CHOOSE k \in DOMAIN Venues :
        \A j \in DOMAIN Venues \ {k} :
          ~beats(j, k) /\ (j < k => beats(k, j))

-----------------------------------------------------------------------------
(* Best execution: each market's score out of ten thousand, in four parts. *)

Weight == [price |-> 40, fill |-> 30, cost |-> 20, state |-> 10]
FeeBp(k) == IF k = 1 THEN 3 ELSE 2             \* BE_CONFIG_DEFAULT: KRX, NXT

clamp_score(v) == IF v < 0 THEN 0 ELSE IF v > 10000 THEN 10000 ELSE v

disadvantage_bp(worse, good) ==
  IF worse <= good THEN 0 ELSE ((worse - good) * 10000) \div good

Fillable(b, r) ==
  LET all == book_qty_up_to(b, r.side, r.price) IN IF all < r.qty THEN all ELSE r.qty

Eligible(books, r) == {k \in DOMAIN Venues : Fillable(books[Venues[k]], r) > 0}

\* The best quote any eligible market shows.
BestQuote(books, r) ==
  LET E == Eligible(books, r)
  IN  QuoteAt(books, r, CHOOSE j \in E : \A i \in E :
                        ~Nearer(r.side, QuoteAt(books, r, i), QuoteAt(books, r, j)))

Spread(b) == IF Best(b, "buy") = NoPrice \/ Best(b, "sell") = NoPrice THEN 0
             ELSE Best(b, "sell") - Best(b, "buy")

price_score(own, best, side) ==
  clamp_score(10000 - 100 * (IF side = "buy" THEN disadvantage_bp(own, best)
                                             ELSE disadvantage_bp(best, own)))
state_score(b, own) == clamp_score(10000 - 20 * ((Spread(b) * 10000) \div own))

be_evaluate(books, r, k) ==
  LET b   == books[Venues[k]]
      own == QuoteAt(books, r, k)
  IN  clamp_score(( Weight.price * price_score(own, BestQuote(books, r), r.side)
                  + Weight.fill  * ((Fillable(b, r) * 10000) \div r.qty)
                  + Weight.cost  * clamp_score(10000 - 100 * FeeBp(k))
                  + Weight.state * state_score(b, own)) \div 100)

\* The highest score, then the larger quantity, then the first enumerated.
FirstBest(rated) ==
  LET beats(j, k) == \/ rated[j].score > rated[k].score
                     \/ rated[j].score = rated[k].score /\ rated[j].qty > rated[k].qty
  IN  CHOOSE k \in DOMAIN rated :
        \A j \in DOMAIN rated \ {k} : ~beats(j, k) /\ (j < k => beats(k, j))

be_pick(books, r) ==
  FirstBest([k \in Eligible(books, r) |-> [score |-> be_evaluate(books, r, k),
                                           qty   |-> Fillable(books[Venues[k]], r)]])

-----------------------------------------------------------------------------
(* The strategies. An allocation gives each market a quantity, by rank;    *)
(* plan_add_leg passes over a market that gets none.                       *)

Plan(alloc) ==
  FoldLeft(LAMBDA plan, k :
             IF alloc[k] > 0 THEN Append(plan, [market |-> Venues[k], qty |-> alloc[k]])
                             ELSE plan,
           << >>, [k \in DOMAIN Venues |-> k])

AllTo(k, qty) == [j \in DOMAIN Venues |-> IF j = k THEN qty ELSE 0]

best_price(books, r) ==
  AllTo(IF Eligible(books, r) = {} THEN plan_resting_market(books, r)
                                   ELSE be_pick(books, r), r.qty)

krx_only(r) == AllTo(1, r.qty)                 \* MARKET_KRX, whatever the books

\* In proportion to what each market offers within the limit; the shares the
\* division leaves over go to the largest remainders, one each.
split(books, r) ==
  LET offer  == [k \in DOMAIN Venues |-> book_qty_up_to(books[Venues[k]], r.side, r.price)]
      total  == Sum(offer)
      base   == [k \in DOMAIN Venues |-> (r.qty * offer[k]) \div total]
      remainder(k)  == (r.qty * offer[k]) % total
      prefers(j, k) == \/ remainder(j) > remainder(k)
                       \/ remainder(j) = remainder(k) /\ offer[j] > offer[k]
                       \/ remainder(j) = remainder(k) /\ offer[j] = offer[k] /\ j < k
      place(k) == Cardinality({j \in DOMAIN Venues : prefers(j, k)})
  IN  IF Len(Venues) = 1 THEN AllTo(1, r.qty)
      ELSE IF total = 0 THEN AllTo(plan_resting_market(books, r), r.qty)
      ELSE [k \in DOMAIN Venues |->
              base[k] + (IF place(k) < r.qty - Sum(base) THEN 1 ELSE 0)]

\* Walk the consolidated book within the limit, taking from each level the
\* market that shows it; what is left over waits in one market.
sweep(books, r) ==
  LET take(acc, level) ==
        IF ~Crosses(r.side, r.price, level.price) THEN 0
        ELSE IF acc.left < level.qty THEN acc.left ELSE level.qty
      swept == FoldLeft(LAMBDA acc, level :
                          [left  |-> acc.left - take(acc, level),
                           alloc |-> [acc.alloc EXCEPT ![level.rank] = @ + take(acc, level)]],
                        [left |-> r.qty, alloc |-> AllTo(1, 0)],
                        cons_snapshot(books, Opposite(r.side)))
  IN  IF swept.left = 0 THEN swept.alloc
      ELSE [swept.alloc EXCEPT ![plan_resting_market(books, r)] = @ + swept.left]

routing_plan(strategy, books, r) ==
  Plan(CASE strategy = "best_price" -> best_price(books, r)
         [] strategy = "krx_only"   -> krx_only(r)
         [] strategy = "split"      -> split(books, r)
         [] strategy = "sweep"      -> sweep(books, r))

\* What omap_register asks of a plan before anything is sent: some leg, known
\* markets, one leg each, no empty leg, and the whole quantity.
plan_validate(plan, qty) ==
  /\ plan \in Seq([market : Markets, qty : Nat \ {0}]) /\ plan # << >>
  /\ \A i, j \in DOMAIN plan : i # j => plan[i].market # plan[j].market
  /\ Sum([i \in DOMAIN plan |-> plan[i].qty]) = qty
=============================================================================
