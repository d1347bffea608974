----------------------------- MODULE AccountOps -----------------------------
(***************************************************************************)
(* The arithmetic of one account record, ledger/src/account.c: which       *)
(* requests an account accepts and what an accepted request makes of it.   *)
(* Nothing here locks or stores anything; AccountStore does that field by  *)
(* field and Ledger applies whole operations.                              *)
(***************************************************************************)
EXTENDS Integers

CashFields == {"cash", "reserved"}
PosFields  == {"qty", "cost", "held", "realized"}
Fields     == CashFields \cup PosFields

Account      == [Fields -> Int]
EmptyAccount == [f \in Fields |-> 0]      \* acct_open: every field is zeroed

CashOps == {"deposit", "withdraw", "reserve", "release", "settle", "set_cash"}
PosOps  == {"buy_fill", "sell_reserve", "sell_release", "sell_fill", "seed"}

\* amount is won for a cash operation and shares for a position operation;
\* price is the fill price, or the cost of a seeded position.
Request == [op : CashOps \cup PosOps, amount : Int, price : Int]

Ask(op, amount)             == [op |-> op, amount |-> amount, price |-> 0]
AskAt(op, amount, price)    == [op |-> op, amount |-> amount, price |-> price]

\* The two invariants every accepted request must leave true.
invariant_ok(a) == a.cash >= 0 /\ a.reserved >= 0 /\ a.reserved <= a.cash
pos_ok(a) == a.qty >= 0 /\ a.cost >= 0 /\ a.held >= 0 /\ a.held <= a.qty
Sound(a)  == invariant_ok(a) /\ pos_ok(a)

\* A sale takes its proportional share of the cost, and the last sale all of it.
CostOut(a, n) == IF n = a.qty THEN a.cost ELSE (a.cost * n) \div a.qty

\* The account after request r, whether or not it is one it should accept.
Outcome(a, r) ==
  CASE r.op = "deposit"  -> [a EXCEPT !.cash = @ + r.amount]
    [] r.op = "withdraw" -> [a EXCEPT !.cash = @ - r.amount]
    [] r.op = "reserve"  -> [a EXCEPT !.reserved = @ + r.amount]
    [] r.op = "release"  -> [a EXCEPT !.reserved = @ - r.amount]
    [] r.op = "settle"   -> [a EXCEPT !.cash = @ - r.amount,
                                      !.reserved = @ - r.amount]
    [] r.op = "set_cash" -> [a EXCEPT !.cash = r.amount]
    [] r.op = "buy_fill" -> [a EXCEPT !.qty = @ + r.amount,
                                      !.cost = @ + r.price * r.amount]
    [] r.op = "sell_reserve" -> [a EXCEPT !.held = @ + r.amount]
    [] r.op = "sell_release" -> [a EXCEPT !.held = @ - r.amount]
    [] r.op = "sell_fill" ->
         [a EXCEPT !.qty = @ - r.amount,
                   !.held = @ - r.amount,
                   !.cost = @ - CostOut(a, r.amount),
                   !.realized = @ + r.price * r.amount - CostOut(a, r.amount)]
    \* realized takes an argument that its only caller gives as 0.
    [] r.op = "seed" -> [a EXCEPT !.qty = r.amount, !.cost = r.price,
                                  !.held = 0, !.realized = 0]

\* The checks each operation makes before it writes.
Accepts(a, r) ==
  CASE r.op = "set_cash" -> r.amount >= 0 /\ r.amount >= a.reserved
    [] r.op \in CashOps \ {"set_cash"} ->
         r.amount > 0 /\ invariant_ok(Outcome(a, r))
    [] r.op = "seed" -> r.amount >= 0 /\ r.price >= 0
    [] r.op = "buy_fill" ->
         r.price > 0 /\ r.amount > 0 /\ pos_ok(Outcome(a, r))
    [] r.op = "sell_reserve" ->
         r.amount > 0 /\ r.amount <= a.qty - a.held /\ pos_ok(Outcome(a, r))
    [] r.op = "sell_release" ->
         r.amount > 0 /\ r.amount <= a.held /\ pos_ok(Outcome(a, r))
    [] r.op = "sell_fill" ->
         /\ r.price > 0 /\ r.amount > 0
         /\ r.amount <= a.qty /\ r.amount <= a.held
         /\ pos_ok(Outcome(a, r))

\* Faulty: a position operation forgets the realized gain.
WrittenWithoutGain(op) == CASE op = "set_cash"                -> {"cash"}
                            [] op \in CashOps \ {"set_cash"}  -> CashFields
                            [] op \in PosOps                  -> PosFields \ {"realized"}

\* The fields the operation stores once it has been accepted.
Written(op) == CASE op = "set_cash"                -> {"cash"}
                 [] op \in CashOps \ {"set_cash"}  -> CashFields
                 [] op \in PosOps                  -> PosFields

\* An operation is applied whole or, when it is refused, not at all.
Do(a, r) == IF Accepts(a, r) THEN Outcome(a, r) ELSE a
=============================================================================
