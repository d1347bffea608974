--------------------------- MODULE MCMatchEngine ----------------------------
(* Instances of MatchEngine for TLC.                                        *)
EXTENDS MatchEngine, TLC

\* Two rows that a band of base 5 meets: prices 3, 4 and 6 (ticks of 1 and 2).
TwoRows == <<[below |-> 4, tick |-> 1], [below |-> 10, tick |-> 2], [below |-> 21, tick |-> 5]>>

\* Three numbers in two chains that run into each other past the table's end.
CONSTANTS n1, n2, n3
Chained == [id \in Ids |-> IF id = n3 THEN 0 ELSE Buckets - 1]

\* The numbers of one chain are alike, and so are the slots.
Alike == Permutations({n1, n2}) \cup Permutations(Slots)

Morning == TimeOfDay(8, 10, 0)
Break   == TimeOfDay(15, 25, 0)
Day     == TimeOfDay(10, 0, 0)

Req(op, id, side, type, price, qty, at) ==
  [op |-> op, id |-> id, side |-> side, type |-> type, price |-> price, qty |-> qty, at |-> at]

Off == {5}                                   \* within the band, on no tick
Band  == compute_band(Base)
Ticks == {p \in Band.low..Band.high : is_valid_tick_in(p)}
Shares == 1..QtyMax

\* During the day everything; off hours and off ticks, enough to be refused.
AllKinds ==
  {Req("limit", id, side, type, p, n, Day) :
     id \in Ids, side \in Side, type \in {"limit"}, p \in Ticks, n \in Shares}
  \cup {Req("limit", id, side, "midpoint", 0, 2, Day) : id \in Ids, side \in Side}
  \cup {Req(op, n3, side, op, p, n, Day) :
     op \in {"ioc", "fok"}, side \in Side, p \in Ticks, n \in Shares}
  \cup {Req("market", n3, side, "market", 0, n, Day) : side \in Side, n \in Shares}
  \cup {Req("cancel", id, "buy", "limit", 0, 0, Day) : id \in Ids}
  \cup {Req("modify", id, "buy", "limit", p, n, Day) : id \in Ids, p \in Ticks \cup Off, n \in 1..QtyMax}
  \cup {Req("limit", id, "buy", "limit", p, 1, at) : id \in Ids, p \in Off, at \in {Morning, Day}}
  \cup {Req("cancel", id, "buy", "limit", 0, 0, Break) : id \in Ids}
  \cup {Req("modify", id, "buy", "limit", Band.low, 1, Break) : id \in Ids}
=============================================================================
