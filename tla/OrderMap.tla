------------------------------ MODULE OrderMap ------------------------------
(***************************************************************************)
(* The record of one logical order and its legs, sor/src/order_map.c, and  *)
(* the status the executor reads off it, sor/src/executor.c. A leg is one  *)
(* physical order in one market; plan_validate gives an order at most one  *)
(* leg per market, so legs are a function of the market.                   *)
(***************************************************************************)
EXTENDS Integers, Functions

NewLeg(qty) == [sent |-> qty, filled |-> 0, canceled |-> 0, notional |-> 0,
                live |-> TRUE, accepted |-> FALSE]

Over(legs, field) == FoldFunction(LAMBDA x, y : x + y, 0,
                                  [m \in DOMAIN legs |-> legs[m][field]])

omap_filled_qty(lo)   == Over(lo.legs, "filled")
omap_canceled_qty(lo) == Over(lo.legs, "canceled")
omap_notional(lo)     == Over(lo.legs, "notional")
omap_remaining(lo)    == lo.qty - omap_filled_qty(lo) - omap_canceled_qty(lo)

LegLeft(leg) == leg.sent - leg.filled - leg.canceled

\* Both omap_on_fill and omap_on_cancel refuse more than the leg has left.
Takes(leg, qty) == qty > 0 /\ qty <= LegLeft(leg)

\* Faulty: a leg with nothing left is not closed.
ClosedNever(leg) == leg

Closed(leg) == [leg EXCEPT !.live = @ /\ LegLeft(leg) > 0]

\* Faulty: the money of a fill is not booked.
omap_on_fill_unpriced(leg, qty, notional) == Closed([leg EXCEPT !.filled = @ + qty])

omap_on_accept(leg)             == [leg EXCEPT !.accepted = TRUE]
omap_on_fill(leg, qty, notional) ==
  Closed([leg EXCEPT !.filled = @ + qty, !.notional = @ + notional])
omap_on_cancel(leg, qty)        == Closed([leg EXCEPT !.canceled = @ + qty])

exec_status(lo) ==
  IF omap_filled_qty(lo) >= lo.qty THEN "filled"
  ELSE IF omap_filled_qty(lo) > 0  THEN "partial"
  ELSE IF omap_remaining(lo) > 0   THEN "new"
  ELSE IF \E m \in DOMAIN lo.legs : lo.legs[m].accepted THEN "canceled"
  ELSE "rejected"
=============================================================================
