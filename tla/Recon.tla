-------------------------------- MODULE Recon --------------------------------
(***************************************************************************)
(* The end-of-day reconciliation, core/src/recon.c: it is handed numbers   *)
(* copied out of the order map and the accounts, recomputes what they owe  *)
(* one another and reports every disagreement it finds. It looks nothing   *)
(* up, so that a wrong sum cannot agree with itself. The operators return  *)
(* the kinds of finding; the capacity of the report is left out.           *)
(***************************************************************************)
EXTENDS Integers, Functions

\* One logical order, as OrderMap keeps it. Legs are a function of their
\* market here, so RECON_DUP_PHYS has no representation.
recon_order(lo) ==
  LET done(leg)     == leg.filled + leg.canceled
      SomeLeg(P(_)) == \E m \in DOMAIN lo.legs : P(lo.legs[m])
      sent          == FoldFunction(LAMBDA x, y : x + y, 0,
                                    [m \in DOMAIN lo.legs |-> lo.legs[m].sent])
  IN  (IF SomeLeg(LAMBDA l : done(l) > l.sent) THEN {"LEG_OVERFILL"} ELSE {})
      \cup (IF SomeLeg(LAMBDA l : l.live /\ done(l) >= l.sent)
            THEN {"LIVE_NO_REMAIN"} ELSE {})
      \cup (IF SomeLeg(LAMBDA l : (l.filled = 0) # (l.notional = 0))
            THEN {"NOTIONAL"} ELSE {})
      \cup (IF sent # lo.qty THEN {"LEG_SUM"} ELSE {})

\* One account over an interval: what the ledger holds now against what the
\* fills, deposits and open orders of the interval say it should.
recon_account(a) ==
  LET expect_cash == a.cash_start + a.deposits - a.withdrawals
                     - a.buy_notional + a.sell_notional
  IN  (IF expect_cash # a.cash_now THEN {"CASH"} ELSE {})
      \cup (IF a.open_reserved # a.reserved_now THEN {"RESERVED"} ELSE {})
      \cup (IF a.reserved_now > a.cash_now THEN {"RESERVED_OVER_CASH"} ELSE {})
=============================================================================
