---------------------------- MODULE MarketRules -----------------------------
(***************************************************************************)
(* What a market allows and how it lays prices out, as pure operators: the *)
(* sessions and order types of exchange/src/rules/*.c, the tick tables of  *)
(* core/src/tick_size.c, and the price band and its segments from          *)
(* exchange/src/book/order_book.c. A rule set of "none" is an engine to    *)
(* which match_set_rules was never applied.                                *)
(***************************************************************************)
EXTENDS Integers, Sequences, SequencesExt, FiniteSetsExt

CONSTANTS Rows,         \* tick table: <<[below, tick], ...>>, ascending
          RuleSet       \* "none", "krx" or "nxt"

ASSUME RowsAssumption == Rows /= <<>> /\ RuleSet \in {"none", "krx", "nxt"}

OrderTypes == {"limit", "ioc", "fok", "market", "midpoint"}
NoPrice    == 0                       \* BOOK_PRICE_NONE

-----------------------------------------------------------------------------
(* Ticks.                                                                   *)

PriceMax == Rows[Len(Rows)].below - 1
in_range(p) == p \in 1..PriceMax

RowOf(p)                == SelectInSeq(Rows, LAMBDA r : p < r.below)
tick_size_in(p)         == IF in_range(p) THEN Rows[RowOf(p)].tick ELSE 0
tick_segment_end_in(p)  == IF in_range(p) THEN Rows[RowOf(p)].below ELSE 0
is_valid_tick_in(p)     == in_range(p) /\ p % tick_size_in(p) = 0

\* A price that rounds up beyond the table is none.
round_to_tick_in(p, up) ==
  LET tick == tick_size_in(p)
      next == p - (p % tick) + tick
  IN  IF tick = 0 THEN 0
      ELSE IF p % tick = 0 THEN p
      ELSE IF ~up THEN p - (p % tick)
      ELSE IF next > PriceMax THEN 0 ELSE next

-----------------------------------------------------------------------------
(* The band of a book and the array it is laid out in: one segment per row  *)
(* of the table that the band meets, each a run of equal ticks.             *)

compute_band(base) ==
  [low  |-> round_to_tick_in(Max({1, (base * 70) \div 100}), TRUE),
   high |-> round_to_tick_in(Min({PriceMax, (base * 130) \div 100}), FALSE)]

HasBand(base) ==
  LET b == compute_band(base)
  IN  base \in 1..PriceMax /\ b.low /= 0 /\ b.high /= 0 /\ b.low <= b.high

\* Faulty: the last price of a segment is not counted.
SegmentOpen(low, high, before) ==
  LET tick == tick_size_in(low)
      end  == Min({tick_segment_end_in(low) - 1, high})
  IN  [low |-> low, tick |-> tick, base |-> before,
       count |-> (end - (end % tick) - low) \div tick]

Segment(low, high, before) ==
  LET tick == tick_size_in(low)
      end  == Min({tick_segment_end_in(low) - 1, high})
  IN  [low |-> low, tick |-> tick, base |-> before,
       count |-> (end - (end % tick) - low) \div tick + 1]

build_segments(base) ==
  LET b == compute_band(base)
      RECURSIVE from(_, _)
      from(p, before) ==
        IF p > b.high THEN <<>>
        ELSE LET s == Segment(p, b.high, before)
             IN  <<s>> \o from(tick_segment_end_in(p), before + s.count)
  IN  from(b.low, 0)

level_count(segs) == segs[Len(segs)].base + segs[Len(segs)].count

\* The place of a price in the array, -1 when it is on no tick of the band.
price_to_index(segs, band, p) ==
  LET i == SelectInSeq(segs, LAMBDA s : p < s.low + s.count * s.tick)
      off == p - segs[i].low
  IN  IF p < band.low \/ p > band.high \/ i = 0 THEN -1
      ELSE IF off % segs[i].tick /= 0 THEN -1
      ELSE segs[i].base + off \div segs[i].tick

index_to_price(segs, k) ==
  LET s == segs[SelectInSeq(segs, LAMBDA t : k < t.base + t.count)]
  IN  s.low + (k - s.base) * s.tick

-----------------------------------------------------------------------------
(* Sessions. Times are seconds since midnight.                              *)

TimeOfDay(h, m, s) == 3600 * h + 60 * m + s

NXT_SESSIONS == <<
  [from |-> TimeOfDay(8, 0, 0),   to |-> TimeOfDay(8, 50, 0),  session |-> "pre"],
  [from |-> TimeOfDay(8, 50, 0),  to |-> TimeOfDay(9, 0, 30),  session |-> "pre_break"],
  [from |-> TimeOfDay(9, 0, 30),  to |-> TimeOfDay(15, 20, 0), session |-> "regular"],
  [from |-> TimeOfDay(15, 20, 0), to |-> TimeOfDay(15, 30, 0), session |-> "post_break"],
  [from |-> TimeOfDay(15, 30, 0), to |-> TimeOfDay(20, 0, 0),  session |-> "after"]>>

krx_session(tod) ==
  IF tod >= TimeOfDay(9, 0, 0) /\ tod < TimeOfDay(15, 30, 0) THEN "regular" ELSE "closed"

nxt_session(tod) ==
  LET i == SelectInSeq(NXT_SESSIONS, LAMBDA s : tod >= s.from /\ tod < s.to)
  IN  IF i = 0 THEN "closed" ELSE NXT_SESSIONS[i].session

krx_type_allowed(session, type) == session = "regular" /\ type /= "midpoint"
nxt_type_allowed(session, type) ==
  session = "regular" \/ (session \in {"pre", "after"} /\ type = "limit")

\* A new order, or a change of one, at this time. match_gate_submit.
MaySubmit(tod, type) ==
  CASE RuleSet = "none" -> TRUE
    [] RuleSet = "krx"  -> krx_type_allowed(krx_session(tod), type)
    [] RuleSet = "nxt"  -> nxt_type_allowed(nxt_session(tod), type)

\* A cancel at this time: an NXT order may be withdrawn in the breaks too.
MayCancel(tod) ==
  CASE RuleSet = "none" -> TRUE
    [] RuleSet = "krx"  -> krx_session(tod) = "regular"
    [] RuleSet = "nxt"  -> nxt_session(tod) /= "closed"

\* A midpoint order takes the price halfway, rounded down to a tick; without
\* both sides there is none.
resolve_price(type, price, bid, ask) ==
  IF RuleSet /= "nxt" \/ type /= "midpoint" THEN price
  ELSE IF NoPrice \in {bid, ask} THEN NoPrice
  ELSE round_to_tick_in((bid + ask) \div 2, FALSE)

MayReprice(type) == ~(RuleSet = "nxt" /\ type = "midpoint")
=============================================================================
