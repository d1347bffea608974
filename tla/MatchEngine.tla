---------------------------- MODULE MatchEngine -----------------------------
(***************************************************************************)
(* One matching engine as it is built: the pool of order slots (core/src/  *)
(* order_pool.c), the hash index by linear probing (core/src/order_index   *)
(* .c), the price levels with their cached totals (exchange/src/book/      *)
(* price_level.c), the book with its cached best prices (order_book.c) and *)
(* the operations of exchange/src/match/*.c, with the events they emit. An *)
(* operation is several changes to several of these; PriceTime says what   *)
(* book must come out. The doubly linked list of a level is the sequence   *)
(* of its slots.                                                           *)
(***************************************************************************)
EXTENDS MarketRules

CONSTANTS
  Ids,          \* order numbers
  Slots,        \* slots of the pool
  Buckets,      \* slots of the hash table, a power of two and >= 2 * Capacity
  Home,         \* Home[id]: the bucket an order number hashes to
  Base,         \* base price of the book
  Depth,        \* places in the price array: the valid ticks of the band
  QtyMax,       \* QTY_MAX
  LevelMax,     \* INT32_MAX: what a level's total may reach
  Input         \* the requests made of the engine

ASSUME EngineAssumption ==
  /\ IsFiniteSet(Slots) /\ Buckets >= 2 * Cardinality(Slots)
  /\ Home \in [Ids -> 0..Buckets - 1]
  /\ HasBand(Base)
  /\ Depth = LET b == compute_band(Base)
             IN  Cardinality({p \in b.low..b.high : is_valid_tick_in(p)})

VARIABLES
  eng,          \* the engine
  told,         \* the open quantity of each order, as the events tell it
  promised      \* the book PriceTime comes to from the same requests

vars == <<eng, told, promised>>

Side   == {"buy", "sell"}
Other(side) == IF side = "buy" THEN "sell" ELSE "buy"
Capacity == Cardinality(Slots)       \* orders the pool and the index take
Free   == [id |-> 0]
Vacant == [key |-> 0, val |-> 0]

Empty  == [fifo |-> <<>>, total |-> 0]
IndexOf(e, p) == price_to_index(e.segs, e.band, p)

Rem(o) == o.qty - o.filled           \* order_remaining_qty

Init ==
  /\ eng \in {[slots |-> [s \in Slots |-> Free],
               free  |-> order,
               index |-> [b \in 0..Buckets - 1 |-> Vacant],
               band  |-> compute_band(Base),
               segs  |-> build_segments(Base),
               level |-> [side \in Side |-> [k \in 0..Depth - 1 |-> Empty]],
               best  |-> [side \in Side |-> NoPrice],
               ev    |-> <<>>] : order \in SetToSeqs(Slots)}
  /\ told = [id \in Ids |-> 0]
  /\ promised = <<>>

-----------------------------------------------------------------------------
(* order_pool: a stack of free slots.                                       *)

order_pool_acquire(e, o) ==
  [e EXCEPT !.slots[Head(e.free)] = o, !.free = Tail(@)]
order_pool_release(e, s) == [e EXCEPT !.free = <<s>> \o @]

-----------------------------------------------------------------------------
(* order_index: open addressing, and removal that shifts the chain back so  *)
(* that no search stops early at the hole.                                  *)

Probe(id, k) == (Home[id] + k) % Buckets

\* The bucket where a search for the number ends: its own or a vacant one.
Landing(index, id) ==
  Probe(id, Min({k \in 0..Buckets - 1 : index[Probe(id, k)].key \in {id, 0}}))

\* The slot of an order, 0 when it is not indexed.
index_get(index, id) == index[Landing(index, id)].val
index_count(index)   == Cardinality({b \in DOMAIN index : index[b] /= Vacant})

index_put(e, id, s) ==
  [e EXCEPT !.index[Landing(e.index, id)] = [key |-> id, val |-> s]]

\* An entry stays where it is unless the hole lies between its home and it.
Settled(hole, home, probe) == IF hole <= probe
                              THEN hole < home /\ home <= probe
                              ELSE hole < home \/ home <= probe

\* Faulty: the hole is left as it is.
index_remove_leaving_hole(e, id) == [e EXCEPT !.index[Landing(e.index, id)] = Vacant]

index_remove(e, id) ==
  LET RECURSIVE close(_, _, _)
      close(index, hole, probe) ==
        LET p == (probe + 1) % Buckets
        IN  IF index[p] = Vacant THEN index
            ELSE IF Settled(hole, Home[index[p].key], p) THEN close(index, hole, p)
            ELSE close([index EXCEPT ![hole] = index[p], ![p] = Vacant], p, p)
      at == Landing(e.index, id)
  IN  [e EXCEPT !.index = close([@ EXCEPT ![at] = Vacant], at, at)]

-----------------------------------------------------------------------------
(* price_level and order_book. An operation names the slot of the order.    *)

Place(e, o) == IndexOf(e, o.price)
At(e, side, k) == e.level[side][k]
LevelFull(e, o) == Rem(o) > LevelMax - At(e, o.side, Place(e, o)).total

Better(side, p, q) == q = NoPrice \/ IF side = "buy" THEN p > q ELSE p < q

book_insert(e, s) ==
  LET o == e.slots[s]
      k == Place(e, o)
  IN  [e EXCEPT !.level[o.side][k] = [fifo |-> Append(@.fifo, s), total |-> @.total + Rem(o)],
                !.best[o.side] = IF Better(o.side, o.price, @) THEN o.price ELSE @]

recompute_best(e, side) ==
  LET busy == {k \in DOMAIN e.level[side] : At(e, side, k).fifo /= <<>>}
  IN  [e EXCEPT !.best[side] =
         IF busy = {} THEN NoPrice
         ELSE index_to_price(e.segs, IF side = "buy" THEN Max(busy) ELSE Min(busy))]

\* The level an order has left; when it was the best one and is empty now the
\* best price is looked for again.
Vacated(e, o) ==
  IF At(e, o.side, Place(e, o)).fifo = <<>> /\ o.price = e.best[o.side]
  THEN recompute_best(e, o.side) ELSE e

book_remove(e, s) ==
  LET o == e.slots[s]
  IN  Vacated([e EXCEPT !.level[o.side][Place(e, o)] =
                 [fifo |-> Remove(@.fifo, s), total |-> @.total - Rem(o)]], o)

book_reduce_qty(e, s, n) ==
  LET o == e.slots[s]
  IN  [e EXCEPT !.slots[s].filled = @ + n, !.level[o.side][Place(e, o)].total = @ - n]

book_amend_qty(e, s, qty) ==
  LET o == e.slots[s]
  IN  [e EXCEPT !.slots[s].qty = qty, !.level[o.side][Place(e, o)].total = @ - (o.qty - qty)]

\* Shares resting within the limit, at any price when there is none.
book_qty_up_to(e, side, limit) ==
  MapThenSumSet(LAMBDA k : At(e, side, k).total,
    {k \in DOMAIN e.level[side] :
       \/ limit = NoPrice
       \/ IF side = "sell" THEN index_to_price(e.segs, k) <= limit
                           ELSE index_to_price(e.segs, k) >= limit})

-----------------------------------------------------------------------------
(* The engine's steps. A slot that is given back is left as it was.         *)

match_emit(e, type, id, remaining) ==
  [e EXCEPT !.ev = Append(@, [type |-> type, id |-> id, rem |-> remaining])]

Traded(rem) == IF rem = 0 THEN "executed" ELSE "partially_executed"

Crosses(side, limit, p) ==
  limit = NoPrice \/ IF side = "buy" THEN p <= limit ELSE p >= limit

Drop(e, s) == LET id == e.slots[s].id
              IN  [order_pool_release(index_remove(book_remove(e, s), id), s)
                     EXCEPT !.slots[s] = Free]

\* Takes the front order of the best level until the taker is done; returns
\* what the taker has left.
match_sweep(e0, taker, limit) ==
  LET maker == Other(taker.side)
      RECURSIVE sweep(_, _)
      sweep(e, left) ==
        LET best == e.best[maker]
        IN  IF left = 0 \/ best = NoPrice \/ ~Crosses(taker.side, limit, best)
            THEN [eng |-> e, left |-> left]
            ELSE LET s  == Head(At(e, maker, IndexOf(e, best)).fifo)
                     o  == e.slots[s]
                     n  == Min({left, Rem(o)})
                     e1 == IF n = Rem(o) THEN Drop(e, s) ELSE book_reduce_qty(e, s, n)
                     e2 == match_emit(e1, Traded(Rem(o) - n), o.id, Rem(o) - n)
                 IN  sweep(match_emit(e2, Traded(left - n), taker.id, left - n), left - n)
  IN  sweep(e0, taker.qty)

\* Puts what is left of a limit order in the book. A pool without a slot or a
\* level without room refuses it, and takes back what was done.
match_rest(e, req, left) ==
  LET o == [id |-> req.id, side |-> req.side, type |-> req.type, price |-> req.price,
            qty |-> req.qty, filled |-> req.qty - left]
      ok == e.free /= <<>> /\ ~LevelFull(e, o) /\ index_count(e.index) < Capacity
  IN  IF ~ok THEN match_emit(e, "rejected", req.id, left)
      ELSE LET s == Head(e.free)
           IN  match_emit(index_put(book_insert(order_pool_acquire(e, o), s), req.id, s),
                          "accepted", req.id, left)

-----------------------------------------------------------------------------
(* The operations. Each is handed an engine whose events are cleared.       *)

Reject(e, req)    == match_emit(e, "rejected", req.id, req.qty)
PriceOk(e, p)     == p >= e.band.low /\ p <= e.band.high /\ is_valid_tick_in(p)
match_validate(e, req) == req.qty \in 1..QtyMax /\ index_get(e.index, req.id) = 0
Gate(req)         == MaySubmit(req.at, req.type)

match_limit(e, req) ==
  LET price == resolve_price(req.type, req.price, e.best["buy"], e.best["sell"])
      eff   == [req EXCEPT !.price = price]
      swept == match_sweep(e, eff, price)
  IN  IF ~Gate(req) \/ price = NoPrice \/ ~PriceOk(e, price) \/ ~match_validate(e, req)
      THEN Reject(e, req)
      ELSE IF swept.left = 0 THEN swept.eng ELSE match_rest(swept.eng, eff, swept.left)

\* What an order that cannot rest does with what it could not get.
DropRest(swept, req) ==
  IF swept.left = 0 THEN swept.eng ELSE match_emit(swept.eng, "canceled", req.id, 0)

match_ioc(e, req) ==
  LET swept == match_sweep(e, req, req.price)
  IN  IF ~Gate(req) \/ ~PriceOk(e, req.price) \/ ~match_validate(e, req)
         \/ swept.left = req.qty
      THEN Reject(e, req) ELSE DropRest(swept, req)

match_market(e, req) ==
  LET swept == match_sweep(e, req, NoPrice)
  IN  IF ~Gate(req) \/ ~match_validate(e, req) \/ e.best[Other(req.side)] = NoPrice
      THEN Reject(e, req) ELSE DropRest(swept, req)

match_fok(e, req) ==
  IF ~Gate(req) \/ ~PriceOk(e, req.price) \/ ~match_validate(e, req)
     \/ book_qty_up_to(e, Other(req.side), req.price) < req.qty
  THEN Reject(e, req) ELSE match_sweep(e, req, req.price).eng

match_cancel(e, req) ==
  LET s == index_get(e.index, req.id)
  IN  IF ~MayCancel(req.at) \/ s = 0 THEN e
      ELSE match_emit(Drop(e, s), "canceled", req.id, 0)

\* Faulty: nobody is told.
ModifiedSilently(e, req) == e

Modified(e, req) == match_emit(e, "modified", req.id,
                               Rem(e.slots[index_get(e.index, req.id)]))

\* Puts an order at the back of the queue of its new price; when that level has
\* no room the order is gone. Modifying never trades.
Requeue(e, s, req) ==
  LET off == [book_remove(e, s) EXCEPT !.slots[s].price = req.price, !.slots[s].qty = req.qty]
  IN  IF LevelFull(off, off.slots[s])
      THEN match_emit([order_pool_release(index_remove(off, req.id), s)
                         EXCEPT !.slots[s] = Free], "rejected", req.id, 0)
      ELSE Modified(book_insert(off, s), req)

\* Faulty: a new price may cross the other side.
match_modify_crossing(e, req) ==
  LET s == index_get(e.index, req.id)
      o == e.slots[s]
  IN  IF ~MaySubmit(req.at, "limit") \/ s = 0 THEN e
      ELSE IF req.price /= o.price /\ ~MayReprice(o.type) THEN Reject(e, req)
      ELSE IF ~PriceOk(e, req.price) \/ req.qty <= o.filled \/ req.qty > QtyMax THEN Reject(e, req)
      ELSE IF req.price = o.price /\ req.qty < o.qty THEN Modified(book_amend_qty(e, s, req.qty), req)
      ELSE IF req.price = o.price /\ req.qty = o.qty THEN Modified(e, req)
      ELSE Requeue(e, s, req)

\* Less at the same price keeps the place in the queue; anything else loses it.
match_modify(e, req) ==
  LET s == index_get(e.index, req.id)
      o == e.slots[s]
      opposite == e.best[Other(o.side)]
  IN  IF ~MaySubmit(req.at, "limit") \/ s = 0 THEN e
      ELSE IF req.price /= o.price /\ ~MayReprice(o.type) THEN Reject(e, req)
      ELSE IF ~PriceOk(e, req.price) \/ req.qty <= o.filled \/ req.qty > QtyMax THEN Reject(e, req)
      ELSE IF req.price = o.price /\ req.qty < o.qty THEN Modified(book_amend_qty(e, s, req.qty), req)
      ELSE IF req.price = o.price /\ req.qty = o.qty THEN Modified(e, req)
      ELSE IF opposite /= NoPrice /\ Crosses(o.side, req.price, opposite) THEN Reject(e, req)
      ELSE Requeue(e, s, req)

-----------------------------------------------------------------------------
(* A listener that keeps the open quantity of every order from the events   *)
(* alone. An order's refusal says it is gone only when nothing of it is     *)
(* left; a refused number may be that of an order already in the book.      *)

on_event(open, ev) ==
  CASE ev.type = "rejected" /\ ev.rem > 0 -> open
    [] ev.type = "partially_executed" /\ open[ev.id] = 0 -> open
    [] OTHER -> [open EXCEPT ![ev.id] = ev.rem]

\* The request as the specification sees it: prices are places in the array.
AsTaker(req) ==
  [owner |-> req.id, side |-> req.side, qty |-> req.qty, filled |-> 0,
   price |-> IndexOf(eng, resolve_price(req.type, req.price, eng.best["buy"], eng.best["sell"])) + 1]

\* The rules, a price off the band or its ticks, or a quantity out of range
\* refuse an operation before it looks at the book; a change is also refused
\* when the order's price is not its owner's to name.
Admitted(req) ==
  LET s == index_get(eng.index, req.id)
  IN  CASE req.op = "cancel" -> MayCancel(req.at)
        [] req.op = "modify" -> /\ MaySubmit(req.at, "limit") /\ PriceOk(eng, req.price) /\ req.qty <= QtyMax
                                /\ s /= 0 => (req.price = eng.slots[s].price \/ MayReprice(eng.slots[s].type))
        [] req.op = "market" -> Gate(req)
        [] OTHER             -> Gate(req) /\ AsTaker(req).price > 0

P == INSTANCE PriceTime WITH MaxPrice <- Depth, Cap <- Capacity

Do(req, outcome) ==
  /\ \E e \in {outcome} :
       /\ eng' = [e EXCEPT !.ev = <<>>]
       /\ told' = FoldLeft(on_event, told, e.ev)
  /\ promised' = IF Admitted(req) THEN P!After(promised, req.op, AsTaker(req)) ELSE promised

Limit(req)  == req.op = "limit"  /\ Do(req, match_limit(eng, req))
Ioc(req)    == req.op = "ioc"    /\ Do(req, match_ioc(eng, req))
Market(req) == req.op = "market" /\ Do(req, match_market(eng, req))
Fok(req)    == req.op = "fok"    /\ Do(req, match_fok(eng, req))
Cancel(req) == req.op = "cancel" /\ Do(req, match_cancel(eng, req))
Modify(req) == req.op = "modify" /\ Do(req, match_modify(eng, req))

Next == \E req \in Input : \/ Limit(req) \/ Ioc(req) \/ Market(req) \/ Fok(req)
                           \/ Cancel(req) \/ Modify(req)

Spec == Init /\ [][Next]_vars

-----------------------------------------------------------------------------
(* What must hold.                                                          *)

Used == {s \in Slots : eng.slots[s] /= Free}

\* order_pool, order_index: every slot is either in use or free once, the slots
\* in use are those in the book, and a search for an order's number ends at its
\* slot whatever was removed from the chains of the hash table before. price_level,
\* order_book: the cached total of every level and the cached best price of each
\* side are what its orders come to.
StructuresAgree ==
  /\ Len(eng.free) + Cardinality(Used) = Capacity
  /\ ToSet(eng.free) = Slots \ Used
  /\ \A s \in Used : index_get(eng.index, eng.slots[s].id) = s
  /\ index_count(eng.index) = Cardinality(Used)
  /\ Used = UNION {ToSet(At(eng, side, k).fifo) : side \in Side, k \in 0..Depth - 1}
  /\ \A side \in Side :
       /\ \A k \in 0..Depth - 1 :
            LET l == At(eng, side, k)
            IN  l.total = MapThenSumSet(LAMBDA s : Rem(eng.slots[s]), ToSet(l.fifo))
       /\ eng.best[side] = recompute_best(eng, side).best[side]

\* match/*.c: after every request the book is the one price-time priority
\* promises: who traded, what is left of whom, and who waits behind whom.
Fifo(side, k) ==
  [i \in DOMAIN At(eng, side, k).fifo |->
     LET o == eng.slots[At(eng, side, k).fifo[i]]
     IN  [owner |-> o.id, side |-> side, price |-> k + 1, qty |-> o.qty, filled |-> o.filled]]
BookAsPromised ==
  promised = FlattenSeq([i \in 1..2 * Depth |->
               IF i <= Depth THEN Fifo("buy", i - 1) ELSE Fifo("sell", i - 1 - Depth)])

\* match_emit: a listener that only follows the events knows what is open of
\* every order, the ledger settles by them alone.
EventsTellTheBook ==
  \A id \in Ids :
    told[id] = LET s == index_get(eng.index, id) IN IF s = 0 THEN 0 ELSE Rem(eng.slots[s])

\* order_book.c price_to_index, build_segments: in the book as book_create leaves
\* it, whatever the base price, the valid ticks of the band are numbered without
\* a gap in the order of their prices, back and forth.
BandsAreWhole == Used = {} =>
  \A base \in {b \in 1..PriceMax : HasBand(b)} :
    LET band  == compute_band(base)
        segs  == build_segments(base)
        ticks == {p \in band.low..band.high : is_valid_tick_in(p)}
    IN  /\ level_count(segs) = Cardinality(ticks)
        /\ \A p \in band.low..band.high :
             price_to_index(segs, band, p) =
               IF p \in ticks THEN Cardinality({q \in ticks : q < p}) ELSE -1
        /\ \A p \in ticks : index_to_price(segs, price_to_index(segs, band, p)) = p
=============================================================================
