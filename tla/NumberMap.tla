----------------------------- MODULE NumberMap ------------------------------
(***************************************************************************)
(* The table that ties our order numbers to the exchange's, fep/src/       *)
(* ordmap.c. An entry is pending from the moment the order is sent until   *)
(* it is acknowledged, live while the exchange is thought to hold it, in   *)
(* doubt when nobody knows, and done once it is over. The table is kept    *)
(* here in the order its entries were added (added_seq).                   *)
(***************************************************************************)
EXTENDS Integers, Sequences, SequencesExt, FiniteSetsExt

CONSTANT MapSize                    \* ORDMAP_MAX

ASSUME MapAssumption == MapSize \in Nat \ {0}

Entry(ours, st, exch) == [cl |-> ours, st |-> st, exch |-> exch]

find_cl(om, ours) == {i \in DOMAIN om : om[i].cl = ours}
With(om, ours, st, exch) ==
  [i \in DOMAIN om |-> IF om[i].cl = ours THEN Entry(ours, st, exch) ELSE om[i]]
Done(om) == {i \in DOMAIN om : om[i].st = "done"}

HasRoom(om) == Len(om) < MapSize \/ Done(om) /= {}

\* Faulty: the oldest entry makes room, whatever its state.
take_slot_of_any(om) == IF Len(om) < MapSize THEN om ELSE Tail(om)

\* Faulty: no place is ever given up.
take_slot_never(om) == om

\* Only an order that is over gives up its place, the oldest first.
take_slot(om) == IF Len(om) < MapSize THEN om ELSE RemoveAt(om, Min(Done(om)))

ordmap_add(om, ours) == Append(take_slot(om), Entry(ours, "pending", 0))

\* The caller ignores what an acknowledgement it cannot place returns.
ordmap_on_ack(om, ours, exch, accepted) ==
  LET at == find_cl(om, ours)
  IN  CASE at = {}      -> om
        [] ~accepted    -> With(om, ours, "done", 0)
        [] \E i \in at : om[i].exch \notin {0, exch} -> om
        [] OTHER        -> With(om, ours, "live", exch)

ordmap_close(om, ours) ==
  [i \in DOMAIN om |-> IF om[i].cl = ours THEN [om[i] EXCEPT !.st = "done"] ELSE om[i]]

\* The numbers a cancel of the order may carry: none when it is not in the
\* table or is over.
ordmap_cancel_key(om, ours) ==
  {om[i].exch : i \in {j \in find_cl(om, ours) : om[j].st /= "done"}}

ordmap_on_disconnect(om) ==
  [i \in DOMAIN om |-> IF om[i].st = "pending" THEN [om[i] EXCEPT !.st = "indoubt"] ELSE om[i]]
=============================================================================
