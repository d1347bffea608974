--------------------------- MODULE OrderSdkProofs ---------------------------
(***************************************************************************)
(* For any number of slots, orders, changes and messages under way: once   *)
(* every answer about an order has been read its record is the venue's,    *)
(* and an order that may still trade is in a slot it can be cancelled from.*)
(*                                                                         *)
(* What a record will be is a fact about the record, the messages under    *)
(* way and the venue.  The invariant says that reading all of `down', one  *)
(* message after the other, leads each record to one that agrees with the  *)
(* venue (Leads, Right).  A message the venue adds moves both ends of that *)
(* claim by the same step, and a message the library reads moves none.     *)
(* The second property needs that a record that is taken for over stays so *)
(* along the way, hence that the order it is about is over at the venue.   *)
(***************************************************************************)
EXTENDS OrderSdk, SequenceTheorems, WellFoundedInduction, TLAPS

AllPrices == Prices \cup {FirstPrice}
Kinds     == {"order", "cancel", "modify", "fill"}
Records   == [cl : Nat, id : Nat, state : {"PENDING", "LIVE", "DONE"}, qty : {Qty},
              price : AllPrices, filled : Nat, canceled : Nat]
Requests  == [kind : Kinds \ {"fill"}, cl : Nat, id : Nat, price : AllPrices, qty : Nat \ {0}]
Messages  == [kind : Kinds, cl : Nat, id : Nat, ok : BOOLEAN, n : Nat \cup AllPrices]
VOrders   == [id : Nat, price : AllPrices, qty : Nat, traded : Nat, canceled : Nat,
              twice : BOOLEAN]

\* What a message carries: a count, or the price a modify was granted.
Carries(m) == /\ m.kind # "modify" => m.n \in Nat
              /\ m.kind = "modify" /\ m.ok => m.n \in AllPrices

\* The message is about the record's order: by our number, or by the venue's.
Concerns(o, m) == m.cl = o.cl \/ (m.kind # "order" /\ m.id # 0 /\ m.id = o.id)

\* The record of an order after an answer or a notice about it.
Answered(o, m) ==
  LET known == [o EXCEPT !.id = m.id]
  IN  IF ~m.ok THEN [known EXCEPT !.state = "DONE"]
      ELSE settle(Woken([known EXCEPT !.filled = Larger(m.n, @)]))
Canceled(o, m) == IF ~m.ok THEN o ELSE settle([o EXCEPT !.canceled = Larger(m.n, @)])
Modified(o, m) == IF ~m.ok THEN o ELSE [o EXCEPT !.price = m.n]
Filled(o, m)   == settle(Woken([o EXCEPT !.filled = @ + m.n]))

\* The record after the message m, whatever m is about.
After(o, m) ==
  IF ~Concerns(o, m) THEN o
  ELSE IF m.kind = "order" THEN Answered(o, m)
  ELSE IF m.kind = "cancel" THEN Canceled(o, m)
  ELSE IF m.kind = "modify" THEN Modified(o, m)
  ELSE Filled(o, m)

\* Reading msgs leads from the record o to the record r; h is what it is on the way.
Passes(h, o, msgs, r) ==
  /\ h \in [0..Len(msgs) -> Records]
  /\ h[0] = o /\ h[Len(msgs)] = r
  /\ \A i \in 1..Len(msgs) : h[i] = After(h[i - 1], msgs[i])
  /\ \A i \in 0..Len(msgs) : h[i].state = "DONE" => r.state = "DONE"
Leads(o, msgs, r) == \E h : Passes(h, o, msgs, r)

Types ==
  /\ ord \in [Slots -> Records \cup {NONE}]
  /\ next \in Nat \ {0} /\ orphans \in Nat
  /\ up \in Seq(Requests) /\ down \in Seq(Messages) /\ venue \in Seq(VOrders)
  /\ changes \in Nat

Number(c) == c + MaxOrders

\* The slots hold different orders, under the venue's number or none yet.
SlotsOK ==
  /\ \A s \in Used : /\ ord[s].cl \in 1..(next - 1)
                     /\ ord[s].id \in {0, Number(ord[s].cl)}
  /\ \A s, t \in Used : ord[s].cl = ord[t].cl => s = t

\* A cancel takes all that is open, and nothing is open after it.
VenueOK ==
  /\ Len(venue) < next
  /\ \A c \in 1..Len(venue) :
       /\ venue[c].id = Number(c)
       /\ venue[c].traded + venue[c].canceled <= venue[c].qty
       /\ venue[c].canceled > 0 => venue[c].traded + venue[c].canceled = venue[c].qty

\* A message is about one order the venue has, by either number.
MessageOK(m) ==
  /\ Carries(m)
  /\ \/ m.cl \in 1..Len(venue) /\ m.id \in {0, Number(m.cl)}
     \/ m.cl = 0 /\ m.kind # "order" /\ \E c \in 1..Len(venue) : m.id = Number(c)

DownOK == \A i \in 1..Len(down) : MessageOK(down[i])

\* The orders the venue has not read are under way, oldest first, and a change
\* is behind the order it names.
UpOK ==
  /\ \A i \in 1..Len(up) :
       /\ up[i].cl \in 1..(next - 1)
       /\ up[i].id \in {0, Number(up[i].cl)}
       /\ up[i].kind = "order" => up[i].cl > Len(venue) /\ up[i].price = FirstPrice
       /\ up[i].kind # "order" =>
            \/ up[i].cl <= Len(venue)
            \/ \E j \in 1..(i - 1) : up[j].kind = "order" /\ up[j].cl = up[i].cl
  /\ \A i, j \in 1..Len(up) :
       i < j /\ up[i].kind = "order" /\ up[j].kind = "order" => up[i].cl < up[j].cl
  /\ \A c \in (Len(venue) + 1)..(next - 1) :
       \E i \in 1..Len(up) : up[i].kind = "order" /\ up[i].cl = c

\* The record of an order the venue has accepted, or has refused.
Accepts(r, v) ==
  /\ r.id = v.id /\ r.state # "PENDING"
  /\ r.filled >= v.traded /\ (~v.twice => r.filled = v.traded)
  /\ r.canceled = v.canceled /\ r.price = v.price
  /\ r.state = "DONE" <=> r.filled + r.canceled >= Qty
Refuses(r, v) ==
  /\ r.id = 0 /\ r.state = "DONE" /\ r.filled = 0
  /\ v.traded = 0 /\ v.canceled = Qty /\ v.qty = Qty

Untouched(r) ==
  r.state = "PENDING" /\ r.id = 0 /\ r.filled = 0 /\ r.canceled = 0 /\ r.price = FirstPrice

Right(r, c) == /\ r.cl = c
               /\ c > Len(venue) => Untouched(r)
               /\ c <= Len(venue) => Accepts(r, venue[c]) \/ Refuses(r, venue[c])

RecordsOK == \A s \in Used : \E r : Leads(ord[s], down, r) /\ Right(r, ord[s].cl)

\* An order without a slot is over, as far as a record can follow it.
Over(v) == v.twice \/ v.traded + v.canceled >= Qty
Kept == \A c \in 1..(next - 1) :
          (\E s \in Used : ord[s].cl = c) \/ (c <= Len(venue) /\ Over(venue[c]))

IInv == Types /\ SlotsOK /\ VenueOK /\ DownOK /\ UpOK /\ RecordsOK /\ Kept

-----------------------------------------------------------------------------
(* One record and one message.                                              *)

LEMMA SettleFacts ==
  ASSUME NEW o \in Records
  PROVE  /\ settle(o) \in Records
         /\ settle(o).cl = o.cl /\ settle(o).id = o.id /\ settle(o).price = o.price
         /\ settle(o).filled = o.filled /\ settle(o).canceled = o.canceled
         /\ settle(o).state = IF o.filled + o.canceled >= Qty THEN "DONE" ELSE o.state
<1>1. /\ o.qty = Qty /\ o.filled \in Nat /\ o.canceled \in Nat /\ Qty \in Nat
      /\ o.cl \in Nat /\ o.id \in Nat /\ o.price \in AllPrices
      /\ o.state \in {"PENDING", "LIVE", "DONE"}
      /\ o = [cl |-> o.cl, id |-> o.id, state |-> o.state, qty |-> o.qty, price |-> o.price,
              filled |-> o.filled, canceled |-> o.canceled]
  BY SizeAssumption DEF Records
<1>2. [o EXCEPT !.state = "DONE"]
        = [cl |-> o.cl, id |-> o.id, state |-> "DONE", qty |-> o.qty, price |-> o.price,
           filled |-> o.filled, canceled |-> o.canceled]
  BY <1>1
<1>3. CASE o.filled + o.canceled >= Qty
  BY <1>1, <1>2, <1>3 DEF settle, Records
<1>4. CASE ~(o.filled + o.canceled >= Qty)
  BY <1>1, <1>4 DEF settle
<1> QED
  BY <1>3, <1>4

LEMMA WokenFacts ==
  ASSUME NEW o \in Records
  PROVE  /\ Woken(o) \in Records
         /\ Woken(o).cl = o.cl /\ Woken(o).id = o.id /\ Woken(o).price = o.price
         /\ Woken(o).filled = o.filled /\ Woken(o).canceled = o.canceled
         /\ Woken(o).state = IF o.state = "PENDING" THEN "LIVE" ELSE o.state
<1>1. CASE o.state = "PENDING"
  BY <1>1 DEF Woken, Records
<1>2. CASE o.state # "PENDING"
  BY <1>2 DEF Woken
<1> QED
  BY <1>1, <1>2

\* The state after shares have been counted.
Settled(state, filled, canceled) ==
  IF filled + canceled >= Qty THEN "DONE" ELSE state
Up(state) == IF state = "PENDING" THEN "LIVE" ELSE state

\* r is the record with these fields.
Is(r, cl, id, state, price, filled, canceled) ==
  /\ r \in Records /\ r.cl = cl /\ r.id = id /\ r.state = state /\ r.price = price
  /\ r.filled = filled /\ r.canceled = canceled

LEMMA LargerFacts ==
  ASSUME NEW m \in Nat, NEW n \in Nat
  PROVE  Larger(m, n) \in Nat /\ Larger(m, n) >= m /\ Larger(m, n) >= n
         /\ (m >= n => Larger(m, n) = m)
BY DEF Larger

LEMMA AnsweredIs ==
  ASSUME NEW o \in Records, NEW m \in Messages, m.kind = "order", Carries(m)
  PROVE  /\ ~m.ok => Is(Answered(o, m), o.cl, m.id, "DONE", o.price, o.filled, o.canceled)
         /\ m.ok => Is(Answered(o, m), o.cl, m.id,
                       Settled(Up(o.state), Larger(m.n, o.filled), o.canceled),
                       o.price, Larger(m.n, o.filled), o.canceled)
<1> DEFINE known == [o EXCEPT !.id = m.id]
           more == [known EXCEPT !.filled = Larger(m.n, @)]
<1>1. m.id \in Nat /\ m.n \in Nat /\ m.ok \in BOOLEAN
  BY DEF Messages, Carries
<1>2. known \in Records /\ known.cl = o.cl /\ known.id = m.id /\ known.state = o.state
      /\ known.price = o.price /\ known.filled = o.filled /\ known.canceled = o.canceled
  BY <1>1 DEF Records
<1>3. Answered(o, m) = IF ~m.ok THEN [known EXCEPT !.state = "DONE"] ELSE settle(Woken(more))
  BY DEF Answered
<1> HIDE DEF known
<1>4. Is([known EXCEPT !.state = "DONE"], o.cl, m.id, "DONE", o.price, o.filled, o.canceled)
  BY <1>2 DEF Is, Records
<1>5. Larger(m.n, o.filled) \in Nat
  BY <1>1, LargerFacts DEF Records
<1>6. Is(more, o.cl, m.id, o.state, o.price, Larger(m.n, o.filled), o.canceled)
  BY <1>2, <1>5 DEF Is, Records
<1> HIDE DEF more
<1>7. Is(Woken(more), o.cl, m.id, Up(o.state), o.price, Larger(m.n, o.filled), o.canceled)
  BY <1>6, WokenFacts DEF Is, Up
<1>8. Is(settle(Woken(more)), o.cl, m.id,
         Settled(Up(o.state), Larger(m.n, o.filled), o.canceled),
         o.price, Larger(m.n, o.filled), o.canceled)
  BY <1>7, SettleFacts DEF Is, Settled
<1> QED
  BY <1>1, <1>3, <1>4, <1>8

LEMMA CanceledIs ==
  ASSUME NEW o \in Records, NEW m \in Messages, m.kind = "cancel", Carries(m)
  PROVE  /\ ~m.ok => Canceled(o, m) = o
         /\ m.ok => Is(Canceled(o, m), o.cl, o.id,
                       Settled(o.state, o.filled, Larger(m.n, o.canceled)),
                       o.price, o.filled, Larger(m.n, o.canceled))
<1> DEFINE more == [o EXCEPT !.canceled = Larger(m.n, @)]
<1>1. m.n \in Nat /\ m.ok \in BOOLEAN /\ Larger(m.n, o.canceled) \in Nat
  BY LargerFacts DEF Messages, Carries, Records
<1>2. Is(more, o.cl, o.id, o.state, o.price, o.filled, Larger(m.n, o.canceled))
  BY <1>1 DEF Is, Records
<1>3. Canceled(o, m) = IF ~m.ok THEN o ELSE settle(more)
  BY DEF Canceled
<1> HIDE DEF more
<1> QED
  BY <1>1, <1>2, <1>3, SettleFacts DEF Is, Settled

LEMMA ModifiedIs ==
  ASSUME NEW o \in Records, NEW m \in Messages, m.kind = "modify", Carries(m)
  PROVE  /\ ~m.ok => Modified(o, m) = o
         /\ m.ok => Is(Modified(o, m), o.cl, o.id, o.state, m.n, o.filled, o.canceled)
<1>1. m.ok \in BOOLEAN /\ (m.ok => m.n \in AllPrices)
  BY DEF Messages, Carries
<1>2. CASE m.ok
  BY <1>1, <1>2 DEF Is, Modified, Records
<1>3. CASE ~m.ok
  BY <1>3 DEF Modified
<1> QED
  BY <1>1, <1>2, <1>3

LEMMA FilledIs ==
  ASSUME NEW o \in Records, NEW m \in Messages, m.kind = "fill", Carries(m)
  PROVE  Is(Filled(o, m), o.cl, o.id,
            Settled(Up(o.state), o.filled + m.n, o.canceled),
            o.price, o.filled + m.n, o.canceled)
<1> DEFINE more == [o EXCEPT !.filled = @ + m.n]
<1>1. m.n \in Nat /\ o.filled + m.n \in Nat
  BY DEF Messages, Carries, Records
<1>2. Is(more, o.cl, o.id, o.state, o.price, o.filled + m.n, o.canceled)
  BY <1>1 DEF Is, Records
<1>3. Filled(o, m) = settle(Woken(more))
  BY DEF Filled
<1> HIDE DEF more
<1>4. Is(Woken(more), o.cl, o.id, Up(o.state), o.price, o.filled + m.n, o.canceled)
  BY <1>2, WokenFacts DEF Is, Up
<1> QED
  BY <1>3, <1>4, SettleFacts DEF Is, Settled

\* A message leaves a record that of the same order, and one that is taken for over so.
LEMMA AfterFacts ==
  ASSUME NEW o \in Records, NEW m \in Messages, Carries(m)
  PROVE  /\ After(o, m) \in Records /\ After(o, m).cl = o.cl
         /\ o.state = "DONE" => After(o, m).state = "DONE"
         /\ After(o, m).id \in {o.id, m.id}
         /\ After(o, m).id = o.id \/ m.cl = o.cl
<1>0. o \in Records /\ m.ok \in BOOLEAN
  BY DEF Messages
<1>1. CASE ~Concerns(o, m)
  BY <1>1 DEF After
<1>2. CASE Concerns(o, m) /\ m.kind = "order"
  <2>1. After(o, m) = Answered(o, m) /\ m.cl = o.cl
    BY <1>2 DEF After, Concerns
  <2> QED
    BY <1>0, <1>2, <2>1, AnsweredIs DEF Is, Settled, Up
<1>3. CASE Concerns(o, m) /\ m.kind = "cancel"
  <2>1. After(o, m) = Canceled(o, m)
    BY <1>3 DEF After
  <2> QED
    BY <1>0, <1>3, <2>1, CanceledIs DEF Is, Settled
<1>4. CASE Concerns(o, m) /\ m.kind = "modify"
  <2>1. After(o, m) = Modified(o, m)
    BY <1>4 DEF After
  <2> QED
    BY <1>0, <1>4, <2>1, ModifiedIs DEF Is
<1>5. CASE Concerns(o, m) /\ m.kind = "fill"
  <2>1. After(o, m) = Filled(o, m)
    BY <1>5 DEF After
  <2> QED
    BY <1>0, <1>5, <2>1, FilledIs DEF Is, Settled, Up
<1>6. m.kind \in Kinds
  BY DEF Messages
<1> QED
  BY <1>1, <1>2, <1>3, <1>4, <1>5, <1>6 DEF Kinds

-----------------------------------------------------------------------------
(* A record and all the messages under way.                                 *)

\* A nonempty set of natural numbers has a least one.
LEMMA LeastOf ==
  ASSUME NEW S, S \subseteq Nat, S # {}
  PROVE  \E x \in S : \A y \in S : x <= y
<1> DEFINE R == {p \in Nat \X Nat : p[1] < p[2]}
<1>0. IsWellFoundedOn(R, Nat)
  BY NatLessThanWellFounded, Zenon DEF OpToRel
<1>1. PICK x \in S : \A y \in S : ~(<<y, x>> \in R)
  <2> HIDE DEF R
  <2> QED
    BY <1>0, WFMin
<1>2. ASSUME NEW y \in S PROVE x <= y
  <2>1. x \in Nat /\ y \in Nat /\ ~(<<y, x>> \in R)
    BY <1>1
  <2> QED
    BY <2>1
<1> QED
  BY <1>2

LEMMA LeadsAppend ==
  ASSUME NEW msgs \in Seq(Messages), NEW m \in Messages, Carries(m),
         NEW o, NEW r, Leads(o, msgs, r)
  PROVE  Leads(o, Append(msgs, m), After(r, m))
<1> DEFINE all == Append(msgs, m)
           n == Len(msgs)
<1>1. PICK h : Passes(h, o, msgs, r)
  BY DEF Leads
<1>2. n \in Nat /\ Len(all) = n + 1 /\ all[n + 1] = m /\ \A i \in 1..n : all[i] = msgs[i]
  OBVIOUS
<1>3. /\ h \in [0..n -> Records] /\ h[0] = o /\ h[n] = r /\ r \in Records
      /\ \A i \in 1..n : h[i] = After(h[i - 1], msgs[i])
      /\ \A i \in 0..n : h[i].state = "DONE" => r.state = "DONE"
  BY <1>1, <1>2 DEF Passes
<1> DEFINE last == After(r, m)
           g == [i \in 0..(n + 1) |-> IF i = n + 1 THEN last ELSE h[i]]
<1>4. last \in Records /\ (r.state = "DONE" => last.state = "DONE")
  BY <1>3, AfterFacts
<1> HIDE DEF all, n
<1>5. g[n + 1] = After(r, m) /\ (\A i \in 0..n : g[i] = h[i])
  BY <1>2
<1>6. g \in [0..(n + 1) -> Records]
  <2> HIDE DEF last
  <2> QED
    BY <1>2, <1>3, <1>4
<1> HIDE DEF g
<1>7. \A i \in 1..(n + 1) : g[i] = After(g[i - 1], all[i])
  <2> TAKE i \in 1..(n + 1)
  <2>1. CASE i = n + 1
    <3>1. g[i - 1] = r /\ all[i] = m /\ g[i] = After(r, m)
      BY <1>2, <1>3, <1>5, <2>1
    <3> QED
      BY <3>1
  <2>2. CASE i # n + 1
    <3>1. i \in 1..n /\ i \in 0..n /\ i - 1 \in 0..n
      BY <1>2, <2>2
    <3> QED
      BY <1>2, <1>3, <1>5, <3>1
  <2> QED
    BY <2>1, <2>2
<1>8. \A i \in 0..(n + 1) : g[i].state = "DONE" => last.state = "DONE"
  <2> TAKE i \in 0..(n + 1)
  <2>1. i = n + 1 \/ i \in 0..n
    BY <1>2
  <2> QED
    BY <1>3, <1>4, <1>5, <2>1
<1>9. g[0] = o /\ g[n + 1] = After(r, m)
  BY <1>2, <1>3, <1>5
<1>10. Passes(g, o, all, After(r, m))
  BY <1>2, <1>6, <1>7, <1>8, <1>9 DEF Passes
<1> QED
  BY <1>10 DEF Leads, all

LEMMA TailFacts ==
  ASSUME NEW S, NEW q \in Seq(S), q # <<>>
  PROVE  /\ Tail(q) \in Seq(S) /\ Len(Tail(q)) = Len(q) - 1 /\ Len(q) \in Nat \ {0}
         /\ Head(q) = q[1] /\ q[1] \in S /\ 1 \in 1..Len(q)
         /\ \A i \in 1..(Len(q) - 1) : Tail(q)[i] = q[i + 1] /\ i + 1 \in 1..Len(q)
OBVIOUS

LEMMA LeadsTail ==
  ASSUME NEW msgs \in Seq(Messages), msgs # <<>>, NEW o, NEW r, Leads(o, msgs, r)
  PROVE  Leads(After(o, Head(msgs)), Tail(msgs), r)
<1> DEFINE rest == Tail(msgs)
           n == Len(rest)
<1>1. PICK h : Passes(h, o, msgs, r)
  BY DEF Leads
<1>2. /\ n \in Nat /\ Len(msgs) = n + 1 /\ Head(msgs) = msgs[1]
      /\ \A i \in 1..n : rest[i] = msgs[i + 1]
  BY TailFacts
<1> HIDE DEF rest, n
<1>3. /\ h \in [0..(n + 1) -> Records] /\ h[0] = o /\ h[n + 1] = r
      /\ \A i \in 1..(n + 1) : h[i] = After(h[i - 1], msgs[i])
      /\ \A i \in 0..(n + 1) : h[i].state = "DONE" => r.state = "DONE"
  BY <1>1, <1>2 DEF Passes
<1> DEFINE g == [i \in 0..n |-> h[i + 1]]
<1>4. g \in [0..n -> Records] /\ \A i \in 0..n : g[i] = h[i + 1] /\ i + 1 \in 0..(n + 1)
  BY <1>2, <1>3
<1> HIDE DEF g
<1>5. g[0] = After(o, Head(msgs)) /\ g[n] = r
  <2>1. g[0] = h[0 + 1] /\ g[n] = h[n + 1]
    BY <1>2, <1>4
  <2>2. h[1] = After(h[1 - 1], msgs[1])
    BY <1>2, <1>3
  <2> QED
    BY <1>2, <1>3, <2>1, <2>2
<1>6. \A i \in 1..n : g[i] = After(g[i - 1], rest[i])
  <2> TAKE i \in 1..n
  <2>1. i + 1 \in 1..(n + 1) /\ i \in 0..n /\ i - 1 \in 0..n /\ (i + 1) - 1 = i /\ (i - 1) + 1 = i
    BY <1>2
  <2>2. h[i + 1] = After(h[(i + 1) - 1], msgs[i + 1])
    BY <1>3, <2>1
  <2>3. g[i] = h[i + 1] /\ g[i - 1] = h[i]
    BY <1>4, <2>1
  <2> QED
    BY <1>2, <2>1, <2>2, <2>3
<1>7. \A i \in 0..n : g[i].state = "DONE" => r.state = "DONE"
  BY <1>3, <1>4
<1>8. Passes(g, After(o, Head(msgs)), rest, r)
  BY <1>2, <1>4, <1>5, <1>6, <1>7 DEF Passes, n
<1> QED
  BY <1>8 DEF Leads, rest

\* Messages that are not about a record leave it as it is.
LEMMA LeadsToItself ==
  ASSUME NEW msgs \in Seq(Messages), NEW o \in Records,
         \A i \in 1..Len(msgs) : ~Concerns(o, msgs[i])
  PROVE  Leads(o, msgs, o)
<1> DEFINE n == Len(msgs)
           h == [i \in 0..n |-> o]
<1>1. n \in Nat /\ h \in [0..n -> Records] /\ \A i \in 0..n : h[i] = o
  OBVIOUS
<1>2. \A i \in 1..n : After(o, msgs[i]) = o
  BY DEF After
<1>3. Passes(h, o, msgs, o)
  <2>1. \A i \in 1..n : h[i] = After(h[i - 1], msgs[i])
    <3> TAKE i \in 1..n
    <3>1. i \in 0..n /\ i - 1 \in 0..n
      BY <1>1
    <3> QED
      BY <1>1, <1>2, <3>1
  <2> QED
    BY <1>1, <2>1 DEF Passes
<1> QED
  BY <1>3 DEF Leads

LEMMA LeadsNowhere ==
  ASSUME NEW msgs \in Seq(Messages), NEW o, NEW r, Leads(o, msgs, r),
         \A i \in 1..Len(msgs) : ~Concerns(o, msgs[i])
  PROVE  r = o
<1> DEFINE n == Len(msgs)
<1>0. n \in Nat
  OBVIOUS
<1>1. PICK h : Passes(h, o, msgs, r)
  BY DEF Leads
<1>2. /\ h[0] = o /\ h[n] = r
      /\ \A i \in 1..n : h[i] = After(h[i - 1], msgs[i])
  BY <1>1 DEF Passes
<1> DEFINE Bad == {i \in 0..n : h[i] # o}
<1>3. Bad = {}
  <2> SUFFICES ASSUME Bad # {} PROVE FALSE
    OBVIOUS
  <2>1. Bad \subseteq Nat
    BY <1>0
  <2>2. PICK i \in Bad : \A y \in Bad : i <= y
    <3> HIDE DEF Bad
    <3> QED
      BY <2>1, LeastOf
  <2>3. i \in 0..n /\ h[i] # o
    BY <2>2
  <2>4. i \in 1..n /\ i - 1 \in 0..n
    BY <1>0, <1>2, <2>3
  <2>5. h[i - 1] = o
    BY <1>0, <2>2, <2>4
  <2>6. After(o, msgs[i]) = o
    BY <2>4 DEF After
  <2> QED
    BY <1>2, <2>3, <2>4, <2>5, <2>6
<1> QED
  BY <1>0, <1>2, <1>3

LEMMA LeadsDone ==
  ASSUME NEW msgs \in Seq(Messages), NEW o, NEW r, Leads(o, msgs, r)
  PROVE  o \in Records /\ r \in Records /\ (o.state = "DONE" => r.state = "DONE")
<1>1. PICK h : Passes(h, o, msgs, r)
  BY DEF Leads
<1>2. Len(msgs) \in Nat /\ 0 \in 0..Len(msgs) /\ Len(msgs) \in 0..Len(msgs)
  OBVIOUS
<1> QED
  BY <1>1, <1>2 DEF Passes

-----------------------------------------------------------------------------
(* The library reads a message.                                             *)

LEMMA UsedFacts ==
  ASSUME ord \in [Slots -> Records \cup {NONE}]
  PROVE  /\ Used \subseteq Slots
         /\ \A s \in Used : ord[s] \in Records /\ ord[s].cl \in Nat /\ ord[s].id \in Nat
         /\ \A s \in Slots \ Used : ord[s] = NONE
         /\ \A s \in Slots : ord[s] \in Records => s \in Used
<1>1. NONE.state = "NONE" /\ \A r \in Records : r.state # "NONE"
  BY DEF NONE, Records
<1> QED
  BY <1>1 DEF Used, Records

\* A message about one order is not about the record of another.
LEMMA NotAbout ==
  ASSUME NEW r \in Records, r.cl >= 1, r.id \in {0, Number(r.cl)},
         NEW m \in Messages, NEW d \in Nat \ {0}, m.cl \in {0, d}, m.id \in {0, Number(d)},
         d # r.cl
  PROVE  ~Concerns(r, m) /\ After(r, m) = r
<1>1. r.cl \in Nat /\ MaxOrders \in Nat
  BY BoundAssumption DEF Records
<1>2. ~Concerns(r, m)
  BY <1>1 DEF Concerns, Number
<1> QED
  BY <1>2 DEF After

\* The order a message is about.
LEMMA AboutWhich ==
  ASSUME Types, NEW m \in Messages, MessageOK(m)
  PROVE  \E d \in 1..Len(venue) : m.cl \in {0, d} /\ m.id \in {0, Number(d)}
<1>1. CASE m.cl \in 1..Len(venue) /\ m.id \in {0, Number(m.cl)}
  BY <1>1
<1>2. CASE \E c \in 1..Len(venue) : m.cl = 0 /\ m.id = Number(c)
  BY <1>2
<1> QED
  BY <1>1, <1>2 DEF MessageOK

LEMMA OneSlot ==
  ASSUME Types, SlotsOK, NEW m \in Messages, MessageOK(m),
         NEW s \in Used, NEW t \in Used, Concerns(ord[s], m), Concerns(ord[t], m)
  PROVE  s = t
<1>1. PICK d \in 1..Len(venue) : m.cl \in {0, d} /\ m.id \in {0, Number(d)}
  BY AboutWhich
<1>2. d \in Nat \ {0}
  BY <1>1 DEF Types
<1>3. /\ ord[s] \in Records /\ ord[s].cl >= 1 /\ ord[s].id \in {0, Number(ord[s].cl)}
      /\ ord[t] \in Records /\ ord[t].cl >= 1 /\ ord[t].id \in {0, Number(ord[t].cl)}
  BY UsedFacts DEF Types, SlotsOK
<1>4. ord[s].cl = d /\ ord[t].cl = d
  BY <1>1, <1>2, <1>3, NotAbout
<1> QED
  BY <1>4 DEF SlotsOK

LEMMA FoundIs ==
  ASSUME NEW slots, NEW s \in slots, s \in Int, \A t \in slots : t = s
  PROVE  Found(slots) = s
<1>1. \A t \in slots : s <= t
  OBVIOUS
<1>2. \E x \in slots : \A t \in slots : x <= t
  BY <1>1
<1>3. Found(slots) \in slots
  BY <1>2 DEF Found
<1> QED
  BY <1>3

\* The message that is read changes the record it is about and no other.
Receives ==
  /\ down # <<>> /\ down' = Tail(down)
  /\ ord' = [s \in Slots |-> IF s \in Used THEN After(ord[s], Head(down)) ELSE ord[s]]
  /\ orphans' \in Nat
  /\ UNCHANGED <<next, up, venue, changes>>

LEMMA TakeReceives ==
  ASSUME Types, SlotsOK, down # <<>>, Head(down) \in Messages, MessageOK(Head(down)),
         NEW slots, slots = {s \in Used : Concerns(ord[s], Head(down))},
         NEW r, slots # {} => r = After(ord[Found(slots)], Head(down)),
         Take(slots, r)
  PROVE  Receives
<1> DEFINE m == Head(down)
<1>1. /\ down' = Tail(down) /\ UNCHANGED <<next, up, venue, changes>>
  BY DEF Take
<1>2. CASE slots = {}
  <2>1. ord' = ord /\ orphans' \in Nat
    BY <1>2 DEF Take, Types
  <2>2. \A s \in Used : After(ord[s], m) = ord[s]
    BY <1>2 DEF After
  <2>3. ord' = [s \in Slots |-> IF s \in Used THEN After(ord[s], m) ELSE ord[s]]
    BY <2>1, <2>2 DEF Types
  <2> QED
    BY <1>1, <2>1, <2>3 DEF Receives
<1>3. CASE slots # {}
  <2>1. PICK s \in slots : TRUE
    BY <1>3
  <2>2. \A t \in slots : t = s
    BY <2>1, OneSlot
  <2>3. s \in Used /\ s \in Slots /\ Slots \subseteq Int
    BY <2>1, UsedFacts DEF Types, Slots
  <2>4. Found(slots) = s
    BY <2>1, <2>2, <2>3, FoundIs
  <2>5. ord' = [ord EXCEPT ![s] = After(ord[s], m)] /\ orphans' \in Nat
    BY <1>3, <2>4 DEF Take, Types
  <2>6. \A t \in Used \ {s} : After(ord[t], m) = ord[t]
    BY <2>2 DEF After
  <2>7. ord' = [t \in Slots |-> IF t \in Used THEN After(ord[t], m) ELSE ord[t]]
    <3> DEFINE a == After(ord[s], m)
    <3>1. ord' = [t \in Slots |-> IF t = s THEN a ELSE ord[t]]
      BY <2>5 DEF Types
    <3>2. \A t \in Slots : (IF t = s THEN a ELSE ord[t])
                             = IF t \in Used THEN After(ord[t], m) ELSE ord[t]
      BY <2>3, <2>6
    <3> QED
      BY <3>1, <3>2
  <2> QED
    BY <1>1, <2>5, <2>7 DEF Receives
<1> QED
  BY <1>2, <1>3

\* Looking up an answer by our number and then by the venue's finds what it is about.
LEMMA AddresseeIs ==
  ASSUME Types, SlotsOK, NEW m \in Messages, MessageOK(m)
  PROVE  /\ m.kind = "order" => find(m.cl) = {s \in Used : Concerns(ord[s], m)}
         /\ m.kind # "order" => Addressee(m) = {s \in Used : Concerns(ord[s], m)}
<1>1. m.kind = "order" => find(m.cl) = {s \in Used : Concerns(ord[s], m)}
  BY DEF find, Concerns
<1>2. ASSUME m.kind # "order", find(m.cl) # {}
      PROVE  Addressee(m) = {s \in Used : Concerns(ord[s], m)}
  <2>1. Addressee(m) = find(m.cl)
    BY <1>2 DEF Addressee
  <2>2. PICK t \in find(m.cl) : TRUE
    BY <1>2
  <2>3. t \in Used /\ Concerns(ord[t], m)
    BY <2>2 DEF find, Concerns
  <2>4. ASSUME NEW s \in Used, Concerns(ord[s], m) PROVE s \in find(m.cl)
    BY <2>2, <2>3, <2>4, OneSlot
  <2>5. \A s \in find(m.cl) : s \in Used /\ Concerns(ord[s], m)
    BY DEF find, Concerns
  <2> QED
    BY <2>1, <2>4, <2>5
<1>3. ASSUME m.kind # "order", find(m.cl) = {}
      PROVE  Addressee(m) = {s \in Used : Concerns(ord[s], m)}
  <2>1. Addressee(m) = find_by_order_id(m.id)
    BY <1>3 DEF Addressee
  <2>2. \A s \in Used : ord[s].cl # m.cl
    BY <1>3 DEF find
  <2>3. \A s \in Used : Concerns(ord[s], m) <=> s \in find_by_order_id(m.id)
    BY <1>3, <2>2 DEF Concerns, find_by_order_id
  <2>4. find_by_order_id(m.id) \subseteq Used
    BY DEF find_by_order_id
  <2> QED
    BY <2>1, <2>3, <2>4
<1> QED
  BY <1>1, <1>2, <1>3

LEMMA HandlersReceive ==
  ASSUME Types, SlotsOK, DownOK,
         sdk_on_order_ack \/ sdk_on_cancel_ack \/ sdk_on_modify_ack \/ sdk_on_fill
  PROVE  Receives
<1> DEFINE m == Head(down)
           about == {s \in Used : Concerns(ord[s], m)}
<1>1. down # <<>>
  BY DEF sdk_on_order_ack, sdk_on_cancel_ack, sdk_on_modify_ack, sdk_on_fill, Told
<1>2. m \in Messages /\ MessageOK(m)
  BY <1>1, TailFacts DEF Types, DownOK
<1>3. /\ m.kind = "order" => find(m.cl) = about
      /\ m.kind # "order" => Addressee(m) = about
  BY <1>2, AddresseeIs
<1>4. about # {} => Concerns(ord[Found(about)], m)
  <2>1. ASSUME about # {} PROVE Found(about) \in about
    <3>1. PICK s \in about : TRUE
      BY <2>1
    <3>2. \A t \in about : t = s
      BY <1>2, <3>1, OneSlot
    <3>3. s \in Int
      BY <3>1, UsedFacts DEF Types, Slots
    <3> HIDE DEF about
    <3> QED
      BY <3>1, <3>2, <3>3, FoundIs
  <2> QED
    BY <2>1
<1> HIDE DEF about
<1> DEFINE o == ord[Found(about)]
<1>5. CASE sdk_on_order_ack
  <2>1. m.kind = "order"
    BY <1>5 DEF sdk_on_order_ack, Told
  <2>2. Take(about, Answered(o, m))
    BY <1>3, <1>5, <2>1 DEF sdk_on_order_ack, Answered
  <2>3. about # {} => Answered(o, m) = After(o, m)
    BY <1>4, <2>1 DEF After
  <2> QED
    BY <1>1, <1>2, <2>2, <2>3, TakeReceives DEF about
<1>6. CASE sdk_on_cancel_ack
  <2>1. m.kind = "cancel"
    BY <1>6 DEF sdk_on_cancel_ack, Told
  <2>2. Take(about, Canceled(o, m))
    BY <1>3, <1>6, <2>1 DEF sdk_on_cancel_ack, Canceled
  <2>3. about # {} => Canceled(o, m) = After(o, m)
    BY <1>4, <2>1 DEF After
  <2> QED
    BY <1>1, <1>2, <2>2, <2>3, TakeReceives DEF about
<1>7. CASE sdk_on_modify_ack
  <2>1. m.kind = "modify"
    BY <1>7 DEF sdk_on_modify_ack, Told
  <2>2. Take(about, Modified(o, m))
    BY <1>3, <1>7, <2>1 DEF sdk_on_modify_ack, Modified
  <2>3. about # {} => Modified(o, m) = After(o, m)
    BY <1>4, <2>1 DEF After
  <2> QED
    BY <1>1, <1>2, <2>2, <2>3, TakeReceives DEF about
<1>8. CASE sdk_on_fill
  <2>1. m.kind = "fill"
    BY <1>8 DEF sdk_on_fill, Told
  <2>2. Take(about, Filled(o, m))
    BY <1>3, <1>8, <2>1 DEF sdk_on_fill, Filled
  <2>3. about # {} => Filled(o, m) = After(o, m)
    BY <1>4, <2>1 DEF After
  <2> QED
    BY <1>1, <1>2, <2>2, <2>3, TakeReceives DEF about
<1> QED
  BY <1>5, <1>6, <1>7, <1>8

LEMMA ReceiveStep ==
  ASSUME IInv, Receives
  PROVE  IInv'
<1> DEFINE m == Head(down)
<1>0. Types /\ SlotsOK /\ VenueOK /\ DownOK /\ UpOK /\ RecordsOK /\ Kept
  BY DEF IInv
<1>1. /\ m \in Messages /\ MessageOK(m) /\ Carries(m) /\ m.id \in Nat
      /\ down' \in Seq(Messages) /\ UNCHANGED <<next, up, venue, changes>>
  <2>1. down \in Seq(Messages) /\ down # <<>> /\ down' = Tail(down)
    BY <1>0 DEF Types, Receives
  <2>2. m \in Messages /\ m = down[1] /\ 1 \in 1..Len(down) /\ down' \in Seq(Messages)
    BY <2>1, TailFacts
  <2>3. MessageOK(m)
    BY <1>0, <2>2 DEF DownOK
  <2> QED
    BY <2>2, <2>3 DEF Receives, MessageOK, Messages
<1>2. \A s \in Used : /\ ord[s] \in Records /\ ord'[s] = After(ord[s], m)
                      /\ ord'[s] \in Records /\ ord'[s].cl = ord[s].cl
                      /\ ord'[s].id \in {ord[s].id, m.id}
                      /\ (ord'[s].id = ord[s].id \/ m.cl = ord[s].cl)
  BY <1>0, <1>1, UsedFacts, AfterFacts DEF Types, Receives
<1>3. \A s \in Slots \ Used : ord'[s] = ord[s] /\ ord[s] = NONE
  BY <1>0, UsedFacts DEF Types, Receives
<1>4. Types'
  <2>1. ord' \in [Slots -> Records \cup {NONE}]
    <3>1. DOMAIN ord' = Slots /\ ord' = [s \in Slots |-> ord'[s]]
      BY DEF Receives
    <3> QED
      BY <1>2, <1>3, <3>1
  <2> QED
    BY <1>0, <1>1, <2>1 DEF Types, Receives
<1>5. Used' = Used
  <2>1. NONE.state = "NONE" /\ \A r \in Records : r.state # "NONE"
    BY DEF NONE, Records
  <2>2. Used \subseteq Slots
    BY DEF Used
  <2>3. \A s \in Slots : ord'[s].state # "NONE" <=> s \in Used
    BY <1>2, <1>3, <2>1
  <2> QED
    BY <2>2, <2>3 DEF Used
<1>6. SlotsOK'
  <2>1. ASSUME NEW s \in Used PROVE ord'[s].id \in {0, Number(ord'[s].cl)}
    <3>1. CASE ord'[s].id = ord[s].id
      BY <1>0, <1>2, <3>1 DEF SlotsOK
    <3>2. CASE m.cl = ord[s].cl /\ ord'[s].id = m.id
      <4>1. m.cl >= 1
        BY <1>0, <3>2 DEF SlotsOK, Types
      <4>2. m.id \in {0, Number(m.cl)}
        BY <1>1, <4>1 DEF MessageOK
      <4> QED
        BY <1>2, <3>2, <4>2
    <3> QED
      BY <1>2, <3>1, <3>2
  <2> QED
    BY <1>0, <1>1, <1>2, <1>5, <2>1 DEF SlotsOK
<1>7. VenueOK' /\ UpOK'
  BY <1>0, <1>1 DEF VenueOK, UpOK
<1>8. DownOK'
  <2>1. ASSUME NEW i \in 1..Len(down') PROVE MessageOK(down'[i])
    <3>1. i + 1 \in 1..Len(down) /\ down'[i] = down[i + 1]
      BY <1>0, TailFacts DEF Types, Receives
    <3> QED
      BY <1>0, <3>1 DEF DownOK
  <2> QED
    BY <1>1, <2>1 DEF DownOK, MessageOK
<1>9. RecordsOK'
  <2> SUFFICES ASSUME NEW s \in Used
               PROVE  \E r : Leads(ord'[s], down', r) /\ Right(r, ord[s].cl)'
    BY <1>5 DEF RecordsOK
  <2>1. PICK r : Leads(ord[s], down, r) /\ Right(r, ord[s].cl)
    BY <1>0 DEF RecordsOK
  <2>2. Leads(ord'[s], down', r)
    BY <1>0, <1>2, <2>1, LeadsTail DEF Receives, Types
  <2>3. Right(r, ord[s].cl)'
    BY <1>1, <1>2, <2>1 DEF Right
  <2> QED
    BY <2>2, <2>3
<1>10. Kept'
  BY <1>0, <1>1, <1>2, <1>5 DEF Kept
<1> QED
  BY <1>4, <1>6, <1>7, <1>8, <1>9, <1>10 DEF IInv

-----------------------------------------------------------------------------
(* The library sends, and the strategy reaps.                               *)

LEMMA AppendFacts ==
  ASSUME NEW S, NEW q \in Seq(S), NEW a \in S
  PROVE  /\ Append(q, a) \in Seq(S) /\ Len(q) \in Nat /\ Len(Append(q, a)) = Len(q) + 1
         /\ Append(q, a)[Len(q) + 1] = a
         /\ \A i \in 1..Len(q) : Append(q, a)[i] = q[i]
OBVIOUS

LEMMA RequestStep ==
  ASSUME IInv, sdk_cancel \/ sdk_modify
  PROVE  IInv'
<1>0. Types /\ SlotsOK /\ VenueOK /\ DownOK /\ UpOK /\ RecordsOK /\ Kept
  BY DEF IInv
<1>1. PICK kind \in {"cancel", "modify"}, s \in Slots, p \in AllPrices, q \in Nat \ {0} :
        Request(kind, s, p, q)
  BY SizeAssumption DEF sdk_cancel, sdk_modify, AllPrices
<1> DEFINE a == [kind |-> kind, cl |-> ord[s].cl, id |-> ord[s].id, price |-> p, qty |-> q]
           n == Len(up)
<1>2. /\ up' = Append(up, a) /\ changes' \in Nat
      /\ UNCHANGED <<ord, next, orphans, down, venue>>
  BY <1>0, <1>1 DEF Request, Types
<1>3. /\ s \in Used /\ ord[s].cl \in 1..(next - 1) /\ ord[s].id \in {0, Number(ord[s].cl)}
      /\ ord[s].cl \in Nat /\ ord[s].id \in Nat
  BY <1>0, <1>1, UsedFacts DEF Request, mutable_order, Used, SlotsOK, Types
<1>4. /\ a \in Requests /\ a.kind # "order" /\ a.cl \in 1..(next - 1)
      /\ a.id \in {0, Number(a.cl)}
  BY <1>1, <1>3 DEF Requests, Kinds
<1> HIDE DEF a
<1>5. /\ up' \in Seq(Requests) /\ n \in Nat /\ Len(up') = n + 1 /\ up'[n + 1] = a
      /\ \A i \in 1..n : up'[i] = up[i]
  BY <1>0, <1>2, <1>4, AppendFacts DEF Types
<1> HIDE DEF n
<1>6. Types'
  BY <1>0, <1>2, <1>5 DEF Types
<1>7. UpOK'
  <2>0. /\ next' = next /\ venue' = venue /\ Len(venue) \in Nat /\ next \in Nat
        /\ \A i \in 1..(n + 1) : i \in 1..n \/ i = n + 1
    BY <1>0, <1>2, <1>5 DEF Types
  <2>1. ASSUME NEW i \in 1..n
        PROVE  /\ up[i].cl \in 1..(next - 1)
               /\ up[i].id \in {0, Number(up[i].cl)}
               /\ up[i].kind = "order" => up[i].cl > Len(venue) /\ up[i].price = FirstPrice
               /\ up[i].kind # "order" =>
                    \/ up[i].cl <= Len(venue)
                    \/ \E j \in 1..(i - 1) : up[j].kind = "order" /\ up[j].cl = up[i].cl
    BY <1>0 DEF UpOK, n
  <2>2. ASSUME NEW i \in 1..n, up[i].kind # "order"
        PROVE  \/ up[i].cl <= Len(venue)
               \/ \E j \in 1..(i - 1) : up'[j].kind = "order" /\ up'[j].cl = up[i].cl
    <3>1. \A j \in 1..(i - 1) : j \in 1..n
      BY <1>5
    <3> QED
      BY <1>5, <2>1, <2>2, <3>1
  <2>3. \A c \in (Len(venue) + 1)..(next - 1) :
          \E i \in 1..n : up[i].kind = "order" /\ up[i].cl = c
    BY <1>0 DEF UpOK, n
  <2>4. \A c \in (Len(venue) + 1)..(next - 1) :
          \E i \in 1..(n + 1) : up'[i].kind = "order" /\ up'[i].cl = c
    BY <1>5, <2>3
  <2>5. \/ a.cl <= Len(venue)
        \/ \E j \in 1..n : up'[j].kind = "order" /\ up'[j].cl = a.cl
    BY <1>4, <1>5, <2>0, <2>3
  <2>6. \A i, j \in 1..n :
          i < j /\ up[i].kind = "order" /\ up[j].kind = "order" => up[i].cl < up[j].cl
    BY <1>0 DEF UpOK, n
  <2>7. ASSUME NEW i \in 1..(n + 1)
        PROVE  /\ up'[i].cl \in 1..(next - 1)
               /\ up'[i].id \in {0, Number(up'[i].cl)}
               /\ up'[i].kind = "order" => up'[i].cl > Len(venue) /\ up'[i].price = FirstPrice
               /\ up'[i].kind # "order" =>
                    \/ up'[i].cl <= Len(venue)
                    \/ \E j \in 1..(i - 1) : up'[j].kind = "order" /\ up'[j].cl = up'[i].cl
    <3>1. CASE i \in 1..n
      BY <1>5, <2>1, <2>2, <3>1
    <3>2. CASE i = n + 1
      <4>1. up'[i] = a /\ i - 1 = n
        BY <1>5, <3>2
      <4> QED
        BY <1>4, <2>5, <4>1
    <3> QED
      BY <2>0, <3>1, <3>2
  <2>8. ASSUME NEW i \in 1..(n + 1), NEW j \in 1..(n + 1),
               i < j, up'[i].kind = "order", up'[j].kind = "order"
        PROVE  up'[i].cl < up'[j].cl
    <3>1. i \in 1..n /\ j \in 1..n
      BY <1>4, <1>5, <2>0, <2>8
    <3> QED
      BY <1>5, <2>6, <2>8, <3>1
  <2> QED
    BY <1>5, <2>0, <2>4, <2>7, <2>8 DEF UpOK, Number
<1>8. SlotsOK' /\ VenueOK' /\ DownOK' /\ RecordsOK' /\ Kept'
  <2>1. Used' = Used
    BY <1>2 DEF Used
  <2>2. RecordsOK'
    BY <1>0, <1>2, <2>1 DEF RecordsOK, Right
  <2> QED
    BY <1>0, <1>2, <2>1, <2>2 DEF SlotsOK, VenueOK, DownOK, MessageOK, Kept
<1> QED
  BY <1>6, <1>7, <1>8 DEF IInv

LEMMA NewOrderStep ==
  ASSUME IInv, sdk_new_order
  PROVE  IInv'
<1>0. Types /\ SlotsOK /\ VenueOK /\ DownOK /\ UpOK /\ RecordsOK /\ Kept
  BY DEF IInv
<1>o. PICK o : o = [cl |-> next, id |-> 0, state |-> "PENDING", qty |-> Qty,
                    price |-> FirstPrice, filled |-> 0, canceled |-> 0]
  OBVIOUS
<1> DEFINE a == [kind |-> "order", cl |-> next, id |-> 0, price |-> FirstPrice, qty |-> Qty]
           n == Len(up)
<1>1. PICK s \in Slots : take_slot(s) /\ ord' = [ord EXCEPT ![s] = o]
  BY <1>o DEF sdk_new_order
<1>2. /\ up' = Append(up, a) /\ next' = next + 1 /\ UNCHANGED <<orphans, down, venue, changes>>
  BY DEF sdk_new_order
<1>3. next \in Nat \ {0} /\ Len(venue) \in Nat /\ Len(venue) < next
  BY <1>0 DEF Types, VenueOK
<1>4. o \in Records /\ a \in Requests /\ Untouched(o) /\ o.cl = next
  BY <1>o, <1>3, SizeAssumption DEF Records, Requests, Kinds, AllPrices, Untouched
<1>5. a.kind = "order" /\ a.cl = next /\ a.id = 0 /\ a.price = FirstPrice
  OBVIOUS
<1>6. o.id = 0 /\ o.state = "PENDING"
  BY <1>o
<1> HIDE DEF a
<1>7. /\ up' \in Seq(Requests) /\ n \in Nat /\ Len(up') = n + 1 /\ up'[n + 1] = a
      /\ \A i \in 1..n : up'[i] = up[i]
  BY <1>0, <1>2, <1>4, AppendFacts DEF Types
<1> HIDE DEF n
<1>8. /\ ord' \in [Slots -> Records \cup {NONE}]
      /\ ord'[s] = o /\ \A t \in Slots \ {s} : ord'[t] = ord[t]
  BY <1>0, <1>1, <1>4 DEF Types
<1>9. s \notin Used /\ Used' = Used \cup {s}
  BY <1>1, <1>6, <1>8 DEF take_slot, Used
<1>10. Types'
  BY <1>0, <1>2, <1>3, <1>7, <1>8 DEF Types
<1>11. SlotsOK'
  <2>1. \A t \in Used : ord'[t] = ord[t] /\ ord[t].cl \in 1..(next - 1)
                        /\ ord[t].id \in {0, Number(ord[t].cl)} /\ ord[t].cl # next
    BY <1>0, <1>3, <1>8, <1>9 DEF SlotsOK, Used
  <2>2. ASSUME NEW t \in Used'
        PROVE  ord'[t].cl \in 1..next /\ ord'[t].id \in {0, Number(ord'[t].cl)}
    <3>1. CASE t = s
      BY <1>3, <1>4, <1>6, <1>8, <3>1
    <3>2. CASE t # s
      BY <1>3, <1>9, <2>1, <3>2
    <3> QED
      BY <3>1, <3>2
  <2>3. ASSUME NEW t \in Used', NEW u \in Used', ord'[t].cl = ord'[u].cl
        PROVE  t = u
    BY <1>0, <1>4, <1>8, <1>9, <2>1, <2>3 DEF SlotsOK
  <2>4. next' - 1 = next
    BY <1>2, <1>3
  <2> QED
    BY <2>2, <2>3, <2>4 DEF SlotsOK, Number
<1>12. VenueOK' /\ DownOK'
  <2>1. VenueOK'
    BY <1>0, <1>2, <1>3 DEF VenueOK, Number
  <2>2. DownOK'
    BY <1>0, <1>2 DEF DownOK, MessageOK
  <2> QED
    BY <2>1, <2>2
<1>13. UpOK'
  <2>0. /\ venue' = venue /\ next' - 1 = next
        /\ \A i \in 1..(n + 1) : i \in 1..n \/ i = n + 1
    BY <1>2, <1>3, <1>7
  <2>1. ASSUME NEW i \in 1..n
        PROVE  /\ up[i].cl \in 1..(next - 1)
               /\ up[i].id \in {0, Number(up[i].cl)}
               /\ up[i].kind = "order" => up[i].cl > Len(venue) /\ up[i].price = FirstPrice
               /\ up[i].kind # "order" =>
                    \/ up[i].cl <= Len(venue)
                    \/ \E j \in 1..(i - 1) : up[j].kind = "order" /\ up[j].cl = up[i].cl
    BY <1>0 DEF UpOK, n
  <2>2. ASSUME NEW i \in 1..n, up[i].kind # "order"
        PROVE  \/ up[i].cl <= Len(venue)
               \/ \E j \in 1..(i - 1) : up'[j].kind = "order" /\ up'[j].cl = up[i].cl
    <3>1. \A j \in 1..(i - 1) : j \in 1..n
      BY <1>7
    <3> QED
      BY <1>7, <2>1, <2>2, <3>1
  <2>3. \A c \in (Len(venue) + 1)..(next - 1) :
          \E i \in 1..n : up[i].kind = "order" /\ up[i].cl = c
    BY <1>0 DEF UpOK, n
  <2>4. ASSUME NEW c \in (Len(venue) + 1)..next
        PROVE  \E i \in 1..(n + 1) : up'[i].kind = "order" /\ up'[i].cl = c
    <3>1. CASE c = next
      BY <1>5, <1>7, <3>1
    <3>2. CASE c # next
      <4>1. c \in (Len(venue) + 1)..(next - 1)
        BY <1>3, <3>2
      <4> QED
        BY <1>7, <2>3, <4>1
    <3> QED
      BY <3>1, <3>2
  <2>6. \A i, j \in 1..n :
          i < j /\ up[i].kind = "order" /\ up[j].kind = "order" => up[i].cl < up[j].cl
    BY <1>0 DEF UpOK, n
  <2>7. ASSUME NEW i \in 1..(n + 1)
        PROVE  /\ up'[i].cl \in 1..next
               /\ up'[i].id \in {0, Number(up'[i].cl)}
               /\ up'[i].kind = "order" => up'[i].cl > Len(venue) /\ up'[i].price = FirstPrice
               /\ up'[i].kind # "order" =>
                    \/ up'[i].cl <= Len(venue)
                    \/ \E j \in 1..(i - 1) : up'[j].kind = "order" /\ up'[j].cl = up'[i].cl
    <3>1. CASE i \in 1..n
      <4>1. up'[i] = up[i] /\ up[i].cl \in 1..next
        BY <1>3, <1>7, <2>1, <3>1
      <4> QED
        BY <2>1, <2>2, <3>1, <4>1
    <3>2. CASE i = n + 1
      BY <1>3, <1>5, <1>7, <3>2
    <3> QED
      BY <2>0, <3>1, <3>2
  <2>8. ASSUME NEW i \in 1..(n + 1), NEW j \in 1..(n + 1),
               i < j, up'[i].kind = "order", up'[j].kind = "order"
        PROVE  up'[i].cl < up'[j].cl
    <3>1. i \in 1..n
      BY <1>7, <2>8
    <3>2. CASE j \in 1..n
      BY <1>7, <2>6, <2>8, <3>1, <3>2
    <3>3. CASE j = n + 1
      <4>1. up'[i].cl \in 1..(next - 1) /\ up'[j].cl = next
        BY <1>5, <1>7, <2>1, <3>1, <3>3
      <4> QED
        BY <1>3, <4>1
    <3> QED
      BY <2>0, <3>2, <3>3
  <2> QED
    BY <1>7, <2>0, <2>4, <2>7, <2>8 DEF UpOK, Number
<1>14. RecordsOK'
  <2>1. ASSUME NEW t \in Used
        PROVE  \E r : Leads(ord'[t], down', r) /\ Right(r, ord[t].cl)'
    <3>1. ord'[t] = ord[t]
      BY <1>8, <1>9 DEF Used
    <3>2. PICK r : Leads(ord[t], down, r) /\ Right(r, ord[t].cl)
      BY <1>0 DEF RecordsOK
    <3> QED
      BY <1>2, <3>1, <3>2 DEF Right
  <2>2. Leads(o, down, o)
    <3>1. ASSUME NEW i \in 1..Len(down) PROVE ~Concerns(o, down[i])
      <4>1. down[i] \in Messages /\ MessageOK(down[i])
        BY <1>0 DEF Types, DownOK
      <4>2. PICK d \in 1..Len(venue) : down[i].cl \in {0, d} /\ down[i].id \in {0, Number(d)}
        BY <1>0, <4>1, AboutWhich
      <4> QED
        BY <1>3, <1>4, <1>6, <4>1, <4>2, NotAbout
    <3> QED
      BY <1>0, <1>4, <3>1, LeadsToItself DEF Types
  <2>4. ASSUME NEW t \in Used'
        PROVE  \E r : Leads(ord'[t], down', r) /\ Right(r, ord[t].cl)'
    <3>1. CASE t = s
      <4>1. Leads(ord'[t], down', o)
        BY <1>2, <1>8, <2>2, <3>1
      <4>2. Right(o, ord[t].cl)'
        BY <1>2, <1>3, <1>4, <1>8, <3>1 DEF Right
      <4> QED
        BY <4>1, <4>2
    <3>2. CASE t # s
      BY <1>9, <2>1, <3>2
    <3> QED
      BY <3>1, <3>2
  <2> QED
    BY <2>4 DEF RecordsOK
<1>15. Kept'
  <2>1. ASSUME NEW c \in 1..next
        PROVE  (\E t \in Used' : ord'[t].cl = c) \/ (c <= Len(venue) /\ Over(venue[c]))
    <3>1. CASE c = next
      BY <1>4, <1>8, <1>9, <3>1
    <3>2. CASE c # next
      <4>1. c \in 1..(next - 1)
        BY <1>3, <3>2
      <4>2. \A t \in Used : ord'[t] = ord[t] /\ t \in Used'
        BY <1>8, <1>9 DEF Used
      <4> QED
        BY <1>0, <4>1, <4>2 DEF Kept
    <3> QED
      BY <3>1, <3>2
  <2>2. next' - 1 = next /\ venue' = venue
    BY <1>2, <1>3
  <2> QED
    BY <2>1, <2>2 DEF Kept
<1> QED
  BY <1>10, <1>11, <1>12, <1>13, <1>14, <1>15 DEF IInv

LEMMA ReapStep ==
  ASSUME IInv, sdk_reap_done
  PROVE  IInv'
<1>0. Types /\ SlotsOK /\ VenueOK /\ DownOK /\ UpOK /\ RecordsOK /\ Kept
  BY DEF IInv
<1>1. /\ ord' = [s \in Slots |-> IF ord[s].state = "DONE" THEN NONE ELSE ord[s]]
      /\ UNCHANGED <<next, orphans, up, down, venue, changes>>
  BY DEF sdk_reap_done
<1>2. ord' \in [Slots -> Records \cup {NONE}]
  BY <1>0, <1>1 DEF Types
<1>3. /\ Used' = {s \in Used : ord[s].state # "DONE"}
      /\ \A s \in Used' : ord'[s] = ord[s]
  <2>1. NONE.state = "NONE"
    BY DEF NONE
  <2> QED
    BY <1>1, <2>1 DEF Used
<1>4. Types'
  BY <1>0, <1>1, <1>2 DEF Types
<1>5. SlotsOK' /\ VenueOK' /\ DownOK' /\ UpOK'
  <2>1. SlotsOK'
    BY <1>0, <1>1, <1>3 DEF SlotsOK, Number
  <2> QED
    BY <1>0, <1>1, <2>1 DEF VenueOK, DownOK, MessageOK, UpOK
<1>6. RecordsOK'
  <2> SUFFICES ASSUME NEW s \in Used'
               PROVE  \E r : Leads(ord'[s], down', r) /\ Right(r, ord[s].cl)'
    BY DEF RecordsOK
  <2>1. s \in Used /\ ord'[s] = ord[s]
    BY <1>3
  <2>2. PICK r : Leads(ord[s], down, r) /\ Right(r, ord[s].cl)
    BY <1>0, <2>1 DEF RecordsOK
  <2> QED
    BY <1>1, <2>1, <2>2 DEF Right
<1>7. Kept'
  <2>1. ASSUME NEW c \in 1..(next - 1)
        PROVE  (\E s \in Used' : ord'[s].cl = c) \/ (c <= Len(venue) /\ Over(venue[c]))
    <3>1. CASE \E s \in Used : ord[s].cl = c /\ ord[s].state # "DONE"
      BY <1>3, <3>1
    <3>2. CASE \E s \in Used : ord[s].cl = c /\ ord[s].state = "DONE"
      <4>1. PICK s \in Used : ord[s].cl = c /\ ord[s].state = "DONE"
        BY <3>2
      <4>2. PICK r : Leads(ord[s], down, r) /\ Right(r, c)
        BY <1>0, <4>1 DEF RecordsOK
      <4>3. r \in Records /\ r.state = "DONE"
        BY <1>0, <4>1, <4>2, LeadsDone DEF Types
      <4>4. c <= Len(venue) /\ (Accepts(r, venue[c]) \/ Refuses(r, venue[c]))
        BY <1>0, <4>2, <4>3 DEF Right, Untouched, Types
      <4>5. venue[c] \in VOrders
        BY <1>0, <4>4 DEF Types
      <4> QED
        BY <4>3, <4>4, <4>5, SizeAssumption DEF Accepts, Refuses, Over, Records, VOrders
    <3>3. CASE ~\E s \in Used : ord[s].cl = c
      BY <1>0, <3>3 DEF Kept
    <3> QED
      BY <3>1, <3>2, <3>3
  <2> QED
    BY <1>1, <2>1 DEF Kept
<1> QED
  BY <1>4, <1>5, <1>6, <1>7 DEF IInv

-----------------------------------------------------------------------------
(* The venue acts.                                                          *)

LEMMA RightId ==
  ASSUME Types, VenueOK, NEW r, NEW c \in 1..(next - 1), Right(r, c)
  PROVE  r.cl = c /\ c \in Nat \ {0} /\ r.id \in {0, Number(c)}
BY DEF Types, VenueOK, Right, Untouched, Accepts, Refuses

\* The venue's orders other than the d-th stay as they are.
OnlyChanges(d) ==
  \A c \in 1..(next - 1) : c # d =>
    /\ c <= Len(venue') <=> c <= Len(venue)
    /\ c <= Len(venue) => venue'[c] = venue[c]

LEMMA OthersStay ==
  ASSUME Types, VenueOK, NEW d \in Nat \ {0}, OnlyChanges(d), Len(venue') \in Nat,
         NEW m \in Messages, m.cl \in {0, d}, m.id \in {0, Number(d)},
         NEW r \in Records, NEW c \in 1..(next - 1), c # d, Right(r, c)
  PROVE  After(r, m) = r /\ Right(r, c)'
<1>1. After(r, m) = r
  BY RightId, NotAbout
<1>2. Len(venue) \in Nat /\ c \in Nat
  BY DEF Types
<1>3. Right(r, c)'
  <2>1. CASE c <= Len(venue)
    <3>1. c <= Len(venue') /\ venue'[c] = venue[c]
      BY <2>1 DEF OnlyChanges
    <3> QED
      BY <1>2, <2>1, <3>1 DEF Right
  <2>2. CASE ~(c <= Len(venue))
    <3>1. ~(c <= Len(venue'))
      BY <2>2 DEF OnlyChanges
    <3> QED
      BY <1>2, <2>2, <3>1 DEF Right
  <2> QED
    BY <2>1, <2>2
<1> QED
  BY <1>1, <1>3

LEMMA OneSaid ==
  ASSUME Types, SlotsOK, RecordsOK, ord' = ord, NEW m \in Messages, Carries(m),
         down' = Append(down, m),
         \A r \in Records, c \in 1..(next - 1) : \A x :
           Right(r, c) /\ x = After(r, m) => Right(x, c)'
  PROVE  RecordsOK'
<1> SUFFICES ASSUME NEW s \in Used
             PROVE  \E r : Leads(ord'[s], down', r) /\ Right(r, ord[s].cl)'
  BY DEF RecordsOK, Used
<1>1. PICK r : Leads(ord[s], down, r) /\ Right(r, ord[s].cl)
  BY DEF RecordsOK
<1>2. PICK c : c = ord[s].cl
  OBVIOUS
<1>3. c \in 1..(next - 1) /\ r \in Records
  BY <1>1, <1>2, LeadsDone DEF SlotsOK, Types
<1>4. PICK x : x = After(r, m)
  OBVIOUS
<1>5. Right(x, c)'
  BY <1>1, <1>2, <1>3, <1>4
<1>6. Leads(ord[s], Append(down, m), x)
  BY <1>1, <1>4, LeadsAppend DEF Types
<1>7. ord'[s].cl = c
  BY <1>2
<1>8. Right(x, ord[s].cl)'
  BY <1>5, <1>7 DEF Right
<1> QED
  BY <1>6, <1>8

LEMMA TwoSaid ==
  ASSUME Types, SlotsOK, RecordsOK, ord' = ord,
         NEW m \in Messages, Carries(m), NEW n \in Messages, Carries(n),
         down' = down \o <<m, n>>,
         \A r \in Records, c \in 1..(next - 1) : \A x :
           Right(r, c) /\ x = After(After(r, m), n) => Right(x, c)'
  PROVE  RecordsOK'
<1> SUFFICES ASSUME NEW s \in Used
             PROVE  \E r : Leads(ord'[s], down', r) /\ Right(r, ord[s].cl)'
  BY DEF RecordsOK, Used
<1>1. PICK r : Leads(ord[s], down, r) /\ Right(r, ord[s].cl)
  BY DEF RecordsOK
<1>2. PICK c : c = ord[s].cl
  OBVIOUS
<1>3. c \in 1..(next - 1) /\ r \in Records
  BY <1>1, <1>2, LeadsDone DEF SlotsOK, Types
<1>4. PICK x : x = After(After(r, m), n)
  OBVIOUS
<1>5. Right(x, c)'
  BY <1>1, <1>2, <1>3, <1>4
<1>6. Leads(ord[s], down', x)
  <2>1. Leads(ord[s], Append(down, m), After(r, m)) /\ Append(down, m) \in Seq(Messages)
    BY <1>1, LeadsAppend DEF Types
  <2>2. Leads(ord[s], Append(Append(down, m), n), x)
    BY <1>4, <2>1, LeadsAppend
  <2>3. down' = Append(Append(down, m), n)
    BY DEF Types
  <2> QED
    BY <2>2, <2>3
<1>7. ord'[s].cl = c
  BY <1>2
<1>8. Right(x, ord[s].cl)'
  BY <1>5, <1>7 DEF Right
<1> QED
  BY <1>6, <1>8

\* The messages already under way are about orders the venue still has.
LEMMA MessagesStay ==
  ASSUME Types, Len(venue') \in Nat, Len(venue) <= Len(venue'),
         NEW m \in Messages, MessageOK(m)
  PROVE  MessageOK(m)'
<1>1. 1..Len(venue) \subseteq 1..Len(venue')
  BY DEF Types
<1>2. CASE m.cl \in 1..Len(venue) /\ m.id \in {0, Number(m.cl)}
  BY <1>1, <1>2 DEF MessageOK, Number
<1>3. CASE \E c \in 1..Len(venue) : m.cl = 0 /\ m.kind # "order" /\ m.id = Number(c)
  BY <1>1, <1>3 DEF MessageOK, Number
<1> QED
  BY <1>2, <1>3 DEF MessageOK

LEMMA DownGrows ==
  ASSUME Types, DownOK, Len(venue') \in Nat, Len(venue) <= Len(venue'),
         NEW m \in Messages, MessageOK(m)', down' = Append(down, m)
  PROVE  down' \in Seq(Messages) /\ DownOK'
<1>1. /\ down' \in Seq(Messages) /\ Len(down) \in Nat /\ Len(down') = Len(down) + 1
      /\ down'[Len(down) + 1] = m /\ \A i \in 1..Len(down) : down'[i] = down[i]
  BY AppendFacts DEF Types
<1>2. \A i \in 1..Len(down) : down[i] \in Messages /\ MessageOK(down[i])
  BY DEF Types, DownOK
<1>3. ASSUME NEW i \in 1..Len(down') PROVE MessageOK(down[i])'
  <2>1. PICK a : a = down'[i]
    OBVIOUS
  <2>2. MessageOK(a)'
    <3>1. CASE i = Len(down) + 1
      BY <1>1, <2>1, <3>1
    <3>2. CASE i # Len(down) + 1
      <4>1. i \in 1..Len(down)
        BY <1>1, <3>2
      <4>2. a \in Messages /\ MessageOK(a)
        BY <1>1, <1>2, <2>1, <4>1
      <4> QED
        BY <4>2, MessagesStay
    <3> QED
      BY <3>1, <3>2
  <2> QED
    BY <2>1, <2>2 DEF MessageOK
<1> QED
  BY <1>1, <1>3 DEF DownOK

LEMMA DownGrowsTwice ==
  ASSUME Types, DownOK, Len(venue') \in Nat, Len(venue) <= Len(venue'),
         NEW m \in Messages, MessageOK(m)', NEW n \in Messages, MessageOK(n)',
         down' = down \o <<m, n>>
  PROVE  down' \in Seq(Messages) /\ DownOK'
<1>1. /\ down' \in Seq(Messages) /\ Len(down) \in Nat /\ Len(down') = Len(down) + 2
      /\ down'[Len(down) + 1] = m /\ down'[Len(down) + 2] = n
      /\ \A i \in 1..Len(down) : down'[i] = down[i]
  BY DEF Types
<1>2. \A i \in 1..Len(down) : down[i] \in Messages /\ MessageOK(down[i])
  BY DEF Types, DownOK
<1>3. ASSUME NEW i \in 1..Len(down') PROVE MessageOK(down[i])'
  <2>1. PICK a : a = down'[i]
    OBVIOUS
  <2>2. MessageOK(a)'
    <3>1. CASE i = Len(down) + 1
      BY <1>1, <2>1, <3>1
    <3>2. CASE i = Len(down) + 2
      BY <1>1, <2>1, <3>2
    <3>3. CASE i # Len(down) + 1 /\ i # Len(down) + 2
      <4>1. i \in 1..Len(down)
        BY <1>1, <3>3
      <4>2. a \in Messages /\ MessageOK(a)
        BY <1>1, <1>2, <2>1, <4>1
      <4> QED
        BY <4>2, MessagesStay
    <3> QED
      BY <3>1, <3>2, <3>3
  <2> QED
    BY <2>1, <2>2 DEF MessageOK
<1> QED
  BY <1>1, <1>3 DEF DownOK

LEMMA KeptStays ==
  ASSUME Types, Kept, ord' = ord, next' = next,
         Len(venue') \in Nat, Len(venue) <= Len(venue'),
         \A c \in 1..Len(venue) : Over(venue[c]) => Over(venue'[c])
  PROVE  Kept'
<1>1. ASSUME NEW c \in 1..(next - 1)
      PROVE  (\E s \in Used : ord[s].cl = c) \/ (c <= Len(venue') /\ Over(venue'[c]))
  <2>1. CASE \E s \in Used : ord[s].cl = c
    BY <2>1
  <2>2. CASE c <= Len(venue) /\ Over(venue[c])
    BY <2>2 DEF Types
  <2> QED
    BY <2>1, <2>2 DEF Kept
<1> QED
  BY <1>1 DEF Kept, Used

\* The venue reads a request: what is left is as before, one order shorter if it was one.
LEMMA OrdersAreInTurn ==
  ASSUME Types, UpOK, Asked("order")
  PROVE  /\ Head(up).cl = Len(venue) + 1 /\ Head(up).price = FirstPrice
         /\ Len(venue) + 1 \in 1..(next - 1)
<1>1. /\ up \in Seq(Requests) /\ up # <<>> /\ Head(up) = up[1] /\ 1 \in 1..Len(up)
      /\ Len(up) \in Nat /\ Len(venue) \in Nat /\ next \in Nat
  BY TailFacts DEF Asked, Types
<1>2. up[1].kind = "order"
  BY <1>1 DEF Asked
<1>3. /\ up[1].cl \in 1..(next - 1) /\ up[1].cl > Len(venue) /\ up[1].price = FirstPrice
  BY <1>1, <1>2 DEF UpOK
<1>4. Len(venue) + 1 \in (Len(venue) + 1)..(next - 1)
  BY <1>1, <1>3
<1>5. PICK i \in 1..Len(up) : up[i].kind = "order" /\ up[i].cl = Len(venue) + 1
  BY <1>4 DEF UpOK
<1>6. i = 1 \/ up[1].cl < up[i].cl
  <2>1. \A j \in 1..Len(up) :
          1 < j /\ up[1].kind = "order" /\ up[j].kind = "order" => up[1].cl < up[j].cl
    BY <1>1 DEF UpOK
  <2>2. i = 1 \/ 1 < i
    BY <1>1, <1>5
  <2> QED
    BY <1>2, <1>5, <2>1, <2>2
<1> QED
  BY <1>1, <1>3, <1>4, <1>5, <1>6

LEMMA ChangesAreKnown ==
  ASSUME Types, UpOK, Asked("cancel") \/ Asked("modify")
  PROVE  /\ Head(up).cl \in 1..Len(venue) /\ Head(up).id \in {0, Number(Head(up).cl)}
         /\ Head(up).kind \in {"cancel", "modify"} /\ Head(up) \in Requests
<1>1. /\ up \in Seq(Requests) /\ up # <<>> /\ Head(up) = up[1] /\ 1 \in 1..Len(up)
      /\ up[1] \in Requests /\ Len(venue) \in Nat
  BY TailFacts DEF Asked, Types
<1>2. up[1].kind \in {"cancel", "modify"}
  BY <1>1 DEF Asked
<1>3. /\ up[1].cl \in 1..(next - 1) /\ up[1].id \in {0, Number(up[1].cl)}
      /\ \/ up[1].cl <= Len(venue)
         \/ \E j \in 1..(1 - 1) : up[j].kind = "order" /\ up[j].cl = up[1].cl
  BY <1>1, <1>2 DEF UpOK
<1> QED
  BY <1>1, <1>2, <1>3

LEMMA RequestRead ==
  ASSUME Types, UpOK, up # <<>>, up' = Tail(up), next' = next,
         \/ Head(up).kind # "order" /\ Len(venue') = Len(venue)
         \/ Head(up).kind = "order" /\ Head(up).cl = Len(venue) + 1 /\ Len(venue') = Len(venue) + 1
  PROVE  up' \in Seq(Requests) /\ UpOK'
<1> DEFINE n == Len(up) - 1
           l == Len(venue')
<1>1. /\ up' \in Seq(Requests) /\ Len(up') = n /\ n \in Nat /\ Head(up) = up[1]
      /\ \A i \in 1..n : up'[i] = up[i + 1] /\ i + 1 \in 1..Len(up)
      /\ Len(up) = n + 1 /\ 1 \in 1..Len(up)
  BY TailFacts DEF Types
<1>2. Len(venue) \in Nat /\ l \in Nat /\ Len(venue) <= l /\ next \in Nat
  BY DEF Types
<1>3. /\ l = Len(venue) \/ l = Len(venue) + 1
      /\ up[1].kind = "order" => up[1].cl = l /\ l = Len(venue) + 1
      /\ up[1].kind # "order" => l = Len(venue)
  BY <1>1, <1>2
<1> HIDE DEF n, l
<1>4. ASSUME NEW i \in 1..n
      PROVE  /\ up'[i].cl \in 1..(next - 1)
             /\ up'[i].id \in {0, Number(up'[i].cl)}
             /\ up'[i].kind = "order" => up'[i].cl > l /\ up'[i].price = FirstPrice
             /\ up'[i].kind # "order" =>
                  \/ up'[i].cl <= l
                  \/ \E j \in 1..(i - 1) : up'[j].kind = "order" /\ up'[j].cl = up'[i].cl
  <2>1. /\ up'[i] = up[i + 1] /\ i + 1 \in 1..Len(up)
        /\ up[i + 1].cl \in 1..(next - 1) /\ up[i + 1].id \in {0, Number(up[i + 1].cl)}
        /\ up[i + 1].kind = "order" => up[i + 1].cl > Len(venue) /\ up[i + 1].price = FirstPrice
    BY <1>1 DEF UpOK
  <2>2. ASSUME up[i + 1].kind = "order" PROVE up[i + 1].cl > l
    <3>1. CASE up[1].kind = "order"
      <4>1. up[1].cl < up[i + 1].cl
        BY <1>1, <2>1, <2>2, <3>1 DEF UpOK
      <4> QED
        BY <1>2, <1>3, <2>1, <3>1, <4>1
    <3>2. CASE up[1].kind # "order"
      BY <1>3, <2>1, <2>2, <3>2
    <3> QED
      BY <3>1, <3>2
  <2>3. ASSUME up[i + 1].kind # "order"
        PROVE  \/ up[i + 1].cl <= l
               \/ \E j \in 1..(i - 1) : up'[j].kind = "order" /\ up'[j].cl = up[i + 1].cl
    <3>1. \/ up[i + 1].cl <= Len(venue)
          \/ \E j \in 1..((i + 1) - 1) : up[j].kind = "order" /\ up[j].cl = up[i + 1].cl
      BY <1>1, <2>1, <2>3 DEF UpOK
    <3>2. CASE up[i + 1].cl <= Len(venue)
      BY <1>2, <2>1, <3>2
    <3>3. CASE \E j \in 1..((i + 1) - 1) : up[j].kind = "order" /\ up[j].cl = up[i + 1].cl
      <4>1. PICK j \in 1..i : up[j].kind = "order" /\ up[j].cl = up[i + 1].cl
        BY <3>3
      <4>2. CASE j = 1
        BY <1>2, <1>3, <2>1, <4>1, <4>2
      <4>3. CASE j # 1
        <5>1. j - 1 \in 1..(i - 1) /\ j - 1 \in 1..n /\ (j - 1) + 1 = j
          BY <1>1, <4>1, <4>3
        <5>2. up'[j - 1] = up[j]
          BY <1>1, <5>1
        <5> QED
          BY <4>1, <5>1, <5>2
      <4> QED
        BY <4>2, <4>3
    <3> QED
      BY <3>1, <3>2, <3>3
  <2> QED
    BY <2>1, <2>2, <2>3
<1>5. ASSUME NEW i \in 1..n, NEW j \in 1..n,
             i < j, up'[i].kind = "order", up'[j].kind = "order"
      PROVE  up'[i].cl < up'[j].cl
  <2>1. /\ up'[i] = up[i + 1] /\ i + 1 \in 1..Len(up) /\ up'[j] = up[j + 1]
        /\ j + 1 \in 1..Len(up) /\ i + 1 < j + 1
    BY <1>1, <1>5
  <2> QED
    BY <1>5, <2>1 DEF UpOK
<1>6. ASSUME NEW c \in (l + 1)..(next - 1)
      PROVE  \E i \in 1..n : up'[i].kind = "order" /\ up'[i].cl = c
  <2>1. c \in (Len(venue) + 1)..(next - 1)
    BY <1>2
  <2>2. PICK i \in 1..Len(up) : up[i].kind = "order" /\ up[i].cl = c
    BY <2>1 DEF UpOK
  <2>3. i # 1
    BY <1>2, <1>3, <2>2
  <2>4. i - 1 \in 1..n /\ (i - 1) + 1 = i
    BY <1>1, <2>2, <2>3
  <2>5. up'[i - 1] = up[i]
    BY <1>1, <2>4
  <2> QED
    BY <2>2, <2>4, <2>5
<1>7. UpOK'
  BY <1>1, <1>4, <1>5, <1>6 DEF UpOK, l, n, Number
<1> QED
  BY <1>1, <1>7

-----------------------------------------------------------------------------
\* An order that has just reached the venue: what the venue keeps, and what it says.
NewOrder(c, k, over) ==
  [id |-> Number(c), price |-> FirstPrice, qty |-> Qty, traded |-> k,
   canceled |-> over, twice |-> FALSE]
Doubled(c, k) ==
  [id |-> Number(c), price |-> FirstPrice, qty |-> Qty, traded |-> k,
   canceled |-> 0, twice |-> TRUE]
No(c)      == Say("order", c, 0, FALSE, 0)
Ack(c, k)  == Say("order", c, Number(c), TRUE, k)
Fill(c, k) == Say("fill", c, Number(c), TRUE, k)

LEMMA OnOrderIs ==
  ASSUME Types, VenueOK, UpOK, on_order, NEW c, c = Len(venue) + 1
  PROVE  /\ Asked("order") /\ up' = Tail(up) /\ UNCHANGED <<ord, next, orphans, changes>>
         /\ c \in 1..(next - 1)
         /\ \/ venue' = Append(venue, NewOrder(c, 0, Qty)) /\ down' = Append(down, No(c))
            \/ venue' = Append(venue, NewOrder(c, 0, 0)) /\ down' = Append(down, Ack(c, 0))
            \/ \E k \in 1..Qty :
                 /\ venue' = Append(venue, Doubled(c, k))
                 /\ down' = down \o <<Ack(c, k), Fill(c, k)>>
            \/ \E k \in 1..Qty :
                 /\ venue' = Append(venue, NewOrder(c, k, 0))
                 /\ \/ down' = down \o <<Ack(c, 0), Fill(c, k)>>
                    \/ down' = down \o <<Fill(c, k), Ack(c, k)>>
<1>1. Asked("order") /\ up' = Tail(up) /\ UNCHANGED <<ord, next, orphans, changes>>
  BY DEF on_order
<1>2. Head(up).cl = c /\ Head(up).price = FirstPrice /\ c \in 1..(next - 1)
  BY <1>1, OrdersAreInTurn
<1>3. \/ /\ venue' = Append(venue, NewOrder(c, 0, Qty))
         /\ down' = Append(down, No(c))
      \/ venue' = Append(venue, NewOrder(c, 0, 0)) /\ down' = Append(down, Ack(c, 0))
      \/ \E k \in 1..Qty, twice \in BOOLEAN :
           /\ venue' = Append(venue, [id |-> Number(c), price |-> FirstPrice, qty |-> Qty,
                                      traded |-> k, canceled |-> 0, twice |-> twice])
           /\ down' \in IF twice THEN {down \o <<Ack(c, k), Fill(c, k)>>}
                        ELSE {down \o <<Ack(c, 0), Fill(c, k)>>, down \o <<Fill(c, k), Ack(c, k)>>}
  BY <1>2 DEF on_order, No, Ack, Fill, Number, NewOrder
<1>5. ASSUME NEW k \in 1..Qty, NEW twice \in BOOLEAN,
             venue' = Append(venue, [id |-> Number(c), price |-> FirstPrice, qty |-> Qty,
                                     traded |-> k, canceled |-> 0, twice |-> twice]),
             down' \in IF twice THEN {down \o <<Ack(c, k), Fill(c, k)>>}
                       ELSE {down \o <<Ack(c, 0), Fill(c, k)>>, down \o <<Fill(c, k), Ack(c, k)>>}
      PROVE  \/ /\ venue' = Append(venue, Doubled(c, k))
                /\ down' = down \o <<Ack(c, k), Fill(c, k)>>
             \/ /\ venue' = Append(venue, NewOrder(c, k, 0))
                /\ \/ down' = down \o <<Ack(c, 0), Fill(c, k)>>
                   \/ down' = down \o <<Fill(c, k), Ack(c, k)>>
  <2>2. CASE twice = TRUE
    BY <1>5, <2>2 DEF Doubled
  <2>3. CASE twice = FALSE
    BY <1>5, <2>3 DEF NewOrder
  <2> QED
    BY <2>2, <2>3
<1> QED
  BY <1>1, <1>2, <1>3, <1>5

\* What the record of a new order becomes.
LEMMA FirstAnswers ==
  ASSUME NEW r \in Records, NEW c \in Nat \ {0}, Untouched(r), r.cl = c
  PROVE  /\ Refuses(After(r, No(c)), NewOrder(c, 0, Qty)) /\ After(r, No(c)).cl = c
         /\ Accepts(After(r, Ack(c, 0)), NewOrder(c, 0, 0)) /\ After(r, Ack(c, 0)).cl = c
         /\ \A k \in 1..Qty :
              /\ Accepts(After(After(r, Ack(c, k)), Fill(c, k)), Doubled(c, k))
              /\ After(After(r, Ack(c, k)), Fill(c, k)).cl = c
              /\ Accepts(After(After(r, Ack(c, 0)), Fill(c, k)), NewOrder(c, k, 0))
              /\ After(After(r, Ack(c, 0)), Fill(c, k)).cl = c
              /\ Accepts(After(After(r, Fill(c, k)), Ack(c, k)), NewOrder(c, k, 0))
              /\ After(After(r, Fill(c, k)), Ack(c, k)).cl = c
<1>0. Number(c) \in Nat \ {0} /\ Qty \in Nat \ {0}
  BY BoundAssumption, SizeAssumption DEF Number
<1>1. /\ No(c) \in Messages /\ No(c).kind = "order" /\ No(c).cl = c /\ No(c).id = 0 /\ ~No(c).ok
      /\ No(c).n = 0
  <2>1. ~No(c).ok
    BY Zenon DEF No, Say
  <2> QED
    BY <2>1 DEF No, Say, Messages, Kinds
<1>2. ASSUME NEW k \in Nat
      PROVE  /\ Ack(c, k) \in Messages /\ Ack(c, k).kind = "order" /\ Ack(c, k).cl = c
             /\ Ack(c, k).id = Number(c) /\ Ack(c, k).ok /\ Ack(c, k).n = k
             /\ Fill(c, k) \in Messages /\ Fill(c, k).kind = "fill" /\ Fill(c, k).cl = c
             /\ Fill(c, k).id = Number(c) /\ Fill(c, k).n = k
  <2>1. Ack(c, k).ok /\ Fill(c, k).ok
    BY Zenon DEF Ack, Fill, Say
  <2> QED
    BY <1>0, <2>1 DEF Ack, Fill, Say, Messages, Kinds
<1>3. ASSUME NEW k
      PROVE  /\ ~NewOrder(c, k, 0).twice /\ Doubled(c, k).twice
             /\ NewOrder(c, k, Qty).id = Number(c)
             /\ NewOrder(c, k, Qty).price = FirstPrice
             /\ NewOrder(c, k, Qty).qty = Qty
             /\ NewOrder(c, k, Qty).traded = k
             /\ NewOrder(c, k, Qty).canceled = Qty
             /\ NewOrder(c, k, 0).id = Number(c)
             /\ NewOrder(c, k, 0).price = FirstPrice
             /\ NewOrder(c, k, 0).qty = Qty
             /\ NewOrder(c, k, 0).traded = k
             /\ NewOrder(c, k, 0).canceled = 0
             /\ Doubled(c, k).id = Number(c)
             /\ Doubled(c, k).price = FirstPrice
             /\ Doubled(c, k).qty = Qty
             /\ Doubled(c, k).traded = k
             /\ Doubled(c, k).canceled = 0
  <2>1. ~NewOrder(c, k, 0).twice /\ Doubled(c, k).twice
    BY Zenon DEF NewOrder, Doubled
  <2> QED
    BY <2>1 DEF NewOrder, Doubled
<1>4. /\ r.state = "PENDING" /\ r.id = 0 /\ r.filled = 0 /\ r.canceled = 0
      /\ r.price = FirstPrice
  BY DEF Untouched
<1>5. Refuses(After(r, No(c)), NewOrder(c, 0, Qty)) /\ After(r, No(c)).cl = c
  <2>1. After(r, No(c)) = Answered(r, No(c))
    BY <1>1 DEF After, Concerns
  <2>2. Is(After(r, No(c)), c, 0, "DONE", FirstPrice, 0, 0)
    BY <1>1, <1>4, <2>1, AnsweredIs DEF Carries
  <2> QED
    BY <1>3, <2>2 DEF Refuses, Is
<1>6. ASSUME NEW k \in 0..Qty
      PROVE  Is(After(r, Ack(c, k)), c, Number(c), Settled("LIVE", k, 0), FirstPrice, k, 0)
  <2>0. k \in Nat /\ Larger(k, 0) = k
    BY <1>0 DEF Larger
  <2>1. After(r, Ack(c, k)) = Answered(r, Ack(c, k))
    BY <1>2, <2>0 DEF After, Concerns
  <2> QED
    BY <1>2, <1>4, <2>0, <2>1, AnsweredIs DEF Carries, Up
<1>7. Accepts(After(r, Ack(c, 0)), NewOrder(c, 0, 0)) /\ After(r, Ack(c, 0)).cl = c
  <2>1. Is(After(r, Ack(c, 0)), c, Number(c), Settled("LIVE", 0, 0), FirstPrice, 0, 0)
    BY <1>0, <1>6
  <2> QED
    <3>1. PICK v : v = NewOrder(c, 0, 0)
      OBVIOUS
    <3>2. v.id = Number(c) /\ v.price = FirstPrice /\ v.traded = 0 /\ v.canceled = 0
      BY <1>3, <3>1
    <3>3. Accepts(After(r, Ack(c, 0)), v) /\ After(r, Ack(c, 0)).cl = c
      BY <1>0, <2>1, <3>2 DEF Accepts, Is, Settled
    <3> QED
      BY <3>1, <3>3
<1>8. ASSUME NEW o \in Records, NEW k \in 1..Qty, o.cl = c
      PROVE  Is(After(o, Fill(c, k)), c, o.id, Settled(Up(o.state), o.filled + k, o.canceled),
                o.price, o.filled + k, o.canceled)
  <2>0. k \in Nat
    BY <1>0
  <2>1. After(o, Fill(c, k)) = Filled(o, Fill(c, k))
    BY <1>2, <1>8, <2>0 DEF After, Concerns
  <2> QED
    BY <1>2, <1>8, <2>0, <2>1, FilledIs DEF Carries
<1>9. ASSUME NEW k \in 1..Qty
      PROVE  /\ Accepts(After(After(r, Ack(c, k)), Fill(c, k)), Doubled(c, k))
             /\ After(After(r, Ack(c, k)), Fill(c, k)).cl = c
  <2>0. k \in Nat /\ k \in 0..Qty
    BY <1>0
  <2> DEFINE o == After(r, Ack(c, k))
  <2>1. Is(o, c, Number(c), Settled("LIVE", k, 0), FirstPrice, k, 0)
    BY <1>6, <2>0
  <2> HIDE DEF o
  <2>2. o \in Records /\ o.cl = c /\ o.id = Number(c) /\ o.filled = k /\ o.canceled = 0
        /\ o.price = FirstPrice
    BY <2>1 DEF Is
  <2>3. Is(After(o, Fill(c, k)), c, Number(c), Settled(Up(o.state), k + k, 0), FirstPrice, k + k, 0)
    BY <1>8, <2>2
  <2>4. Up(o.state) # "PENDING" /\ (Up(o.state) = "DONE" => k >= Qty)
    BY <1>0, <2>0, <2>1 DEF Is, Settled, Up
  <2>5. Accepts(After(o, Fill(c, k)), Doubled(c, k)) /\ After(o, Fill(c, k)).cl = c
    <3>1. PICK v : v = Doubled(c, k)
      OBVIOUS
    <3>2. /\ v.id = Number(c) /\ v.price = FirstPrice /\ v.traded = k /\ v.canceled = 0
          /\ v.twice
      BY <1>3, <3>1
    <3>3. Accepts(After(o, Fill(c, k)), v)
      BY <1>0, <2>0, <2>3, <2>4, <3>2 DEF Accepts, Is, Settled
    <3> QED
      BY <2>0, <2>3, <2>4, <3>1, <3>3 DEF Is
  <2> QED
    BY <2>5 DEF o
<1>10. ASSUME NEW k \in 1..Qty
       PROVE  /\ Accepts(After(After(r, Ack(c, 0)), Fill(c, k)), NewOrder(c, k, 0))
              /\ After(After(r, Ack(c, 0)), Fill(c, k)).cl = c
  <2>0. k \in Nat /\ 0 \in 0..Qty
    BY <1>0
  <2> DEFINE o == After(r, Ack(c, 0))
  <2>1. Is(o, c, Number(c), Settled("LIVE", 0, 0), FirstPrice, 0, 0)
    BY <1>6, <2>0
  <2> HIDE DEF o
  <2>2. o \in Records /\ o.cl = c /\ o.id = Number(c) /\ o.filled = 0 /\ o.canceled = 0
        /\ o.price = FirstPrice /\ 0 + k = k
    BY <2>0, <2>1 DEF Is
  <2>3. Is(After(o, Fill(c, k)), c, Number(c), Settled(Up(o.state), k, 0), FirstPrice, k, 0)
    BY <1>8, <2>2
  <2>4. Up(o.state) = "LIVE"
    BY <1>0, <2>1 DEF Is, Settled, Up
  <2>5. Accepts(After(o, Fill(c, k)), NewOrder(c, k, 0)) /\ After(o, Fill(c, k)).cl = c
    <3>1. PICK v : v = NewOrder(c, k, 0)
      OBVIOUS
    <3>2. /\ v.id = Number(c) /\ v.price = FirstPrice /\ v.traded = k /\ v.canceled = 0
          /\ ~v.twice
      BY <1>3, <3>1
    <3>3. Accepts(After(o, Fill(c, k)), v)
      BY <1>0, <2>0, <2>3, <2>4, <3>2 DEF Accepts, Is, Settled
    <3> QED
      BY <2>0, <2>3, <2>4, <3>1, <3>3 DEF Is
  <2> QED
    BY <2>5 DEF o
<1>11. ASSUME NEW k \in 1..Qty
       PROVE  /\ Accepts(After(After(r, Fill(c, k)), Ack(c, k)), NewOrder(c, k, 0))
              /\ After(After(r, Fill(c, k)), Ack(c, k)).cl = c
  <2>0. k \in Nat /\ 0 + k = k /\ Larger(k, k) = k
    BY <1>0 DEF Larger
  <2> DEFINE o == After(r, Fill(c, k))
  <2>1. Is(o, c, 0, Settled("LIVE", k, 0), FirstPrice, k, 0)
    BY <1>4, <1>8, <2>0 DEF Up
  <2> HIDE DEF o
  <2>2. o \in Records /\ o.cl = c /\ o.filled = k /\ o.canceled = 0 /\ o.price = FirstPrice
    BY <2>1 DEF Is
  <2>3. After(o, Ack(c, k)) = Answered(o, Ack(c, k))
    BY <1>2, <2>0, <2>2 DEF After, Concerns
  <2>4. Is(After(o, Ack(c, k)), c, Number(c), Settled(Up(o.state), k, 0), FirstPrice, k, 0)
    BY <1>2, <2>0, <2>2, <2>3, AnsweredIs DEF Carries
  <2>5. Up(o.state) # "PENDING" /\ (Up(o.state) = "DONE" => k >= Qty)
    BY <1>0, <2>0, <2>1 DEF Is, Settled, Up
  <2>6. Accepts(After(o, Ack(c, k)), NewOrder(c, k, 0)) /\ After(o, Ack(c, k)).cl = c
    <3>1. PICK v : v = NewOrder(c, k, 0)
      OBVIOUS
    <3>2. /\ v.id = Number(c) /\ v.price = FirstPrice /\ v.traded = k /\ v.canceled = 0
          /\ ~v.twice
      BY <1>3, <3>1
    <3>3. Accepts(After(o, Ack(c, k)), v)
      BY <1>0, <2>0, <2>4, <2>5, <3>2 DEF Accepts, Is, Settled
    <3> QED
      BY <2>0, <2>4, <2>5, <3>1, <3>3 DEF Is
  <2> QED
    BY <2>6 DEF o
<1> QED
  BY <1>5, <1>7, <1>9, <1>10, <1>11

\* The venue takes V for the order c and the library hears of it.
Places(c, V) ==
  /\ c = Len(venue) + 1 /\ c \in 1..(next - 1) /\ Asked("order")
  /\ up' = Tail(up) /\ UNCHANGED <<ord, next, orphans, changes>>
  /\ venue' = Append(venue, V)
  /\ V \in VOrders /\ V.id = Number(c) /\ V.traded + V.canceled <= V.qty
  /\ V.canceled > 0 => V.traded + V.canceled = V.qty

About(m, c) == m \in Messages /\ Carries(m) /\ m.cl = c /\ m.id \in {0, Number(c)}

LEMMA PlacedFacts ==
  ASSUME IInv, NEW c, NEW V, Places(c, V)
  PROVE  /\ venue' \in Seq(VOrders) /\ Len(venue') = c /\ venue'[c] = V /\ c \in Nat \ {0}
         /\ Len(venue) <= Len(venue') /\ Len(venue') \in Nat /\ OnlyChanges(c)
         /\ VenueOK' /\ up' \in Seq(Requests) /\ UpOK' /\ SlotsOK' /\ Kept'
<1>0. Types /\ SlotsOK /\ VenueOK /\ UpOK /\ Kept
  BY DEF IInv
<1>1. /\ venue' \in Seq(VOrders) /\ Len(venue) \in Nat /\ Len(venue') = Len(venue) + 1
      /\ venue'[Len(venue) + 1] = V /\ \A i \in 1..Len(venue) : venue'[i] = venue[i]
  BY <1>0, AppendFacts DEF Types, Places
<1>2. c = Len(venue) + 1 /\ c \in 1..(next - 1) /\ next \in Nat /\ next' = next
  BY <1>0 DEF Places, Types
<1>3. OnlyChanges(c)
  BY <1>1, <1>2 DEF OnlyChanges
<1>4. VenueOK'
  <2>1. ASSUME NEW d \in 1..Len(venue')
        PROVE  /\ venue'[d].id = Number(d)
               /\ venue'[d].traded + venue'[d].canceled <= venue'[d].qty
               /\ venue'[d].canceled > 0
                    => venue'[d].traded + venue'[d].canceled = venue'[d].qty
    <3>1. CASE d = c
      BY <1>1, <1>2, <3>1 DEF Places
    <3>2. CASE d # c
      <4>1. d \in 1..Len(venue)
        BY <1>1, <1>2, <3>2
      <4> QED
        BY <1>0, <1>1, <4>1 DEF VenueOK
    <3> QED
      BY <3>1, <3>2
  <2> QED
    BY <1>1, <1>2, <2>1 DEF VenueOK, Number
<1>5. up' \in Seq(Requests) /\ UpOK'
  <2>1. /\ up # <<>> /\ Head(up).kind = "order" /\ up' = Tail(up)
        /\ Head(up).cl = Len(venue) + 1
    BY <1>0, OrdersAreInTurn DEF Places, Asked
  <2> QED
    BY <1>0, <1>1, <1>2, <2>1, RequestRead
<1>6. SlotsOK'
  BY <1>0, <1>2 DEF Places, SlotsOK, Used, Number
<1>7. Kept'
  BY <1>0, <1>1, <1>2, KeptStays DEF Places
<1> QED
  BY <1>1, <1>2, <1>3, <1>4, <1>5, <1>6, <1>7

LEMMA PlacedRight ==
  ASSUME IInv, NEW c, NEW V, Places(c, V), NEW x, x.cl = c, Accepts(x, V) \/ Refuses(x, V)
  PROVE  Right(x, c)'
<1>1. Len(venue') = c /\ venue'[c] = V /\ c \in Nat
  BY PlacedFacts
<1> QED
  BY <1>1 DEF Right, Accepts, Refuses

LEMMA AboutOK ==
  ASSUME NEW c, NEW m, About(m, c), c \in 1..Len(venue')
  PROVE  MessageOK(m)'
BY DEF About, MessageOK, Number

LEMMA PlacesOne ==
  ASSUME IInv, NEW c, NEW V, Places(c, V), NEW m, About(m, c), down' = Append(down, m),
         \A r \in Records : Untouched(r) /\ r.cl = c =>
           /\ After(r, m).cl = c
           /\ Accepts(After(r, m), V) \/ Refuses(After(r, m), V)
  PROVE  IInv'
<1>0. Types /\ SlotsOK /\ VenueOK /\ DownOK /\ RecordsOK
  BY DEF IInv
<1>1. /\ venue' \in Seq(VOrders) /\ Len(venue') = c /\ venue'[c] = V /\ c \in Nat \ {0}
      /\ Len(venue) <= Len(venue') /\ Len(venue') \in Nat /\ OnlyChanges(c)
      /\ VenueOK' /\ up' \in Seq(Requests) /\ UpOK' /\ SlotsOK' /\ Kept'
  BY PlacedFacts
<1>2. /\ c = Len(venue) + 1 /\ ord' = ord /\ UNCHANGED <<next, orphans, changes>>
      /\ Len(venue) \in Nat
  BY <1>0 DEF Places, Types
<1>3. m \in Messages /\ Carries(m) /\ m.cl \in {0, c} /\ m.id \in {0, Number(c)}
  BY DEF About
<1>4. down' \in Seq(Messages) /\ DownOK'
  <2>1. MessageOK(m)'
    BY <1>1, AboutOK
  <2> QED
    BY <1>0, <1>1, <1>3, <2>1, DownGrows
<1>5. RecordsOK'
  <2>1. ASSUME NEW r \in Records, NEW d \in 1..(next - 1), NEW x, Right(r, d), x = After(r, m)
        PROVE  Right(x, d)'
    <3>1. CASE d = c
      <4>1. Untouched(r) /\ r.cl = c
        BY <1>1, <1>2, <2>1, <3>1 DEF Right
      <4>2. x.cl = c /\ (Accepts(x, V) \/ Refuses(x, V))
        BY <2>1, <4>1
      <4>3. Right(x, c)'
        BY <4>2, PlacedRight
      <4> QED
        BY <3>1, <4>3 DEF Right
    <3>2. CASE d # c
      BY <1>0, <1>1, <1>3, <2>1, <3>2, OthersStay
    <3> QED
      BY <3>1, <3>2
  <2> QED
    BY <1>0, <1>2, <1>3, <2>1, OneSaid
<1>6. Types'
  BY <1>0, <1>1, <1>2, <1>4 DEF Types
<1> QED
  BY <1>1, <1>4, <1>5, <1>6 DEF IInv

LEMMA PlacesTwo ==
  ASSUME IInv, NEW c, NEW V, Places(c, V), NEW m, About(m, c), NEW n, About(n, c),
         down' = down \o <<m, n>>,
         \A r \in Records : Untouched(r) /\ r.cl = c =>
           /\ After(After(r, m), n).cl = c
           /\ Accepts(After(After(r, m), n), V)
  PROVE  IInv'
<1>0. Types /\ SlotsOK /\ VenueOK /\ DownOK /\ RecordsOK
  BY DEF IInv
<1>1. /\ venue' \in Seq(VOrders) /\ Len(venue') = c /\ venue'[c] = V /\ c \in Nat \ {0}
      /\ Len(venue) <= Len(venue') /\ Len(venue') \in Nat /\ OnlyChanges(c)
      /\ VenueOK' /\ up' \in Seq(Requests) /\ UpOK' /\ SlotsOK' /\ Kept'
  BY PlacedFacts
<1>2. /\ c = Len(venue) + 1 /\ ord' = ord /\ UNCHANGED <<next, orphans, changes>>
      /\ Len(venue) \in Nat
  BY <1>0 DEF Places, Types
<1>3. /\ m \in Messages /\ Carries(m) /\ m.cl \in {0, c} /\ m.id \in {0, Number(c)}
      /\ n \in Messages /\ Carries(n) /\ n.cl \in {0, c} /\ n.id \in {0, Number(c)}
  BY DEF About
<1>4. down' \in Seq(Messages) /\ DownOK'
  <2>1. MessageOK(m)' /\ MessageOK(n)'
    BY <1>1, AboutOK
  <2> QED
    BY <1>0, <1>1, <1>3, <2>1, DownGrowsTwice
<1>5. RecordsOK'
  <2>1. ASSUME NEW r \in Records, NEW d \in 1..(next - 1), NEW x, Right(r, d),
               x = After(After(r, m), n)
        PROVE  Right(x, d)'
    <3>1. CASE d = c
      <4>1. Untouched(r) /\ r.cl = c
        BY <1>1, <1>2, <2>1, <3>1 DEF Right
      <4>2. x.cl = c /\ Accepts(x, V)
        BY <2>1, <4>1
      <4>3. Right(x, c)'
        BY <4>2, PlacedRight
      <4> QED
        BY <3>1, <4>3 DEF Right
    <3>2. CASE d # c
      <4>1. After(r, m) = r /\ After(r, n) = r /\ Right(r, d)'
        BY <1>0, <1>1, <1>3, <2>1, <3>2, OthersStay
      <4>2. x = r
        BY <2>1, <4>1
      <4> QED
        BY <4>1, <4>2
    <3> QED
      BY <3>1, <3>2
  <2> QED
    BY <1>0, <1>2, <1>3, <2>1, TwoSaid
<1>6. Types'
  BY <1>0, <1>1, <1>2, <1>4 DEF Types
<1> QED
  BY <1>1, <1>4, <1>5, <1>6 DEF IInv

LEMMA OnOrderStep ==
  ASSUME IInv, on_order
  PROVE  IInv'
<1>0. Types /\ VenueOK /\ UpOK
  BY DEF IInv
<1>1. PICK c : c = Len(venue) + 1
  OBVIOUS
<1>2. /\ Asked("order") /\ up' = Tail(up) /\ UNCHANGED <<ord, next, orphans, changes>>
      /\ c \in 1..(next - 1)
      /\ \/ venue' = Append(venue, NewOrder(c, 0, Qty)) /\ down' = Append(down, No(c))
         \/ venue' = Append(venue, NewOrder(c, 0, 0)) /\ down' = Append(down, Ack(c, 0))
         \/ \E k \in 1..Qty :
              /\ venue' = Append(venue, Doubled(c, k))
              /\ down' = down \o <<Ack(c, k), Fill(c, k)>>
         \/ \E k \in 1..Qty :
              /\ venue' = Append(venue, NewOrder(c, k, 0))
              /\ \/ down' = down \o <<Ack(c, 0), Fill(c, k)>>
                 \/ down' = down \o <<Fill(c, k), Ack(c, k)>>
  BY <1>0, <1>1, OnOrderIs
<1>3. c \in Nat \ {0} /\ Number(c) \in Nat /\ Qty \in Nat \ {0}
  BY <1>0, <1>1, BoundAssumption, SizeAssumption DEF Types, Number
<1>4. /\ About(No(c), c)
      /\ \A k \in Nat : About(Ack(c, k), c) /\ About(Fill(c, k), c)
  BY <1>3 DEF About, No, Ack, Fill, Say, Messages, Kinds, Carries
<1>5. ASSUME NEW V \in VOrders, V.id = Number(c), V.qty = Qty, V.traded + V.canceled <= Qty,
             V.canceled = 0 \/ V.traded + V.canceled = Qty, venue' = Append(venue, V)
      PROVE  Places(c, V)
  BY <1>1, <1>2, <1>5 DEF Places
<1>o. ASSUME NEW k \in 0..Qty
      PROVE  /\ NewOrder(c, 0, Qty) \in VOrders /\ NewOrder(c, k, 0) \in VOrders
             /\ Doubled(c, k) \in VOrders
  BY <1>3 DEF VOrders, NewOrder, Doubled, AllPrices
<1>6. CASE venue' = Append(venue, NewOrder(c, 0, Qty)) /\ down' = Append(down, No(c))
  <2>1. PICK V : V = NewOrder(c, 0, Qty)
    OBVIOUS
  <2>2. Places(c, V)
    <3>0. V \in VOrders
      BY <1>3, <1>o, <2>1
    <3>1. /\ V.id = Number(c) /\ V.qty = Qty /\ V.traded = 0 /\ V.canceled = Qty
      BY <2>1 DEF NewOrder, Doubled
    <3> QED
      BY <1>3, <1>5, <1>6, <2>1, <3>0, <3>1
  <2>3. \A r \in Records : Untouched(r) /\ r.cl = c =>
          After(r, No(c)).cl = c /\ Refuses(After(r, No(c)), V)
    BY <1>3, <2>1, FirstAnswers
  <2> QED
    BY <1>4, <1>6, <2>2, <2>3, PlacesOne
<1>7. CASE venue' = Append(venue, NewOrder(c, 0, 0)) /\ down' = Append(down, Ack(c, 0))
  <2>1. PICK V : V = NewOrder(c, 0, 0)
    OBVIOUS
  <2>2. Places(c, V)
    <3>0. V \in VOrders
      BY <1>3, <1>o, <2>1
    <3>1. /\ V.id = Number(c) /\ V.qty = Qty /\ V.traded = 0 /\ V.canceled = 0
      BY <2>1 DEF NewOrder, Doubled
    <3> QED
      BY <1>3, <1>5, <1>7, <2>1, <3>0, <3>1
  <2>3. \A r \in Records : Untouched(r) /\ r.cl = c =>
          After(r, Ack(c, 0)).cl = c /\ Accepts(After(r, Ack(c, 0)), V)
    BY <1>3, <2>1, FirstAnswers
  <2> QED
    BY <1>4, <1>7, <2>2, <2>3, PlacesOne
<1>8. ASSUME NEW k \in 1..Qty, venue' = Append(venue, Doubled(c, k)),
             down' = down \o <<Ack(c, k), Fill(c, k)>>
      PROVE  IInv'
  <2>1. PICK V : V = Doubled(c, k)
    OBVIOUS
  <2>2. Places(c, V)
    <3>0. V \in VOrders
      BY <1>3, <1>o, <2>1
    <3>1. /\ V.id = Number(c) /\ V.qty = Qty /\ V.traded = k /\ V.canceled = 0
      BY <2>1 DEF NewOrder, Doubled
    <3> QED
      BY <1>3, <1>5, <1>8, <2>1, <3>0, <3>1
  <2>3. \A r \in Records : Untouched(r) /\ r.cl = c =>
          /\ After(After(r, Ack(c, k)), Fill(c, k)).cl = c
          /\ Accepts(After(After(r, Ack(c, k)), Fill(c, k)), V)
    BY <1>3, <2>1, FirstAnswers
  <2>4. About(Ack(c, k), c) /\ About(Fill(c, k), c)
    BY <1>3, <1>4
  <2> QED
    BY <1>8, <2>2, <2>3, <2>4, PlacesTwo
<1>9. ASSUME NEW k \in 1..Qty, venue' = Append(venue, NewOrder(c, k, 0)),
             \/ down' = down \o <<Ack(c, 0), Fill(c, k)>>
             \/ down' = down \o <<Fill(c, k), Ack(c, k)>>
      PROVE  IInv'
  <2>1. PICK V : V = NewOrder(c, k, 0)
    OBVIOUS
  <2>2. Places(c, V)
    <3>0. V \in VOrders
      BY <1>3, <1>o, <2>1
    <3>1. /\ V.id = Number(c) /\ V.qty = Qty /\ V.traded = k /\ V.canceled = 0
      BY <2>1 DEF NewOrder, Doubled
    <3> QED
      BY <1>3, <1>5, <1>9, <2>1, <3>0, <3>1
  <2>3. \A r \in Records : Untouched(r) /\ r.cl = c =>
          /\ After(After(r, Ack(c, 0)), Fill(c, k)).cl = c
          /\ Accepts(After(After(r, Ack(c, 0)), Fill(c, k)), V)
          /\ After(After(r, Fill(c, k)), Ack(c, k)).cl = c
          /\ Accepts(After(After(r, Fill(c, k)), Ack(c, k)), V)
    BY <1>3, <2>1, FirstAnswers
  <2>4. About(Ack(c, 0), c) /\ About(Ack(c, k), c) /\ About(Fill(c, k), c)
    BY <1>3, <1>4
  <2>5. CASE down' = down \o <<Ack(c, 0), Fill(c, k)>>
    BY <2>2, <2>3, <2>4, <2>5, PlacesTwo
  <2>6. CASE down' = down \o <<Fill(c, k), Ack(c, k)>>
    BY <2>2, <2>3, <2>4, <2>6, PlacesTwo
  <2> QED
    BY <1>9, <2>5, <2>6
<1> QED
  BY <1>2, <1>6, <1>7, <1>8, <1>9

-----------------------------------------------------------------------------
(* The venue trades an order it has, or changes it as it is asked.          *)

Known(r, v) == Accepts(r, v) \/ Refuses(r, v)

\* The order c becomes V and the library hears of it.
Moves(c, V, m) ==
  /\ c \in 1..Len(venue) /\ venue' = [venue EXCEPT ![c] = V] /\ down' = Append(down, m)
  /\ ord' = ord /\ UNCHANGED <<next, orphans, changes>>
  /\ V \in VOrders /\ V.id = Number(c) /\ V.traded + V.canceled <= V.qty
  /\ V.canceled > 0 => V.traded + V.canceled = V.qty
  /\ Over(venue[c]) => Over(V)
  /\ m \in Messages /\ MessageOK(m) /\ m.cl \in {0, c} /\ m.id \in {0, Number(c)}
  /\ \A r \in Records : r.cl = c /\ Known(r, venue[c]) => Known(After(r, m), V)

LEMMA MovesStep ==
  ASSUME IInv, NEW c, NEW V, NEW m, Moves(c, V, m),
         \/ up' = up
         \/ up # <<>> /\ up' = Tail(up) /\ Head(up).kind # "order"
  PROVE  IInv'
<1>0. Types /\ SlotsOK /\ VenueOK /\ DownOK /\ UpOK /\ RecordsOK /\ Kept
  BY DEF IInv
<1>1. /\ venue' \in Seq(VOrders) /\ Len(venue') = Len(venue) /\ Len(venue) \in Nat
      /\ venue'[c] = V /\ \A d \in 1..Len(venue) : d # c => venue'[d] = venue[d]
  BY <1>0 DEF Types, Moves
<1>2. /\ c \in 1..Len(venue) /\ c \in Nat \ {0} /\ Len(venue) < next /\ next \in Nat
      /\ ord' = ord /\ UNCHANGED <<next, orphans, changes>>
      /\ m \in Messages /\ MessageOK(m) /\ Carries(m) /\ m.cl \in {0, c}
      /\ m.id \in {0, Number(c)} /\ down' = Append(down, m)
  BY <1>0 DEF Moves, MessageOK, Types, VenueOK
<1>3. OnlyChanges(c)
  BY <1>1, <1>2 DEF OnlyChanges
<1>4. VenueOK'
  <2>1. ASSUME NEW d \in 1..Len(venue)
        PROVE  /\ venue'[d].id = Number(d)
               /\ venue'[d].traded + venue'[d].canceled <= venue'[d].qty
               /\ venue'[d].canceled > 0
                    => venue'[d].traded + venue'[d].canceled = venue'[d].qty
    <3>1. CASE d = c
      BY <1>1, <3>1 DEF Moves
    <3>2. CASE d # c
      BY <1>0, <1>1, <3>2 DEF VenueOK
    <3> QED
      BY <3>1, <3>2
  <2> QED
    BY <1>1, <1>2, <2>1 DEF VenueOK, Number
<1>5. up' \in Seq(Requests) /\ UpOK'
  <2>1. CASE up' = up
    BY <1>0, <1>1, <1>2, <2>1 DEF UpOK, Types, Number
  <2>2. CASE up # <<>> /\ up' = Tail(up) /\ Head(up).kind # "order"
    BY <1>0, <1>1, <1>2, <2>2, RequestRead
  <2> QED
    BY <2>1, <2>2
<1>6. down' \in Seq(Messages) /\ DownOK'
  <2>1. MessageOK(m)'
    BY <1>0, <1>1, <1>2, MessagesStay
  <2> QED
    BY <1>0, <1>1, <1>2, <2>1, DownGrows
<1>7. RecordsOK'
  <2>1. ASSUME NEW r \in Records, NEW d \in 1..(next - 1), NEW x, Right(r, d), x = After(r, m)
        PROVE  Right(x, d)'
    <3>1. CASE d = c
      <4>1. r.cl = c /\ Known(r, venue[c])
        BY <1>1, <1>2, <2>1, <3>1 DEF Right, Known
      <4>2. x.cl = c /\ Known(x, V)
        BY <1>2, <2>1, <4>1, AfterFacts DEF Moves
      <4> QED
        BY <1>1, <1>2, <3>1, <4>2 DEF Right, Known, Accepts, Refuses
    <3>2. CASE d # c
      BY <1>0, <1>1, <1>2, <1>3, <2>1, <3>2, OthersStay
    <3> QED
      BY <3>1, <3>2
  <2> QED
    BY <1>0, <1>2, <2>1, OneSaid
<1>8. SlotsOK'
  BY <1>0, <1>2 DEF SlotsOK, Used, Number
<1>9. Kept'
  <2>1. \A d \in 1..Len(venue) : Over(venue[d]) => Over(venue'[d])
    BY <1>1 DEF Moves
  <2> QED
    BY <1>0, <1>1, <1>2, <2>1, KeptStays
<1>10. Types'
  BY <1>0, <1>1, <1>2, <1>5, <1>6 DEF Types
<1> QED
  BY <1>4, <1>5, <1>6, <1>7, <1>8, <1>9, <1>10 DEF IInv

LEMMA VenueFacts ==
  ASSUME IInv, NEW c \in 1..Len(venue)
  PROVE  /\ venue[c] \in VOrders /\ venue[c].id = Number(c)
         /\ venue[c].traded + venue[c].canceled <= venue[c].qty
         /\ venue[c].canceled > 0 => venue[c].traded + venue[c].canceled = venue[c].qty
         /\ venue[c].qty \in Nat /\ venue[c].traded \in Nat /\ venue[c].canceled \in Nat
         /\ c \in Nat \ {0} /\ Number(c) \in Nat \ {0} /\ Open(c) \in Nat
         /\ Open(c) > 0 => venue[c].canceled = 0 /\ venue[c].traded < venue[c].qty
<1>1. /\ venue[c] \in VOrders /\ c \in Nat \ {0}
      /\ venue[c].id = Number(c)
      /\ venue[c].traded + venue[c].canceled <= venue[c].qty
      /\ venue[c].canceled > 0 => venue[c].traded + venue[c].canceled = venue[c].qty
  BY DEF IInv, Types, VenueOK
<1> QED
  BY <1>1, BoundAssumption DEF VOrders, Open, Number

LEMMA TradeStep ==
  ASSUME IInv, Trade
  PROVE  IInv'
<1>1. PICK c \in 1..Len(venue) :
        \E k \in 1..Open(c), named \in {0, c} :
          /\ venue' = [venue EXCEPT ![c].traded = @ + k]
          /\ down' = Append(down, Say("fill", named, venue[c].id, TRUE, k))
          /\ UNCHANGED <<ord, next, orphans, up, changes>>
  <2>1. DOMAIN venue = 1..Len(venue)
    BY DEF IInv, Types
  <2> QED
    BY <2>1, Zenon DEF Trade
<1>2. PICK k \in 1..Open(c), named \in {0, c} :
        /\ venue' = [venue EXCEPT ![c].traded = @ + k]
        /\ down' = Append(down, Say("fill", named, venue[c].id, TRUE, k))
        /\ UNCHANGED <<ord, next, orphans, up, changes>>
  BY <1>1
<1> DEFINE v == venue[c]
           m == Say("fill", named, v.id, TRUE, k)
           V == [v EXCEPT !.traded = @ + k]
<1>3. /\ v \in VOrders /\ v.id = Number(c) /\ v.canceled = 0 /\ v.traded + k <= v.qty
      /\ v.traded \in Nat /\ v.qty \in Nat /\ k \in Nat \ {0} /\ Number(c) \in Nat \ {0}
      /\ c \in Nat \ {0} /\ v.traded < v.qty
  <2>1. /\ v \in VOrders /\ v.id = Number(c) /\ v.qty \in Nat /\ v.traded \in Nat
        /\ v.canceled \in Nat /\ c \in Nat \ {0} /\ Number(c) \in Nat \ {0} /\ Open(c) \in Nat
        /\ Open(c) > 0 => v.canceled = 0 /\ v.traded < v.qty
    BY VenueFacts
  <2>2. k \in Nat \ {0} /\ Open(c) > 0 /\ k <= Open(c)
    BY <1>2, <2>1
  <2> QED
    BY <2>1, <2>2 DEF Open
<1>4. /\ m \in Messages /\ m.kind = "fill" /\ m.cl = named /\ m.id = Number(c) /\ m.n = k
  BY <1>2, <1>3 DEF Say, Messages, Kinds
<1>5. /\ V \in VOrders /\ V.id = v.id /\ V.price = v.price /\ V.qty = v.qty
      /\ V.traded = v.traded + k /\ V.canceled = 0 /\ (V.twice <=> v.twice)
  <2>1. V \in VOrders
    BY <1>3 DEF VOrders
  <2>2. /\ V.id = v.id /\ V.price = v.price /\ V.qty = v.qty
        /\ V.traded = v.traded + k /\ V.canceled = 0
    BY <1>3 DEF VOrders
  <2>3. V.twice = v.twice
    BY <1>3 DEF VOrders
  <2> QED
    BY <2>1, <2>2, <2>3
<1>6. venue' = [venue EXCEPT ![c] = V] /\ down' = Append(down, m)
  BY <1>2
<1> HIDE DEF m, V
<1>7. MessageOK(m)
  BY <1>1, <1>2, <1>3, <1>4 DEF MessageOK, Carries
<1>8. ASSUME NEW r \in Records, r.cl = c, Known(r, v)
      PROVE  Known(After(r, m), V)
  <2>1. Accepts(r, v)
    BY <1>3, <1>8 DEF Known, Refuses
  <2>2. /\ r.id = Number(c) /\ r.state # "PENDING" /\ r.filled >= v.traded
        /\ (~v.twice => r.filled = v.traded) /\ r.canceled = 0 /\ r.price = v.price
        /\ r.state = "DONE" <=> r.filled + r.canceled >= Qty
    BY <1>3, <2>1 DEF Accepts
  <2>3. r.filled \in Nat /\ Qty \in Nat
    BY SizeAssumption DEF Records
  <2>4. After(r, m) = Filled(r, m)
    BY <1>3, <1>4, <2>2 DEF After, Concerns
  <2>5. Is(After(r, m), c, Number(c), Settled(r.state, r.filled + k, 0), r.price, r.filled + k, 0)
    BY <1>4, <1>7, <1>8, <2>2, <2>4, FilledIs DEF MessageOK, Up
  <2>6. PICK x : x = After(r, m)
    OBVIOUS
  <2>7. /\ x.id = V.id /\ x.price = V.price /\ x.canceled = V.canceled
        /\ x.filled = r.filled + k /\ x.state = Settled(r.state, r.filled + k, 0)
    BY <1>3, <1>5, <2>2, <2>5, <2>6 DEF Is
  <2>8. x.filled >= V.traded /\ (~V.twice => x.filled = V.traded)
    BY <1>3, <1>5, <2>2, <2>3, <2>7
  <2>9. x.state # "PENDING" /\ (x.state = "DONE" <=> x.filled + x.canceled >= Qty)
    BY <1>3, <1>5, <2>2, <2>3, <2>7 DEF Settled
  <2> QED
    BY <2>6, <2>7, <2>8, <2>9 DEF Known, Accepts
<1>9. Moves(c, V, m)
  <2>1. Over(v) => Over(V)
    BY <1>3, <1>5, SizeAssumption DEF Over
  <2>2. ord' = ord /\ UNCHANGED <<next, orphans, changes>>
    BY <1>2
  <2>3. m.cl \in {0, c} /\ m.id \in {0, Number(c)}
    BY <1>2, <1>4
  <2>4. V.traded + V.canceled <= V.qty /\ ~(V.canceled > 0)
    BY <1>3, <1>5
  <2> QED
    BY <1>1, <1>3, <1>4, <1>5, <1>6, <1>7, <1>8, <2>1, <2>2, <2>3, <2>4 DEF Moves
<1> QED
  BY <1>2, <1>9, MovesStep

\* A cancel or a modify is refused, a cancel is granted, a modify is granted.
RefusesChange(c, kind, id) ==
  /\ down' = Append(down, Say(kind, c, id, FALSE, 0)) /\ UNCHANGED venue
GrantsCancel(c) ==
  /\ Open(c) > 0
  /\ down' = Append(down, Say("cancel", c, venue[c].id, TRUE, Open(c)))
  /\ venue' = [venue EXCEPT ![c].canceled = @ + Open(c)]
GrantsModify(c, price, qty) ==
  /\ Open(c) > 0 /\ qty > venue[c].traded
  /\ down' = Append(down, Say("modify", c, venue[c].id, TRUE, price))
  /\ venue' = [venue EXCEPT ![c].price = price, ![c].qty = qty]

LEMMA RefusedMoves ==
  ASSUME IInv, NEW c \in 1..Len(venue), NEW kind \in {"cancel", "modify"},
         NEW id \in {0, Number(c)}, RefusesChange(c, kind, id),
         ord' = ord, UNCHANGED <<next, orphans, changes>>
  PROVE  \E V, m : Moves(c, V, m)
<1> DEFINE v == venue[c]
           m == Say(kind, c, id, FALSE, 0)
<1>1. /\ v \in VOrders /\ v.id = Number(c) /\ v.traded + v.canceled <= v.qty
      /\ v.canceled > 0 => v.traded + v.canceled = v.qty
      /\ c \in Nat \ {0} /\ Number(c) \in Nat
  BY VenueFacts
<1>2. m \in Messages /\ m.kind = kind /\ m.cl = c /\ m.id = id /\ ~m.ok /\ m.n = 0
  BY <1>1 DEF Say, Messages, Kinds
<1>3. down' = Append(down, m) /\ venue' = [venue EXCEPT ![c] = v]
  BY DEF RefusesChange, IInv, Types
<1> HIDE DEF m
<1>4. MessageOK(m)
  <2>1. Carries(m)
    BY <1>2 DEF Carries
  <2>2. m.cl \in 1..Len(venue) /\ m.id \in {0, Number(m.cl)}
    BY <1>2
  <2> QED
    BY <2>1, <2>2 DEF MessageOK
<1>5. ASSUME NEW r \in Records PROVE After(r, m) = r
  BY <1>2 DEF After, Canceled, Modified
<1>6. Moves(c, v, m)
  BY <1>1, <1>2, <1>3, <1>4, <1>5 DEF Moves
<1> QED
  BY <1>6

LEMMA CancelMoves ==
  ASSUME IInv, NEW c \in 1..Len(venue), GrantsCancel(c),
         ord' = ord, UNCHANGED <<next, orphans, changes>>
  PROVE  \E V, m : Moves(c, V, m)
<1> DEFINE v == venue[c]
           k == Open(c)
           m == Say("cancel", c, v.id, TRUE, k)
           V == [v EXCEPT !.canceled = @ + k]
<1>1. /\ v \in VOrders /\ v.id = Number(c) /\ v.canceled = 0 /\ v.traded + k = v.qty
      /\ v.traded \in Nat /\ v.qty \in Nat /\ k \in Nat \ {0}
      /\ c \in Nat \ {0} /\ Number(c) \in Nat \ {0}
  <2>1. /\ v \in VOrders /\ v.id = Number(c) /\ v.qty \in Nat /\ v.traded \in Nat
        /\ c \in Nat \ {0} /\ Number(c) \in Nat \ {0} /\ k \in Nat /\ k > 0
        /\ k > 0 => v.canceled = 0
    BY VenueFacts DEF GrantsCancel
  <2> QED
    BY <2>1 DEF Open
<1>2. down' = Append(down, m) /\ venue' = [venue EXCEPT ![c] = V]
  BY DEF GrantsCancel
<1>3. m \in Messages /\ m.kind = "cancel" /\ m.cl = c /\ m.id = Number(c) /\ m.ok /\ m.n = k
  BY <1>1 DEF Say, Messages, Kinds
<1>4. /\ V \in VOrders /\ V.id = v.id /\ V.price = v.price /\ V.qty = v.qty
      /\ V.traded = v.traded /\ V.canceled = k /\ (V.twice <=> v.twice)
  <2>1. V \in VOrders
    BY <1>1 DEF VOrders
  <2>2. /\ V.id = v.id /\ V.price = v.price /\ V.qty = v.qty
        /\ V.traded = v.traded /\ V.canceled = k
    BY <1>1 DEF VOrders
  <2>3. V.twice = v.twice
    BY <1>1 DEF VOrders
  <2> QED
    BY <2>1, <2>2, <2>3
<1> HIDE DEF m, V, k
<1>5. MessageOK(m) /\ Carries(m)
  BY <1>1, <1>3 DEF MessageOK, Carries
<1>6. ASSUME NEW r \in Records, r.cl = c, Known(r, v)
      PROVE  Known(After(r, m), V)
  <2>1. Accepts(r, v)
    BY <1>1, <1>6 DEF Known, Refuses
  <2>2. /\ r.id = Number(c) /\ r.state # "PENDING" /\ r.filled >= v.traded
        /\ (~v.twice => r.filled = v.traded) /\ r.canceled = 0 /\ r.price = v.price
        /\ r.state = "DONE" <=> r.filled + r.canceled >= Qty
    BY <1>1, <2>1 DEF Accepts
  <2>3. r.filled \in Nat /\ Qty \in Nat /\ Larger(m.n, r.canceled) = k
    BY <1>1, <1>3, <2>2, LargerFacts, SizeAssumption DEF Records
  <2>4. After(r, m) = Canceled(r, m)
    BY <1>3, <1>6 DEF After, Concerns
  <2>5. Is(After(r, m), c, Number(c), Settled(r.state, r.filled, k), r.price, r.filled, k)
    BY <1>3, <1>5, <1>6, <2>2, <2>3, <2>4, CanceledIs
  <2>6. PICK x : x = After(r, m)
    OBVIOUS
  <2>7. /\ x.id = V.id /\ x.price = V.price /\ x.canceled = V.canceled
        /\ x.filled = r.filled /\ x.state = Settled(r.state, r.filled, k)
    BY <1>1, <1>4, <2>2, <2>5, <2>6 DEF Is
  <2>8. x.filled >= V.traded /\ (~V.twice => x.filled = V.traded)
    BY <1>4, <2>2, <2>7
  <2>9. x.state # "PENDING" /\ (x.state = "DONE" <=> x.filled + x.canceled >= Qty)
    BY <1>1, <1>4, <2>2, <2>3, <2>7 DEF Settled
  <2> QED
    BY <2>6, <2>7, <2>8, <2>9 DEF Known, Accepts
<1>7. Over(v) => Over(V)
  BY <1>1, <1>4, SizeAssumption DEF Over
<1>8. Moves(c, V, m)
  <2>1. V.traded + V.canceled <= V.qty /\ V.traded + V.canceled = V.qty
    BY <1>1, <1>4
  <2>2. m.cl \in {0, c} /\ m.id \in {0, Number(c)} /\ V.id = Number(c)
    BY <1>1, <1>3, <1>4
  <2> QED
    BY <1>2, <1>3, <1>4, <1>5, <1>6, <1>7, <2>1, <2>2 DEF Moves
<1> QED
  BY <1>8

LEMMA ModifyMoves ==
  ASSUME IInv, NEW c \in 1..Len(venue), NEW price \in AllPrices, NEW qty \in Nat \ {0},
         GrantsModify(c, price, qty), ord' = ord, UNCHANGED <<next, orphans, changes>>
  PROVE  \E V, m : Moves(c, V, m)
<1> DEFINE v == venue[c]
           m == Say("modify", c, v.id, TRUE, price)
           V == [v EXCEPT !.price = price, !.qty = qty]
<1>1. /\ v \in VOrders /\ v.id = Number(c) /\ v.canceled = 0 /\ v.traded < qty
      /\ v.traded \in Nat /\ c \in Nat \ {0} /\ Number(c) \in Nat \ {0}
  BY VenueFacts DEF GrantsModify
<1>2. down' = Append(down, m) /\ venue' = [venue EXCEPT ![c] = V]
  BY DEF GrantsModify, IInv, Types
<1>3. m \in Messages /\ m.kind = "modify" /\ m.cl = c /\ m.id = Number(c) /\ m.ok /\ m.n = price
  BY <1>1 DEF Say, Messages, Kinds
<1>4. /\ V \in VOrders /\ V.id = v.id /\ V.price = price /\ V.qty = qty
      /\ V.traded = v.traded /\ V.canceled = 0 /\ (V.twice <=> v.twice)
  <2>1. V \in VOrders
    BY <1>1 DEF VOrders
  <2>2. /\ V.id = v.id /\ V.price = price /\ V.qty = qty
        /\ V.traded = v.traded /\ V.canceled = 0
    BY <1>1 DEF VOrders
  <2>3. V.twice = v.twice
    BY <1>1 DEF VOrders
  <2> QED
    BY <2>1, <2>2, <2>3
<1> HIDE DEF m, V
<1>5. MessageOK(m) /\ Carries(m)
  BY <1>1, <1>3 DEF MessageOK, Carries
<1>6. ASSUME NEW r \in Records, r.cl = c, Known(r, v)
      PROVE  Known(After(r, m), V)
  <2>1. Accepts(r, v)
    BY <1>1, <1>6, SizeAssumption DEF Known, Refuses
  <2>2. /\ r.id = Number(c) /\ r.state # "PENDING" /\ r.filled >= v.traded
        /\ (~v.twice => r.filled = v.traded) /\ r.canceled = 0
        /\ r.state = "DONE" <=> r.filled + r.canceled >= Qty
    BY <1>1, <2>1 DEF Accepts
  <2>3. After(r, m) = Modified(r, m)
    BY <1>3, <1>6 DEF After, Concerns
  <2>4. Is(After(r, m), c, Number(c), r.state, price, r.filled, 0)
    BY <1>3, <1>5, <1>6, <2>2, <2>3, ModifiedIs
  <2>5. PICK x : x = After(r, m)
    OBVIOUS
  <2>6. /\ x.id = V.id /\ x.price = V.price /\ x.canceled = V.canceled
        /\ x.filled = r.filled /\ x.state = r.state
    BY <1>1, <1>4, <2>2, <2>4, <2>5 DEF Is
  <2> QED
    BY <1>4, <2>2, <2>5, <2>6 DEF Known, Accepts
<1>7. Over(v) => Over(V)
  BY <1>1, <1>4 DEF Over
<1>8. Moves(c, V, m)
  <2>1. V.traded + V.canceled <= V.qty /\ ~(V.canceled > 0)
    BY <1>1, <1>4
  <2>2. m.cl \in {0, c} /\ m.id \in {0, Number(c)} /\ V.id = Number(c)
    BY <1>1, <1>3, <1>4
  <2> QED
    BY <1>2, <1>3, <1>4, <1>5, <1>6, <1>7, <2>1, <2>2 DEF Moves
<1> QED
  BY <1>8

LEMMA OnChangeStep ==
  ASSUME IInv, on_change
  PROVE  IInv'
<1> DEFINE r == Head(up)
<1>1. /\ r.cl \in 1..Len(venue) /\ r.id \in {0, Number(r.cl)}
      /\ r.kind \in {"cancel", "modify"} /\ r \in Requests
  BY ChangesAreKnown DEF IInv, on_change
<1>2. /\ ord' = ord /\ UNCHANGED <<next, orphans, changes>>
      /\ up # <<>> /\ up' = Tail(up) /\ Head(up).kind # "order"
  BY <1>1 DEF on_change, Asked
<1>3. PICK c, price, qty : c = r.cl /\ price = r.price /\ qty = r.qty
  OBVIOUS
<1>4. \/ RefusesChange(c, r.kind, r.id)
      \/ GrantsCancel(c)
      \/ GrantsModify(c, price, qty)
  BY <1>3 DEF on_change, RefusesChange, GrantsCancel, GrantsModify
<1>5. c \in 1..Len(venue) /\ price \in AllPrices /\ qty \in Nat \ {0}
  BY <1>1, <1>3 DEF Requests
<1>6. \E V, m : Moves(c, V, m)
  <2>1. CASE RefusesChange(c, r.kind, r.id)
    BY <1>1, <1>2, <1>3, <1>5, <2>1, RefusedMoves
  <2>2. CASE GrantsCancel(c)
    BY <1>2, <1>5, <2>2, CancelMoves
  <2>3. CASE GrantsModify(c, price, qty)
    BY <1>2, <1>5, <2>3, ModifyMoves
  <2> QED
    BY <1>4, <2>1, <2>2, <2>3
<1> QED
  BY <1>2, <1>6, MovesStep

-----------------------------------------------------------------------------
(* The invariant, and what follows from it.                                 *)

LEMMA IInvInit == Init => IInv
<1> SUFFICES ASSUME Init PROVE IInv
  OBVIOUS
<1>1. Used = {} /\ Len(up) = 0 /\ Len(down) = 0 /\ Len(venue) = 0 /\ next = 1
  BY DEF Init, Used, NONE
<1>2. Types
  BY DEF Init, Types
<1>3. SlotsOK /\ VenueOK /\ DownOK /\ RecordsOK /\ Kept
  BY <1>1 DEF SlotsOK, VenueOK, DownOK, RecordsOK, Kept
<1>4. UpOK
  BY <1>1 DEF UpOK
<1> QED
  BY <1>2, <1>3, <1>4 DEF IInv

LEMMA IInvStep == IInv /\ [Next]_vars => IInv'
<1> SUFFICES ASSUME IInv, [Next]_vars PROVE IInv'
  OBVIOUS
<1>1. CASE sdk_new_order
  BY <1>1, NewOrderStep
<1>2. CASE sdk_cancel \/ sdk_modify
  BY <1>2, RequestStep
<1>3. CASE sdk_reap_done
  BY <1>3, ReapStep
<1>4. CASE sdk_on_order_ack \/ sdk_on_cancel_ack \/ sdk_on_modify_ack \/ sdk_on_fill
  BY <1>4, HandlersReceive, ReceiveStep DEF IInv
<1>5. CASE on_order
  BY <1>5, OnOrderStep
<1>6. CASE Trade
  BY <1>6, TradeStep
<1>7. CASE on_change
  BY <1>7, OnChangeStep
<1>8. CASE UNCHANGED vars
  <2>1. Types' /\ VenueOK'
    BY <1>8 DEF vars, IInv, Types, VenueOK, Number
  <2>2. SlotsOK' /\ DownOK'
    BY <1>8 DEF vars, IInv, SlotsOK, DownOK, MessageOK, Used, Number
  <2>3. UpOK'
    BY <1>8 DEF vars, IInv, UpOK, Number
  <2>4. RecordsOK' /\ Kept'
    BY <1>8 DEF vars, IInv, RecordsOK, Kept, Right, Used
  <2> QED
    BY <2>1, <2>2, <2>3, <2>4 DEF IInv
<1> QED
  BY <1>1, <1>2, <1>3, <1>4, <1>5, <1>6, <1>7, <1>8 DEF Next

LEMMA Invariance == Spec => []IInv
BY IInvInit, IInvStep, PTL DEF Spec

\* Nothing under way is about the record: what it is, it will be.
LEMMA HeardIs ==
  ASSUME IInv, NEW s \in Used, Heard(ord[s].cl)
  PROVE  Right(ord[s], ord[s].cl) /\ ord[s].cl \in 1..Len(venue)
<1> DEFINE o == ord[s]
<1>0. Types /\ SlotsOK /\ RecordsOK
  BY DEF IInv
<1>1. /\ o \in Records /\ o.cl \in 1..Len(venue) /\ venue[o.cl].id = Number(o.cl)
      /\ o.id \in {0, Number(o.cl)}
      /\ \A i \in 1..Len(down) : down[i].cl # o.cl /\ down[i].id # Number(o.cl)
  BY <1>0, UsedFacts DEF Heard, Types, SlotsOK, IInv, VenueOK
<1>2. \A i \in 1..Len(down) : ~Concerns(o, down[i])
  BY <1>1 DEF Concerns
<1>3. PICK r : Leads(o, down, r) /\ Right(r, o.cl)
  BY <1>0 DEF RecordsOK
<1>4. r = o
  BY <1>0, <1>1, <1>2, <1>3, LeadsNowhere DEF Types
<1> QED
  BY <1>1, <1>3, <1>4

\* Once every answer about an order has been read, its record is the venue's:
\* whatever number the notices named it by, however the notices and the count
\* of the answer overlapped and in whatever order they came, the record counts
\* the shares the venue traded and took back, has its price, and is over just
\* when nothing is open (RecordIsVenues, order_sdk.c:268-388).
THEOREM RecordsAreTheVenues == Spec => []RecordIsVenues
<1>1. IInv => RecordIsVenues
  <2> SUFFICES ASSUME IInv, NEW s \in Used, Heard(ord[s].cl)
               PROVE  LET o == ord[s] v == venue[o.cl] IN
                      /\ Followed(v) => (o.filled = v.traded /\ (o.state = "DONE" <=> Open(o.cl) = 0))
                      /\ v.id = o.id => (o.filled >= v.traded /\ o.canceled = v.canceled
                                         /\ o.price = v.price)
                      /\ o.state # "PENDING"
    BY DEF RecordIsVenues
  <2>1. PICK o, c : o = ord[s] /\ c = o.cl
    OBVIOUS
  <2>2. PICK v : v = venue[c]
    OBVIOUS
  <2>3. o \in Records /\ c \in 1..Len(venue) /\ (Accepts(o, v) \/ Refuses(o, v))
    BY <2>1, <2>2, HeardIs, UsedFacts DEF Right, IInv, Types
  <2>4. /\ v.id = Number(c) /\ Number(c) # 0 /\ v.traded + v.canceled <= v.qty
        /\ v.qty \in Nat /\ v.traded \in Nat /\ v.canceled \in Nat
        /\ Open(c) = v.qty - v.traded - v.canceled
    BY <2>2, <2>3, VenueFacts DEF Open
  <2>5. CASE Accepts(o, v)
    BY <2>1, <2>2, <2>4, <2>5, SizeAssumption DEF Accepts, Followed
  <2>6. CASE Refuses(o, v)
    BY <2>1, <2>2, <2>4, <2>6, SizeAssumption DEF Refuses, Followed
  <2> QED
    BY <2>1, <2>2, <2>3, <2>5, <2>6
<1> QED
  BY <1>1, Invariance, PTL

\* An order that may still trade, and whose fills are told once, is in a slot
\* the strategy can cancel it from: no answer ever makes the library take it
\* for over, and its slot is never given to another order (NoOrderForgotten,
\* order_sdk.h:56-57, order_sdk.c:100-108, 318-324, 458-472).
THEOREM NoneIsForgotten == Spec => []NoOrderForgotten
<1>1. IInv => NoOrderForgotten
  <2> SUFFICES ASSUME IInv, NEW c \in 1..Len(venue), Open(c) > 0, Followed(venue[c])
               PROVE  \E s \in Slots : mutable_order(s) /\ ord[s].cl = c
    BY DEF NoOrderForgotten, IInv, Types
  <2>1. PICK v : v = venue[c]
    OBVIOUS
  <2>2. /\ v.qty = Qty /\ ~v.twice /\ v.traded + v.canceled < Qty
        /\ v.traded \in Nat /\ v.canceled = 0 /\ Qty \in Nat
    BY <2>1, VenueFacts, SizeAssumption DEF Followed, Open
  <2>3. c \in 1..(next - 1) /\ c <= Len(venue)
    BY DEF IInv, Types, VenueOK
  <2>4. PICK s \in Used : ord[s].cl = c
    BY <2>1, <2>2, <2>3 DEF IInv, Kept, Over
  <2>5. PICK r : Leads(ord[s], down, r) /\ Right(r, c)
    BY <2>4 DEF IInv, RecordsOK
  <2>6. Accepts(r, v) \/ Refuses(r, v)
    BY <2>1, <2>3, <2>5 DEF Right
  <2>7. r.state # "DONE"
    BY <2>2, <2>6, SizeAssumption DEF Accepts, Refuses
  <2>8. ord[s].state # "DONE"
    BY <2>5, <2>7, LeadsDone DEF IInv, Types
  <2>9. s \in Slots /\ ord[s].state # "NONE"
    BY DEF Used
  <2> QED
    BY <2>4, <2>8, <2>9 DEF mutable_order
<1> QED
  BY <1>1, Invariance, PTL
=============================================================================
