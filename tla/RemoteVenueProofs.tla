-------------------------- MODULE RemoteVenueProofs -------------------------
(***************************************************************************)
(* For every number of orders, size of the number table and of the send    *)
(* queue, and however often waits expire, connections break and the        *)
(* exchange starts again: the five invariants of RemoteVenue.              *)
(* The argument follows one order. Its leg is sent once and answered once, *)
(* so no two frames under way are about the same leg (LineOK); until the   *)
(* answer is read the table knows no number for the order, and it does not *)
(* make room at the order's cost (TableOK); so the answer finds the entry  *)
(* and ties it to the number the order rests under. That a number is never *)
(* another order's needs that all the numbers the ledger knows were given  *)
(* out in one life of the exchange (Era, NamesOK): a restart ends the      *)
(* connection, and link_connect forgets every number with it.              *)
(***************************************************************************)
EXTENDS RemoteVenue, FiniteSetTheorems, SequenceTheorems, WellFoundedInduction, TLAPS

Kinds    == {"leg", "cancel", "book"}
States   == {"pending", "live", "indoubt", "done"}
Requests == [kind : Kinds, ord : Nat, id : Nat]
Answers  == [kind : Kinds, ord : Nat, id : Nat, ok : BOOLEAN, qty : 0..Qty, rests : BOOLEAN]
Entries  == [cl : Nat, st : States, exch : Nat]
Rests    == [cl : Nat, qty : 1..Qty]
Legs     == [sent : Nat, filled : Nat, canceled : Nat, notional : Nat,
             live : BOOLEAN, accepted : BOOLEAN]

\* A leg is live exactly while it has shares left.
LegOK(l) ==
  l.sent = Qty /\ l.filled + l.canceled <= Qty /\ (l.live <=> l.filled + l.canceled < Qty)

-----------------------------------------------------------------------------
(* The table.                                                               *)

\* The least index of a nonempty set of them.
LEMMA MinIsMember ==
  ASSUME NEW S, S \subseteq Nat, S # {}
  PROVE  Min(S) \in S
<1> DEFINE R == {p \in Nat \X Nat : p[1] < p[2]}
<1>0. IsWellFoundedOn(R, Nat)
  BY NatLessThanWellFounded, Zenon DEF OpToRel
<1>1. PICK x \in S : \A y \in S : ~(<<y, x>> \in R)
  <2> HIDE DEF R
  <2> QED
    BY <1>0, WFMin
<1>2. ASSUME NEW y \in S PROVE x <= y
  <2>1. x \in Nat /\ y \in Nat /\ ~(<<y, x>> \in R)
    BY <1>1
  <2> QED
    BY <2>1
<1> QED
  BY <1>2 DEF Min

\* new holds nothing but entries of om, and all of those that are not over.
Kept(om0, new) ==
  /\ new \in Seq(Entries)
  /\ \A i \in 1..Len(new) : \E j \in 1..Len(om0) : new[i] = om0[j]
  /\ \A j \in 1..Len(om0) : om0[j].st # "done" => \E i \in 1..Len(new) : new[i] = om0[j]

LEMMA TakeSlotFacts ==
  ASSUME NEW t \in Seq(Entries), Len(t) <= MapSize, HasRoom(t)
  PROVE  Kept(t, take_slot(t)) /\ Len(take_slot(t)) < MapSize
<1>0. MapSize \in Nat /\ Len(t) \in Nat
  BY MapAssumption
<1>1. CASE Len(t) < MapSize
  BY <1>0, <1>1 DEF take_slot, Kept
<1>2. CASE ~(Len(t) < MapSize)
  <2> DEFINE k == Min(Done(t))
  <2>1. Done(t) # {} /\ Done(t) \subseteq Nat /\ DOMAIN t = 1..Len(t)
    BY <1>2 DEF HasRoom, Done
  <2>2. k \in 1..Len(t) /\ t[k].st = "done"
    BY <2>1, MinIsMember DEF Done
  <2> HIDE DEF k
  <2> DEFINE a == SubSeq(t, 1, k - 1)
             b == SubSeq(t, k + 1, Len(t))
             new == a \o b
  <2>3. take_slot(t) = new
    BY <1>2 DEF take_slot, RemoveAt, k
  <2>4. /\ a \in Seq(Entries) /\ Len(a) = k - 1
        /\ \A i \in 1..k - 1 : a[i] = t[i]
    BY <1>0, <2>2
  <2>5. /\ b \in Seq(Entries) /\ Len(b) = Len(t) - k
        /\ \A i \in 1..Len(t) - k : b[i] = t[i + k]
    BY <1>0, <2>2
  <2> HIDE DEF a, b
  <2>6. /\ new \in Seq(Entries) /\ Len(new) = Len(t) - 1
        /\ \A i \in 1..k - 1 : new[i] = t[i]
        /\ \A i \in k..Len(t) - 1 : new[i] = t[i + 1]
    <3>1. /\ new \in Seq(Entries) /\ Len(new) = Len(a) + Len(b)
          /\ \A i \in 1..Len(new) : new[i] = IF i <= Len(a) THEN a[i] ELSE b[i - Len(a)]
      BY <2>4, <2>5, ConcatProperties
    <3>2. Len(new) = Len(t) - 1
      BY <1>0, <2>2, <2>4, <2>5, <3>1
    <3>3. ASSUME NEW i \in 1..k - 1 PROVE new[i] = t[i]
      BY <1>0, <2>2, <2>4, <3>1, <3>2
    <3>4. ASSUME NEW i \in k..Len(t) - 1 PROVE new[i] = t[i + 1]
      <4>1. new[i] = b[i - (k - 1)] /\ i - (k - 1) \in 1..Len(t) - k
        BY <1>0, <2>2, <2>4, <3>1, <3>2
      <4>2. b[i - (k - 1)] = t[i - (k - 1) + k]
        BY <2>5, <4>1
      <4>3. i - (k - 1) + k = i + 1
        BY <2>2
      <4> QED
        BY <4>1, <4>2, <4>3
    <3> QED
      BY <3>1, <3>2, <3>3, <3>4
  <2> HIDE DEF new
  <2>7. ASSUME NEW i \in 1..Len(new) PROVE \E j \in 1..Len(t) : new[i] = t[j]
    <3>1. CASE i < k
      BY <1>0, <2>2, <2>6, <3>1
    <3>2. CASE ~(i < k)
      <4>1. i \in k..Len(t) - 1 /\ i + 1 \in 1..Len(t)
        BY <1>0, <2>2, <2>6, <3>2
      <4> QED
        BY <2>6, <4>1
    <3> QED
      BY <3>1, <3>2
  <2>8. ASSUME NEW j \in 1..Len(t), t[j].st # "done" PROVE \E i \in 1..Len(new) : new[i] = t[j]
    <3>1. j # k
      BY <2>2, <2>8
    <3>2. CASE j < k
      BY <1>0, <2>2, <2>6, <3>2
    <3>3. CASE j > k
      <4>1. j - 1 \in k..Len(t) - 1 /\ j - 1 \in 1..Len(new) /\ j - 1 + 1 = j
        BY <1>0, <2>2, <2>6, <3>3
      <4>2. new[j - 1] = t[j - 1 + 1]
        BY <2>6, <4>1
      <4> QED
        BY <4>1, <4>2
    <3> QED
      BY <2>2, <3>1, <3>2, <3>3
  <2>9. Len(new) < MapSize
    BY <1>0, <2>6
  <2> QED
    BY <2>3, <2>6, <2>7, <2>8, <2>9 DEF Kept
<1> QED
  BY <1>1, <1>2

\* What ordmap_add makes of the table: room for the new order, at the cost of
\* none that is not over.
Added(t, o, new) ==
  /\ new \in Seq(Entries) /\ Len(new) <= MapSize
  /\ \A i \in 1..Len(new) : new[i] = Entry(o, "pending", 0) \/ \E j \in 1..Len(t) : new[i] = t[j]
  /\ \A j \in 1..Len(t) : t[j].st # "done" => \E i \in 1..Len(new) : new[i] = t[j]
  /\ \E i \in 1..Len(new) : new[i] = Entry(o, "pending", 0)

LEMMA AddFacts ==
  ASSUME NEW t \in Seq(Entries), Len(t) <= MapSize, HasRoom(t), NEW o \in Nat
  PROVE  Added(t, o, ordmap_add(t, o))
<1> DEFINE s == take_slot(t)
           e == Entry(o, "pending", 0)
           new == Append(s, e)
<1>1. Kept(t, s) /\ Len(s) < MapSize
  BY TakeSlotFacts
<1>2. e \in Entries
  BY DEF Entry, Entries, States
<1>3. ordmap_add(t, o) = new
  BY DEF ordmap_add
<1> HIDE DEF s, e
<1>4. s \in Seq(Entries) /\ Len(s) \in Nat /\ MapSize \in Nat
  BY <1>1, MapAssumption DEF Kept
<1>5. /\ new \in Seq(Entries) /\ Len(new) = Len(s) + 1 /\ new[Len(s) + 1] = e
      /\ \A i \in 1..Len(s) : new[i] = s[i]
  BY <1>2, <1>4
<1> HIDE DEF new
<1>6. Len(new) <= MapSize /\ Len(s) + 1 \in 1..Len(new) /\ 1..Len(s) \subseteq 1..Len(new)
  BY <1>1, <1>4, <1>5
<1>7. ASSUME NEW i \in 1..Len(new) PROVE new[i] = e \/ \E j \in 1..Len(t) : new[i] = t[j]
  <2>1. i = Len(s) + 1 \/ i \in 1..Len(s)
    BY <1>4, <1>5
  <2> QED
    BY <1>1, <1>5, <2>1 DEF Kept
<1>8. ASSUME NEW j \in 1..Len(t), t[j].st # "done" PROVE \E i \in 1..Len(new) : new[i] = t[j]
  <2>1. PICK i \in 1..Len(s) : s[i] = t[j]
    BY <1>1, <1>8 DEF Kept
  <2> QED
    BY <1>5, <1>6, <2>1
<1> QED
  <2>1. \E i \in 1..Len(new) : new[i] = e
    BY <1>5, <1>6
  <2> QED
    BY <1>3, <1>5, <1>6, <1>7, <1>8, <2>1 DEF Added, e

\* new holds the orders of t at the same places, and the entries of every order
\* but o as they were.
Marked(t, o, new) ==
  /\ new \in Seq(Entries) /\ Len(new) = Len(t)
  /\ \A i \in 1..Len(t) : new[i].cl = t[i].cl /\ (t[i].cl # o => new[i] = t[i])

Unknown(e) == e.st \in {"pending", "indoubt"} /\ e.exch = 0

\* The answer to a leg: no entry takes a number other than the answer's, and one
\* that had none is over or takes it.
Acked(t, o, exch, ok, new) ==
  /\ Marked(t, o, new)
  /\ \A i \in 1..Len(t) :
       /\ new[i].exch \in {0, exch, t[i].exch}
       /\ t[i].cl = o /\ ok /\ (\A k \in 1..Len(t) : t[k].cl = o => Unknown(t[k]))
            => new[i].st = "live" /\ new[i].exch = exch

LEMMA WithFacts ==
  ASSUME NEW t \in Seq(Entries), NEW o \in Nat, NEW st \in States, NEW exch \in Nat
  PROVE  /\ Marked(t, o, With(t, o, st, exch))
         /\ \A i \in 1..Len(t) : t[i].cl = o => With(t, o, st, exch)[i] = Entry(o, st, exch)
<1> DEFINE e == Entry(o, st, exch)
           new == [i \in 1..Len(t) |-> IF t[i].cl = o THEN e ELSE t[i]]
<1>1. e \in Entries /\ e.cl = o
  BY DEF Entry, Entries
<1>2. With(t, o, st, exch) = new
  BY DEF With
<1> HIDE DEF e
<1>3. new \in Seq(Entries) /\ Len(new) = Len(t)
  BY <1>1
<1> QED
  BY <1>1, <1>2, <1>3 DEF Marked, e

LEMMA AckFacts ==
  ASSUME NEW t \in Seq(Entries), NEW o \in Nat, NEW exch \in Nat, NEW ok \in BOOLEAN
  PROVE  Acked(t, o, exch, ok, ordmap_on_ack(t, o, exch, ok))
<1> DEFINE new == ordmap_on_ack(t, o, exch, ok)
           at == find_cl(t, o)
<1> SUFFICES Acked(t, o, exch, ok, new)
  OBVIOUS
<1> HIDE DEF new
<1>0. at = {i \in 1..Len(t) : t[i].cl = o}
  BY DEF find_cl
<1> HIDE DEF at
<1>4. \A i \in 1..Len(t) : t[i].exch \in Nat
  <2>1. \A e \in Entries : e.exch \in Nat
    BY DEF Entries
  <2> QED
    BY <2>1
<1>1. CASE new = t /\ (at = {} \/ \E i \in at : t[i].exch \notin {0, exch})
  BY <1>0, <1>1 DEF Acked, Marked, Unknown
<1>5. {"done", "live"} \subseteq States /\ 0 \in Nat
  BY DEF States
<1>2. CASE new = With(t, o, "done", 0) /\ ~ok
  <2>0. /\ Marked(t, o, With(t, o, "done", 0))
        /\ \A i \in 1..Len(t) : t[i].cl = o => With(t, o, "done", 0)[i] = Entry(o, "done", 0)
    BY <1>5, WithFacts
  <2>1. /\ Marked(t, o, new)
        /\ \A i \in 1..Len(t) : t[i].cl = o => new[i].exch = 0
    BY <1>2, <2>0 DEF Entry
  <2> QED
    BY <1>2, <2>1 DEF Acked, Marked
<1>3. CASE new = With(t, o, "live", exch)
  <2>0. /\ Marked(t, o, With(t, o, "live", exch))
        /\ \A i \in 1..Len(t) : t[i].cl = o => With(t, o, "live", exch)[i] = Entry(o, "live", exch)
    BY <1>5, WithFacts
  <2>1. /\ Marked(t, o, new)
        /\ \A i \in 1..Len(t) : t[i].cl = o => new[i].exch = exch /\ new[i].st = "live"
    BY <1>3, <2>0 DEF Entry
  <2> QED
    BY <2>1 DEF Acked, Marked
<1> QED
  BY <1>1, <1>2, <1>3 DEF ordmap_on_ack, new, at

LEMMA CloseFacts ==
  ASSUME NEW t \in Seq(Entries), NEW o \in Nat
  PROVE  /\ Marked(t, o, ordmap_close(t, o))
         /\ \A i \in 1..Len(t) : ordmap_close(t, o)[i].exch = t[i].exch
<1> DEFINE new == [i \in 1..Len(t) |-> IF t[i].cl = o THEN [t[i] EXCEPT !.st = "done"] ELSE t[i]]
<1>1. ordmap_close(t, o) = new
  BY DEF ordmap_close
<1>2. \A e \in Entries : /\ [e EXCEPT !.st = "done"] \in Entries
                         /\ [e EXCEPT !.st = "done"].cl = e.cl
                         /\ [e EXCEPT !.st = "done"].exch = e.exch
  BY DEF Entries, States
<1>3. \A i \in 1..Len(t) : t[i] \in Entries
  OBVIOUS
<1>4. \A i \in 1..Len(t) : new[i] \in Entries /\ new[i].cl = t[i].cl /\ new[i].exch = t[i].exch
                           /\ (t[i].cl # o => new[i] = t[i])
  BY <1>2, <1>3
<1>5. new \in Seq(Entries) /\ Len(new) = Len(t)
  BY <1>4
<1> HIDE DEF new
<1> QED
  BY <1>1, <1>4, <1>5 DEF Marked

\* An order that was pending is in doubt.
Doubted(t, new) ==
  /\ new \in Seq(Entries) /\ Len(new) = Len(t)
  /\ \A i \in 1..Len(t) :
       /\ new[i].cl = t[i].cl /\ new[i].exch = t[i].exch
       /\ t[i].st \in {"pending", "indoubt"} => new[i].st \in {"pending", "indoubt"}
       /\ t[i].st \notin {"pending", "indoubt"} => new[i] = t[i]

LEMMA DisconnectFacts ==
  ASSUME NEW t \in Seq(Entries)
  PROVE  Doubted(t, ordmap_on_disconnect(t))
<1> DEFINE new == [i \in 1..Len(t) |->
                     IF t[i].st = "pending" THEN [t[i] EXCEPT !.st = "indoubt"] ELSE t[i]]
<1>1. ordmap_on_disconnect(t) = new
  BY DEF ordmap_on_disconnect
<1>2. \A e \in Entries : /\ [e EXCEPT !.st = "indoubt"] \in Entries
                         /\ [e EXCEPT !.st = "indoubt"].cl = e.cl
                         /\ [e EXCEPT !.st = "indoubt"].exch = e.exch
                         /\ [e EXCEPT !.st = "indoubt"].st = "indoubt"
  BY DEF Entries, States
<1>3. \A i \in 1..Len(t) : t[i] \in Entries
  OBVIOUS
<1>4. \A i \in 1..Len(t) :
        /\ new[i] \in Entries /\ new[i].cl = t[i].cl /\ new[i].exch = t[i].exch
        /\ t[i].st \in {"pending", "indoubt"} => new[i].st \in {"pending", "indoubt"}
        /\ t[i].st \notin {"pending", "indoubt"} => new[i] = t[i]
  BY <1>2, <1>3
<1>5. new \in Seq(Entries) /\ Len(new) = Len(t)
  BY <1>4
<1> HIDE DEF new
<1> QED
  BY <1>1, <1>4, <1>5 DEF Doubted

-----------------------------------------------------------------------------
(* The leg records.                                                         *)

LEMMA CancelFacts ==
  ASSUME NEW l \in Legs, LegOK(l), NEW q \in Nat, l.filled + l.canceled + q <= Qty
  PROVE  LET r == omap_on_cancel(l, q)
         IN  /\ r \in Legs /\ LegOK(r) /\ r.accepted = l.accepted /\ r.filled = l.filled
             /\ r.canceled = l.canceled + q
<1>0. Qty \in Nat
  BY SizeAssumption
<1> DEFINE c == [l EXCEPT !.canceled = @ + q]
           r == [c EXCEPT !.live = @ /\ c.sent - c.filled - c.canceled > 0]
<1>1. /\ c \in Legs /\ c.sent = l.sent /\ c.filled = l.filled /\ c.canceled = l.canceled + q
      /\ c.live = l.live /\ c.accepted = l.accepted
  BY DEF Legs
<1> HIDE DEF c
<1>2. /\ r \in Legs /\ r.sent = c.sent /\ r.filled = c.filled /\ r.canceled = c.canceled
      /\ r.accepted = c.accepted
      /\ r.live <=> (c.live /\ c.sent - c.filled - c.canceled > 0)
  BY <1>1 DEF Legs
<1>3. omap_on_cancel(l, q) = r
  BY DEF omap_on_cancel, Closed, LegLeft, c
<1> HIDE DEF r
<1>4. l.filled \in Nat /\ l.canceled \in Nat /\ l.live \in BOOLEAN
  BY DEF Legs
<1> QED
  BY <1>0, <1>1, <1>2, <1>3, <1>4 DEF LegOK

LEMMA FillFacts ==
  ASSUME NEW l \in Legs, LegOK(l), NEW q \in Nat, l.filled + l.canceled + q <= Qty
  PROVE  LET r == omap_on_fill(l, q, q)
         IN  /\ r \in Legs /\ LegOK(r) /\ r.accepted = l.accepted /\ r.filled = l.filled + q
             /\ r.canceled = l.canceled
<1>0. Qty \in Nat
  BY SizeAssumption
<1> DEFINE a == l.filled + q
           b == l.notional + q
           c == [l EXCEPT !.filled = a, !.notional = b]
           r == [c EXCEPT !.live = @ /\ c.sent - c.filled - c.canceled > 0]
<1>5. a \in Nat /\ b \in Nat
  BY DEF Legs
<1> HIDE DEF a, b
<1>1. /\ c \in Legs /\ c.sent = l.sent /\ c.filled = a /\ c.canceled = l.canceled
      /\ c.live = l.live /\ c.accepted = l.accepted
  BY <1>5 DEF Legs
<1> HIDE DEF c
<1>2. /\ r \in Legs /\ r.sent = c.sent /\ r.filled = c.filled /\ r.canceled = c.canceled
      /\ r.accepted = c.accepted
      /\ r.live <=> (c.live /\ c.sent - c.filled - c.canceled > 0)
  BY <1>1 DEF Legs
<1>3. omap_on_fill(l, q, q) = r
  BY DEF omap_on_fill, Closed, LegLeft, c, a, b
<1> HIDE DEF r
<1>4. l.filled \in Nat /\ l.canceled \in Nat /\ l.live \in BOOLEAN
  BY DEF Legs
<1> QED
  BY <1>0, <1>1, <1>2, <1>3, <1>4 DEF LegOK, a

LEMMA NewLegFacts ==
  /\ NewLeg(Qty) \in Legs /\ LegOK(NewLeg(Qty)) /\ ~NewLeg(Qty).accepted
  /\ NewLeg(Qty).filled = 0 /\ NewLeg(Qty).canceled = 0
  /\ Refused \in Legs /\ LegOK(Refused) /\ ~Refused.accepted /\ ~Refused.live
<1> DEFINE n == NewLeg(Qty)
<1>0. Qty \in Nat \ {0}
  BY SizeAssumption
<1>1. n \in Legs /\ LegOK(n) /\ ~n.accepted /\ n.filled = 0 /\ n.canceled = 0
  BY <1>0 DEF NewLeg, Legs, LegOK
<1>2. Refused = omap_on_cancel(n, Qty)
  BY DEF Refused
<1> HIDE DEF n
<1>5. Qty \in Nat /\ n.filled + n.canceled + Qty <= Qty
  BY <1>0, <1>1
<1>3. /\ Refused \in Legs /\ LegOK(Refused) /\ Refused.accepted = n.accepted
      /\ Refused.filled = 0 /\ Refused.canceled = Qty
  BY <1>1, <1>2, <1>5, CancelFacts
<1>4. ~Refused.live
  BY <1>0, <1>3 DEF LegOK
<1> QED
  BY <1>1, <1>3, <1>4 DEF n

LEMMA AcceptedFacts ==
  ASSUME NEW x \in Answers, x.rests => x.qty < Qty
  PROVE  /\ Accepted(x) \in Legs /\ LegOK(Accepted(x)) /\ Accepted(x).accepted
         /\ Accepted(x).filled = x.qty
         /\ x.rests => Accepted(x).canceled = 0
<1>0. Qty \in Nat \ {0} /\ x.qty \in 0..Qty /\ x.rests \in BOOLEAN
  BY SizeAssumption DEF Answers
<1> DEFINE n == NewLeg(Qty)
           leg == omap_on_accept(n)
           traded == IF x.qty > 0 THEN omap_on_fill(leg, x.qty, x.qty) ELSE leg
<1>1. n \in Legs /\ LegOK(n) /\ n.filled = 0 /\ n.canceled = 0
  BY NewLegFacts
<1> HIDE DEF n
<1>2. leg \in Legs /\ LegOK(leg) /\ leg.filled = 0 /\ leg.canceled = 0 /\ leg.accepted
  BY <1>1 DEF omap_on_accept, Legs, LegOK
<1> HIDE DEF leg
<1>3. traded \in Legs /\ LegOK(traded) /\ traded.filled = x.qty /\ traded.canceled = 0 /\ traded.accepted
  BY <1>0, <1>2, FillFacts
<1>4. Accepted(x) = IF x.rests \/ LegLeft(traded) = 0 THEN traded
                    ELSE omap_on_cancel(traded, LegLeft(traded))
  BY DEF Accepted, leg, n
<1> HIDE DEF traded
<1>5. LegLeft(traded) = Qty - x.qty
  BY <1>0, <1>3 DEF LegOK, LegLeft
<1>6. CASE x.rests \/ LegLeft(traded) = 0
  BY <1>3, <1>4, <1>6
<1>7. CASE ~(x.rests \/ LegLeft(traded) = 0)
  <2> DEFINE q == Qty - x.qty
  <2>1. q \in Nat /\ traded.filled + traded.canceled + q <= Qty
    BY <1>0, <1>3
  <2>2. Accepted(x) = omap_on_cancel(traded, q)
    BY <1>4, <1>5, <1>7
  <2> HIDE DEF q
  <2> QED
    BY <1>3, <1>7, <2>1, <2>2, CancelFacts
<1> QED
  BY <1>6, <1>7

LEMMA PutFacts ==
  ASSUME NEW f, NEW k, NEW v
  PROVE  /\ DOMAIN Put(f, k, v) = DOMAIN f \cup {k} /\ Put(f, k, v)[k] = v
         /\ \A x \in DOMAIN f : x # k => Put(f, k, v)[x] = f[x]
         /\ Put(f, k, v) = [x \in DOMAIN Put(f, k, v) |-> Put(f, k, v)[x]]
  BY DEF Put

-----------------------------------------------------------------------------
(* The invariant.                                                           *)

Under(s) == {s[i] : i \in 1..Len(s)}

Types ==
  /\ lo \in [DOMAIN lo -> Legs] /\ \A o \in DOMAIN lo : LegOK(lo[o])
  /\ DOMAIN lo \subseteq Orders /\ \E n \in Nat : DOMAIN lo = 1..n
  /\ call \in Requests \cup {Idle}
  /\ up \in BOOLEAN /\ conn \in BOOLEAN
  /\ om \in Seq(Entries) /\ Len(om) <= MapSize
  /\ sent \in Seq(Requests) /\ Len(sent) <= QueueCap
  /\ replies \in Seq(Answers)
  /\ next \in Nat \ {0}
  /\ resting \in [DOMAIN resting -> Rests] /\ DOMAIN resting \subseteq 1..next - 1
  /\ taken \in [DOMAIN taken -> 0..Qty] /\ DOMAIN taken \subseteq DOMAIN lo
  /\ forgotten \subseteq DOMAIN lo
  /\ book \in [asked : Nat, lag : Int, late : Nat]

\* A leg that is live was accepted, or is the one waited for.
OrdersOK ==
  /\ \A o \in DOMAIN lo :
       /\ lo[o].accepted => o \in DOMAIN taken /\ lo[o].filled = taken[o]
       /\ lo[o].live /\ ~lo[o].accepted => call.kind = "leg" /\ call.ord = o
  /\ call.kind = "leg" => call.ord \in DOMAIN lo /\ ~lo[call.ord].accepted
  /\ call.kind = "cancel" => call.ord \in DOMAIN lo /\ lo[call.ord].accepted

\* A leg under way has not been matched, an answer to one tells what it traded;
\* only an accepted leg is cancelled, and once.
FramesOK ==
  /\ \A r \in Under(sent) :
       /\ r.kind = "leg" =>
            r.ord \in DOMAIN lo /\ r.ord \notin DOMAIN taken /\ ~lo[r.ord].accepted
       /\ r.kind = "cancel" => r.ord \in DOMAIN lo /\ lo[r.ord].accepted
  /\ \A x \in Under(replies) :
       /\ x.kind = "leg" =>
            /\ x.ord \in DOMAIN lo /\ ~lo[x.ord].accepted
            /\ x.ok => x.ord \in DOMAIN taken /\ x.qty = taken[x.ord] /\ (x.rests => x.qty < Qty)
       /\ x.kind = "cancel" /\ x.ok =>
            /\ x.ord \in DOMAIN lo /\ lo[x.ord].accepted /\ lo[x.ord].canceled = 0
            /\ x.qty <= Qty - taken[x.ord]

\* An order rests once, with no more than arrival left of it; it rests if the
\* answer to its leg says so and no answer to a cancel does.
RestsOK ==
  /\ \A id \in DOMAIN resting :
       /\ resting[id].cl \in DOMAIN taken /\ resting[id].qty <= Qty - taken[resting[id].cl]
       /\ lo[resting[id].cl].accepted => lo[resting[id].cl].canceled = 0
  /\ \A a, b \in DOMAIN resting : resting[a].cl = resting[b].cl => a = b
  /\ \A x \in Under(replies) : \A id \in DOMAIN resting : resting[id].cl = x.ord =>
       /\ x.kind = "leg" => x.ok /\ x.rests /\ x.id = id
       /\ ~(x.kind = "cancel" /\ x.ok)

\* The exchange's numbers on its book and on the line, and those the ledger knows
\* of, are of one life of the exchange.
Era == conn \/ sent # <<>>

Names(id, o) == id \in DOMAIN resting => resting[id].cl = o

NamesOK ==
  /\ \A r \in Under(sent) : r.kind = "cancel" => Names(r.id, r.ord) /\ r.id < next
  /\ \A x \in Under(replies) : x.kind = "leg" => Names(x.id, x.ord) /\ (Era => x.id < next)
  /\ \A e \in Under(om) : Names(e.exch, e.cl) /\ (Era => e.exch < next)

\* The table knows nothing of an order before its answer is read, and does not
\* lose one that rests.
Open(t, o)   == \A e \in Under(t) : e.cl = o => Unknown(e)
Listed(t, o) == \E e \in Under(t) : e.cl = o
Tracked(t, o, id) ==
  \E e \in Under(t) : e.cl = o /\ (e.st \in {"pending", "indoubt"} \/ (e.st = "live" /\ e.exch = id))

TableOK ==
  /\ \A e \in Under(om) : e.cl \in DOMAIN lo
  /\ \A r \in Under(sent) : r.kind = "leg" => Open(om, r.ord) /\ Listed(om, r.ord)
  /\ \A x \in Under(replies) : x.kind = "leg" => Open(om, x.ord)
  /\ \A id \in DOMAIN resting : resting[id].cl \in forgotten \/ Tracked(om, resting[id].cl, id)

\* a is ahead of b: each order's leg is on its way once, the queries are answered
\* in the order they were asked.
Apart(a, b) ==
  /\ a.kind = "leg" /\ b.kind = "leg" => a.ord # b.ord
  /\ a.kind = "book" /\ b.kind = "book" => a.id < b.id

\* A cancel succeeds once.
Distinct(a, b) == a.kind = "cancel" /\ b.kind = "cancel" /\ a.ok /\ b.ok => a.ord # b.ord

LineOK ==
  /\ \A i, j \in 1..Len(sent) : i < j => Apart(sent[i], sent[j])
  /\ \A i, j \in 1..Len(replies) : i < j => Apart(replies[i], replies[j]) /\ Distinct(replies[i], replies[j])
  /\ \A x \in Under(replies), r \in Under(sent) : Apart(x, r)

\* A query under way is behind by the ones that expired after it at most.
Recent(m) == m.kind = "book" =>
  /\ m.id <= book.asked
  /\ up => book.asked - m.id + 1 <= book.late + (IF call.kind = "book" THEN 1 ELSE 0)

BookOK ==
  /\ book.lag <= book.late
  /\ \A r \in Under(sent) : Recent(r)
  /\ \A x \in Under(replies) : Recent(x)

IInv == Types /\ OrdersOK /\ FramesOK /\ RestsOK /\ NamesOK /\ TableOK /\ LineOK /\ BookOK

-----------------------------------------------------------------------------
(* Frames and tables as sets.                                               *)

LEMMA UnderFacts ==
  ASSUME NEW X, NEW s \in Seq(X)
  PROVE  /\ Under(s) \subseteq X /\ \A i \in 1..Len(s) : s[i] \in Under(s)
         /\ s # <<>> => /\ Head(s) \in Under(s) /\ Under(Tail(s)) \subseteq Under(s)
                        /\ Tail(s) \in Seq(X) /\ Len(Tail(s)) = Len(s) - 1
         /\ \A x \in X : /\ Under(Append(s, x)) = Under(s) \cup {x}
                         /\ Append(s, x) \in Seq(X) /\ Len(Append(s, x)) = Len(s) + 1
<1>1. Under(s) \subseteq X /\ \A i \in 1..Len(s) : s[i] \in Under(s)
  BY DEF Under
<1>2. ASSUME s # <<>>
      PROVE  /\ Head(s) \in Under(s) /\ Under(Tail(s)) \subseteq Under(s)
             /\ Tail(s) \in Seq(X) /\ Len(Tail(s)) = Len(s) - 1
  <2>1. /\ Tail(s) \in Seq(X) /\ Len(Tail(s)) = Len(s) - 1 /\ Len(s) \in Nat \ {0}
        /\ Head(s) = s[1] /\ \A i \in 1..Len(s) - 1 : Tail(s)[i] = s[i + 1]
    BY <1>2
  <2>2. ASSUME NEW i \in 1..Len(s) - 1 PROVE Tail(s)[i] \in Under(s)
    <3>1. i + 1 \in 1..Len(s)
      BY <2>1
    <3> QED
      BY <2>1, <3>1, <1>1
  <2>3. Under(Tail(s)) \subseteq Under(s)
    BY <2>1, <2>2 DEF Under
  <2>4. Head(s) \in Under(s)
    BY <2>1, <1>1
  <2> QED
    BY <2>1, <2>3, <2>4
<1>3. ASSUME NEW x \in X
      PROVE  /\ Under(Append(s, x)) = Under(s) \cup {x}
             /\ Append(s, x) \in Seq(X) /\ Len(Append(s, x)) = Len(s) + 1
  <2> DEFINE a == Append(s, x)
  <2>1. /\ a \in Seq(X) /\ Len(a) = Len(s) + 1 /\ Len(s) \in Nat
        /\ a[Len(s) + 1] = x /\ \A i \in 1..Len(s) : a[i] = s[i]
    OBVIOUS
  <2> HIDE DEF a
  <2>2. Under(a) = {a[i] : i \in 1..Len(s)} \cup {a[Len(s) + 1]}
    <3>1. 1..Len(a) = 1..Len(s) \cup {Len(s) + 1}
      BY <2>1
    <3> QED
      BY <3>1 DEF Under
  <2>3. {a[i] : i \in 1..Len(s)} = Under(s)
    BY <2>1 DEF Under
  <2> QED
    BY <2>1, <2>2, <2>3 DEF a
<1> QED
  BY <1>1, <1>2, <1>3

LEMMA NothingUnder == Under(<<>>) = {}
  BY DEF Under

\* Only what the table holds of o has changed.
Follows(t, o, new) ==
  /\ new \in Seq(Entries) /\ Len(new) <= MapSize
  /\ \A e \in Under(new) : \E d \in Under(t) : e.cl = d.cl
  /\ \A c : c # o => (Open(t, c) => Open(new, c)) /\ (Listed(t, c) => Listed(new, c))
  /\ \A c, id : c # o /\ Tracked(t, c, id) => Tracked(new, c, id)

\* No entry of new has a number that t did not tie to its order, but id.
Numbered(t, o, id, new) ==
  \A e \in Under(new) :
    e.exch = 0 \/ (e.cl = o /\ e.exch = id) \/ \E d \in Under(t) : d.cl = e.cl /\ d.exch = e.exch

LEMMA MarkedFollows ==
  ASSUME NEW t \in Seq(Entries), Len(t) <= MapSize, NEW o, NEW new, Marked(t, o, new)
  PROVE  Follows(t, o, new)
<1>1. /\ new \in Seq(Entries) /\ Len(new) = Len(t)
      /\ \A i \in 1..Len(t) : new[i].cl = t[i].cl /\ (t[i].cl # o => new[i] = t[i])
  BY DEF Marked
<1>2. \A e \in Under(new) : \E d \in Under(t) : e.cl = d.cl /\ (e.cl # o => e = d)
  BY <1>1 DEF Under
<1>3. \A d \in Under(t) : d.cl # o => d \in Under(new)
  BY <1>1 DEF Under
<1>4. ASSUME NEW c, c # o
      PROVE  (Open(t, c) => Open(new, c)) /\ (Listed(t, c) => Listed(new, c))
  BY <1>2, <1>3, <1>4 DEF Open, Listed
<1>5. ASSUME NEW c, NEW id, c # o, Tracked(t, c, id) PROVE Tracked(new, c, id)
  BY <1>3, <1>5 DEF Tracked
<1>6. Len(new) <= MapSize
  BY <1>1
<1> QED
  BY <1>1, <1>2, <1>4, <1>5, <1>6 DEF Follows

LEMMA AckFollows ==
  ASSUME NEW t \in Seq(Entries), Len(t) <= MapSize, NEW o \in Nat, NEW id \in Nat, NEW ok \in BOOLEAN
  PROVE  LET new == ordmap_on_ack(t, o, id, ok)
         IN  /\ Follows(t, o, new) /\ Numbered(t, o, id, new)
             /\ ok /\ Open(t, o) /\ Listed(t, o) => Tracked(new, o, id)
<1> DEFINE new == ordmap_on_ack(t, o, id, ok)
<1>1. Acked(t, o, id, ok, new)
  BY AckFacts
<1> HIDE DEF new
<1>2. Marked(t, o, new)
  BY <1>1 DEF Acked
<1>3. Follows(t, o, new)
  BY <1>2, MarkedFollows
<1>4. Numbered(t, o, id, new)
  <2>1. ASSUME NEW i \in 1..Len(t)
        PROVE  \/ new[i].exch = 0 \/ (new[i].cl = o /\ new[i].exch = id)
               \/ t[i].cl = new[i].cl /\ t[i].exch = new[i].exch
    BY <1>1, <1>2 DEF Acked, Marked
  <2>2. Len(new) = Len(t)
    BY <1>2 DEF Marked
  <2> QED
    BY <2>1, <2>2 DEF Numbered, Under
<1>5. ASSUME ok, Open(t, o), Listed(t, o) PROVE Tracked(new, o, id)
  <2>1. PICK i \in 1..Len(t) : t[i].cl = o
    BY <1>5 DEF Listed, Under
  <2>2. \A k \in 1..Len(t) : t[k].cl = o => Unknown(t[k])
    BY <1>5 DEF Open, Under
  <2>3. new[i].st = "live" /\ new[i].exch = id /\ new[i].cl = o /\ i \in 1..Len(new)
    BY <1>1, <1>2, <1>5, <2>1, <2>2 DEF Acked, Marked
  <2> QED
    BY <2>3 DEF Tracked, Under
<1> QED
  BY <1>3, <1>4, <1>5 DEF new

LEMMA CloseFollows ==
  ASSUME NEW t \in Seq(Entries), Len(t) <= MapSize, NEW o \in Nat
  PROVE  Follows(t, o, ordmap_close(t, o)) /\ Numbered(t, o, 0, ordmap_close(t, o))
<1> DEFINE new == ordmap_close(t, o)
<1>1. Marked(t, o, new) /\ \A i \in 1..Len(t) : new[i].exch = t[i].exch
  BY CloseFacts
<1> HIDE DEF new
<1>2. Follows(t, o, new)
  BY <1>1, MarkedFollows
<1>3. Numbered(t, o, 0, new)
  BY <1>1 DEF Numbered, Under, Marked
<1> QED
  BY <1>2, <1>3 DEF new

LEMMA DisconnectFollows ==
  ASSUME NEW t \in Seq(Entries), Len(t) <= MapSize, NEW o
  PROVE  Follows(t, o, ordmap_on_disconnect(t)) /\ Numbered(t, o, 0, ordmap_on_disconnect(t))
<1> DEFINE new == ordmap_on_disconnect(t)
<1>1. Doubted(t, new)
  BY DisconnectFacts
<1> HIDE DEF new
<1>2. \A e \in Under(new) : \E d \in Under(t) :
        d.cl = e.cl /\ d.exch = e.exch /\ (Unknown(d) => Unknown(e))
  BY <1>1 DEF Doubted, Under, Unknown
<1>3. \A d \in Under(t) : \E e \in Under(new) :
        /\ d.cl = e.cl /\ d.exch = e.exch
        /\ d.st \in {"pending", "indoubt"} => e.st \in {"pending", "indoubt"}
        /\ d.st = "live" => e.st = "live"
  BY <1>1 DEF Doubted, Under
<1>4. ASSUME NEW c
      PROVE  (Open(t, c) => Open(new, c)) /\ (Listed(t, c) => Listed(new, c))
  BY <1>2, <1>3 DEF Open, Listed
<1>5. ASSUME NEW c, NEW id, Tracked(t, c, id) PROVE Tracked(new, c, id)
  BY <1>3, <1>5 DEF Tracked
<1>6. new \in Seq(Entries) /\ Len(new) <= MapSize
  BY <1>1 DEF Doubted
<1>7. Follows(t, o, new)
  BY <1>2, <1>4, <1>5, <1>6 DEF Follows
<1>8. Numbered(t, o, 0, new)
  BY <1>2 DEF Numbered
<1> QED
  BY <1>7, <1>8 DEF new

\* An order that is new to the table.
Inserted(t, o, new) ==
  /\ new \in Seq(Entries) /\ Len(new) <= MapSize
  /\ \A e \in Under(new) : (e.cl = o /\ Unknown(e)) \/ e \in Under(t)
  /\ \A c : Open(t, c) => Open(new, c) /\ (Listed(t, c) => Listed(new, c))
  /\ \A c, id : Tracked(t, c, id) => Tracked(new, c, id)
  /\ Listed(new, o)

LEMMA AddInserts ==
  ASSUME NEW t \in Seq(Entries), Len(t) <= MapSize, HasRoom(t), NEW o \in Nat
  PROVE  Inserted(t, o, ordmap_add(t, o))
<1> DEFINE new == ordmap_add(t, o)
           e0 == Entry(o, "pending", 0)
<1>0. e0.cl = o /\ e0.exch = 0 /\ Unknown(e0)
  BY DEF Entry, Unknown
<1>1. Added(t, o, new)
  BY AddFacts
<1> HIDE DEF new, e0
<1>2. new \in Seq(Entries) /\ Len(new) <= MapSize
  BY <1>1 DEF Added
<1>3. \A e \in Under(new) : e = e0 \/ e \in Under(t)
  BY <1>1 DEF Added, Under, e0
<1>4. \A d \in Under(t) : d.st # "done" => d \in Under(new)
  BY <1>1 DEF Added, Under
<1>5. e0 \in Under(new)
  BY <1>1 DEF Added, Under, e0
<1>6. ASSUME NEW c, Open(t, c) PROVE Open(new, c) /\ (Listed(t, c) => Listed(new, c))
  <2>1. \A d \in Under(t) : d.cl = c => d.st # "done"
    BY <1>6 DEF Open, Unknown
  <2>2. Listed(t, c) => Listed(new, c)
    BY <1>4, <2>1 DEF Listed
  <2>3. Open(new, c)
    BY <1>0, <1>3, <1>6 DEF Open
  <2> QED
    BY <2>2, <2>3
<1>7. ASSUME NEW c, NEW id, Tracked(t, c, id) PROVE Tracked(new, c, id)
  BY <1>4, <1>7 DEF Tracked
<1>8. Listed(new, o)
  BY <1>0, <1>5 DEF Listed
<1> QED
  BY <1>0, <1>2, <1>3, <1>6, <1>7, <1>8 DEF Inserted, new

-----------------------------------------------------------------------------
(* What a step does to the line.                                            *)

\* The connection takes one more request, or is gone.
Asked(r) ==
  /\ sent' \in Seq(Requests) /\ Len(sent') <= QueueCap
  /\ \/ sent' = sent
     \/ conn /\ Under(sent') = Under(sent) \cup {r}
  /\ LineOK'

LEMMA SendLine ==
  ASSUME Types, LineOK, NEW r \in Requests, session_send(r), Len(sent) < QueueCap,
         UNCHANGED <<conn, replies>>,
         \A y \in Under(sent) \cup Under(replies) : Apart(y, r)
  PROVE  Asked(r)
<1>0. sent \in Seq(Requests) /\ QueueCap \in Nat /\ Len(sent) \in Nat
  BY SizeAssumption DEF Types
<1>1. CASE ~conn
  <2>1. sent' = sent /\ replies' = replies
    BY <1>1 DEF session_send
  <2>2. LineOK'
    BY <2>1 DEF LineOK, Under
  <2> QED
    BY <1>0, <2>1, <2>2 DEF Asked
<1>2. CASE conn
  <2>1. sent' = Append(sent, r) /\ replies' = replies
    BY <1>2 DEF session_send
  <2>2. /\ sent' \in Seq(Requests) /\ Len(sent') = Len(sent) + 1
        /\ Under(sent') = Under(sent) \cup {r}
    BY <1>0, <2>1, UnderFacts
  <2>3. sent'[Len(sent) + 1] = r /\ \A i \in 1..Len(sent) : sent'[i] = sent[i]
    BY <1>0, <2>1
  <2>4. ASSUME NEW i \in 1..Len(sent'), NEW j \in 1..Len(sent'), i < j
        PROVE  Apart(sent'[i], sent'[j])
    <3>1. i \in 1..Len(sent)
      BY <1>0, <2>2, <2>4
    <3>2. CASE j \in 1..Len(sent)
      BY <2>3, <2>4, <3>1, <3>2 DEF LineOK
    <3>3. CASE j = Len(sent) + 1
      <4>1. sent[i] \in Under(sent)
        BY <3>1 DEF Under
      <4> QED
        BY <2>3, <3>1, <3>3, <4>1
    <3> QED
      BY <1>0, <2>2, <3>2, <3>3
  <2>5. \A x \in Under(replies), y \in Under(sent') : Apart(x, y)
    BY <2>2 DEF LineOK
  <2>6. LineOK'
    BY <2>1, <2>4, <2>5 DEF LineOK, Under
  <2> QED
    BY <1>0, <1>2, <2>2, <2>6 DEF Asked
<1> QED
  BY <1>1, <1>2

\* The exchange has read the first request, and answered it.
Served(x) ==
  /\ sent' \in Seq(Requests) /\ Len(sent') <= QueueCap /\ Under(sent') \subseteq Under(sent)
  /\ Head(sent) \in Under(sent) /\ Head(sent) \in Requests
  /\ \A r \in Under(sent') : Apart(Head(sent), r)
  /\ \A y \in Under(replies) : Apart(y, Head(sent))
  /\ replies' \in Seq(Answers)
  /\ \/ replies' = replies
     \/ conn /\ Under(replies') = Under(replies) \cup {x}
  /\ LineOK'

LEMMA ServeLine ==
  ASSUME Types, LineOK, sent # <<>>, sent' = Tail(sent), NEW x \in Answers, Reply(x),
         UNCHANGED conn,
         x.kind = Head(sent).kind, x.kind = "leg" => x.ord = Head(sent).ord,
         x.kind = "book" => x.id = Head(sent).id,
         \A y \in Under(replies) : Distinct(y, x)
  PROVE  Served(x)
<1> DEFINE r == Head(sent)
<1>0. /\ sent \in Seq(Requests) /\ replies \in Seq(Answers)
      /\ Len(sent) \in Nat \ {0} /\ Len(replies) \in Nat /\ QueueCap \in Nat /\ Len(sent) <= QueueCap
  BY SizeAssumption DEF Types
<1>1. /\ r = sent[1] /\ Len(sent') = Len(sent) - 1
      /\ \A i \in 1..Len(sent') : sent'[i] = sent[i + 1]
  BY <1>0
<1>2. sent' \in Seq(Requests) /\ Under(sent') \subseteq Under(sent) /\ r \in Under(sent) /\ r \in Requests
  BY <1>0, UnderFacts
<1> HIDE DEF r
<1>3. \A y \in Under(sent') : Apart(r, y)
  <2>1. ASSUME NEW i \in 1..Len(sent') PROVE Apart(r, sent'[i])
    <3>1. i + 1 \in 1..Len(sent) /\ 1 \in 1..Len(sent) /\ 1 < i + 1
      BY <1>0, <1>1
    <3>2. Apart(sent[1], sent[i + 1])
      BY <3>1 DEF LineOK
    <3> QED
      BY <1>1, <3>2
  <2> QED
    BY <2>1 DEF Under
<1>4. \A y \in Under(replies) : Apart(y, r)
  BY <1>2 DEF LineOK
<1>5. ASSUME NEW i \in 1..Len(sent'), NEW j \in 1..Len(sent'), i < j
      PROVE  Apart(sent'[i], sent'[j])
  <2>1. i + 1 \in 1..Len(sent) /\ j + 1 \in 1..Len(sent) /\ i + 1 < j + 1
    BY <1>0, <1>1, <1>5
  <2>2. Apart(sent[i + 1], sent[j + 1])
    BY <2>1 DEF LineOK
  <2> QED
    BY <1>1, <2>2
<1>6. CASE ~conn
  <2>1. replies' = replies
    BY <1>6 DEF Reply
  <2>2. LineOK'
    BY <1>2, <1>5, <2>1 DEF LineOK, Under
  <2> QED
    BY <1>0, <1>1, <1>2, <1>3, <1>4, <2>1, <2>2 DEF Served, r
<1>7. CASE conn
  <2>1. replies' = Append(replies, x)
    BY <1>7 DEF Reply
  <2>2. /\ replies' \in Seq(Answers) /\ Len(replies') = Len(replies) + 1
        /\ Under(replies') = Under(replies) \cup {x}
    BY <1>0, <2>1, UnderFacts
  <2>3. replies'[Len(replies) + 1] = x /\ \A i \in 1..Len(replies) : replies'[i] = replies[i]
    BY <1>0, <2>1
  <2>4. ASSUME NEW i \in 1..Len(replies'), NEW j \in 1..Len(replies'), i < j
        PROVE  Apart(replies'[i], replies'[j]) /\ Distinct(replies'[i], replies'[j])
    <3>1. i \in 1..Len(replies)
      BY <1>0, <2>2, <2>4
    <3>2. CASE j \in 1..Len(replies)
      BY <2>3, <2>4, <3>1, <3>2 DEF LineOK
    <3>3. CASE j = Len(replies) + 1
      <4>1. replies[i] \in Under(replies)
        BY <3>1 DEF Under
      <4>2. Apart(replies[i], x) /\ Distinct(replies[i], x)
        BY <1>4, <4>1 DEF Apart, r
      <4> QED
        BY <2>3, <3>1, <3>3, <4>2
    <3> QED
      BY <1>0, <2>2, <3>2, <3>3
  <2>5. ASSUME NEW y \in Under(sent') PROVE Apart(x, y)
    BY <1>3, <2>5 DEF Apart, r
  <2>6. \A y \in Under(replies'), z \in Under(sent') : Apart(y, z)
    BY <1>2, <2>2, <2>5 DEF LineOK
  <2>7. LineOK'
    BY <1>5, <2>4, <2>6 DEF LineOK, Under
  <2> QED
    BY <1>0, <1>1, <1>2, <1>3, <1>4, <1>7, <2>2, <2>7 DEF Served, r
<1> QED
  BY <1>6, <1>7

\* The ledger has read the first answer.
Read ==
  /\ replies' \in Seq(Answers) /\ Under(replies') \subseteq Under(replies)
  /\ Head(replies) \in Under(replies) /\ Head(replies) \in Answers
  /\ \A y \in Under(replies') : Apart(Head(replies), y) /\ Distinct(Head(replies), y)
  /\ \A r \in Under(sent) : Apart(Head(replies), r)
  /\ LineOK'

LEMMA ReadLine ==
  ASSUME Types, LineOK, replies # <<>>, replies' = Tail(replies), UNCHANGED sent
  PROVE  Read
<1> DEFINE x == Head(replies)
<1>0. replies \in Seq(Answers) /\ Len(replies) \in Nat \ {0}
  BY DEF Types
<1>1. /\ x = replies[1] /\ Len(replies') = Len(replies) - 1
      /\ \A i \in 1..Len(replies') : replies'[i] = replies[i + 1]
  BY <1>0
<1>2. /\ replies' \in Seq(Answers) /\ Under(replies') \subseteq Under(replies)
      /\ x \in Under(replies) /\ x \in Answers
  BY <1>0, UnderFacts
<1> HIDE DEF x
<1>3. \A y \in Under(replies') : Apart(x, y) /\ Distinct(x, y)
  <2>1. ASSUME NEW i \in 1..Len(replies') PROVE Apart(x, replies'[i]) /\ Distinct(x, replies'[i])
    <3>1. i + 1 \in 1..Len(replies) /\ 1 \in 1..Len(replies) /\ 1 < i + 1
      BY <1>0, <1>1
    <3>2. Apart(replies[1], replies[i + 1]) /\ Distinct(replies[1], replies[i + 1])
      BY <3>1 DEF LineOK
    <3> QED
      BY <1>1, <3>2
  <2> QED
    BY <2>1 DEF Under
<1>4. ASSUME NEW i \in 1..Len(replies'), NEW j \in 1..Len(replies'), i < j
      PROVE  Apart(replies'[i], replies'[j]) /\ Distinct(replies'[i], replies'[j])
  <2>1. i + 1 \in 1..Len(replies) /\ j + 1 \in 1..Len(replies) /\ i + 1 < j + 1
    BY <1>0, <1>1, <1>4
  <2>2. Apart(replies[i + 1], replies[j + 1]) /\ Distinct(replies[i + 1], replies[j + 1])
    BY <2>1 DEF LineOK
  <2> QED
    BY <1>1, <2>2
<1>5. LineOK'
  BY <1>2, <1>4 DEF LineOK, Under
<1>6. \A r \in Under(sent) : Apart(x, r)
  BY <1>2 DEF LineOK
<1> QED
  BY <1>2, <1>3, <1>5, <1>6 DEF Read, x

\* The record of one more order.
Recorded(o, leg) ==
  /\ o \in Nat \ {0} /\ o \notin DOMAIN lo
  /\ DOMAIN lo' = DOMAIN lo \cup {o} /\ lo'[o] = leg
  /\ \A p \in DOMAIN lo : lo'[p] = lo[p]
  /\ lo' \in [DOMAIN lo' -> Legs] /\ \A p \in DOMAIN lo' : LegOK(lo'[p])
  /\ DOMAIN lo' \subseteq Orders /\ \E n \in Nat : DOMAIN lo' = 1..n

LEMMA RecordFacts ==
  ASSUME Types, NEW o \in Orders, o = Cardinality(DOMAIN lo) + 1,
         NEW leg \in Legs, LegOK(leg), Record(o, leg)
  PROVE  Recorded(o, leg)
<1>1. PICK n \in Nat : DOMAIN lo = 1..n
  BY DEF Types
<1>2. o = n + 1
  <2>1. Cardinality(1..n) = n
    BY <1>1, FS_Interval
  <2> QED
    BY <1>1, <2>1
<1>3. o \in Nat \ {0} /\ o \notin DOMAIN lo /\ DOMAIN lo \cup {o} = 1..n + 1
  BY <1>1, <1>2
<1>4. /\ DOMAIN lo' = DOMAIN lo \cup {o} /\ lo'[o] = leg
      /\ \A p \in DOMAIN lo : p # o => lo'[p] = lo[p]
      /\ lo' = [p \in DOMAIN lo' |-> lo'[p]]
  BY DEF Record, Put
<1>5. \A p \in DOMAIN lo : lo'[p] = lo[p] /\ lo[p] \in Legs /\ LegOK(lo[p])
  BY <1>3, <1>4 DEF Types
<1>6. lo' \in [DOMAIN lo' -> Legs] /\ \A p \in DOMAIN lo' : LegOK(lo'[p])
  BY <1>4, <1>5
<1>7. DOMAIN lo' \subseteq Orders
  BY <1>4 DEF Types
<1>8. \E m \in Nat : DOMAIN lo' = 1..m
  BY <1>1, <1>3, <1>4
<1> QED
  BY <1>3, <1>4, <1>5, <1>6, <1>7, <1>8 DEF Recorded

-----------------------------------------------------------------------------
(* The steps.                                                               *)

LEMMA TypeFacts ==
  ASSUME Types
  PROVE  /\ next \in Nat \ {0} /\ 0 \notin DOMAIN resting
         /\ \A id \in DOMAIN resting : id \in Nat \ {0} /\ id < next /\ resting[id] \in Rests
                                       /\ resting[id].cl \in Nat /\ resting[id].qty \in 1..Qty
         /\ \A r \in Under(sent) : r \in Requests /\ r.kind \in Kinds /\ r.ord \in Nat /\ r.id \in Nat
         /\ \A x \in Under(replies) : /\ x \in Answers /\ x.kind \in Kinds /\ x.ord \in Nat /\ x.id \in Nat
                                      /\ x.ok \in BOOLEAN /\ x.qty \in 0..Qty /\ x.rests \in BOOLEAN
         /\ \A e \in Under(om) : e \in Entries /\ e.cl \in Nat /\ e.exch \in Nat
         /\ \A o \in DOMAIN lo : /\ lo[o] \in Legs /\ LegOK(lo[o]) /\ o \in Nat \ {0}
                                 /\ lo[o].filled \in Nat /\ lo[o].canceled \in Nat
                                 /\ lo[o].live \in BOOLEAN /\ lo[o].accepted \in BOOLEAN
         /\ \A o \in DOMAIN taken : o \in DOMAIN lo /\ taken[o] \in 0..Qty
<1>1. /\ next \in Nat \ {0} /\ DOMAIN resting \subseteq 1..next - 1
      /\ resting \in [DOMAIN resting -> Rests] /\ taken \in [DOMAIN taken -> 0..Qty]
      /\ DOMAIN taken \subseteq DOMAIN lo /\ lo \in [DOMAIN lo -> Legs]
      /\ \A o \in DOMAIN lo : LegOK(lo[o])
      /\ \E n \in Nat : DOMAIN lo = 1..n
      /\ sent \in Seq(Requests) /\ replies \in Seq(Answers) /\ om \in Seq(Entries)
  BY DEF Types
<1>2. \A m \in Rests : m.cl \in Nat /\ m.qty \in 1..Qty
  BY DEF Rests
<1>3. \A r \in Requests : r.kind \in Kinds /\ r.ord \in Nat /\ r.id \in Nat
  BY DEF Requests
<1>4. \A x \in Answers : /\ x.kind \in Kinds /\ x.ord \in Nat /\ x.id \in Nat
                         /\ x.ok \in BOOLEAN /\ x.qty \in 0..Qty /\ x.rests \in BOOLEAN
  BY DEF Answers
<1>5. \A e \in Entries : e.cl \in Nat /\ e.exch \in Nat
  BY DEF Entries
<1>6. \A l \in Legs : l.filled \in Nat /\ l.canceled \in Nat /\ l.live \in BOOLEAN /\ l.accepted \in BOOLEAN
  BY DEF Legs
<1>7. \A id \in DOMAIN resting : id \in Nat \ {0} /\ id < next /\ resting[id] \in Rests
  BY <1>1
<1>8. \A o \in DOMAIN lo : lo[o] \in Legs /\ o \in Nat \ {0}
  BY <1>1
<1>9. /\ Under(sent) \subseteq Requests /\ Under(replies) \subseteq Answers /\ Under(om) \subseteq Entries
  BY <1>1 DEF Under
<1>10. \A o \in DOMAIN taken : o \in DOMAIN lo /\ taken[o] \in 0..Qty
  BY <1>1
<1>11. next \in Nat \ {0} /\ 0 \notin DOMAIN resting
  BY <1>1, <1>7
<1> HIDE DEF Types
<1> QED
  BY <1>1, <1>2, <1>3, <1>4, <1>5, <1>6, <1>7, <1>8, <1>9, <1>10, <1>11

LEMMA InitOK == Init => IInv
<1> SUFFICES ASSUME Init PROVE IInv
  OBVIOUS
<1>0. MapSize \in Nat \ {0} /\ Qty \in Nat \ {0} /\ QueueCap \in Nat \ {0}
  BY MapAssumption, SizeAssumption
<1>1. Under(<<>>) = {} /\ Len(<<>>) = 0 /\ DOMAIN <<>> = {} /\ 1..0 = {}
  BY NothingUnder
<1>2. Types
  <2>1. \E n \in Nat : DOMAIN lo = 1..n
    BY <1>1 DEF Init
  <2>2. /\ lo \in [DOMAIN lo -> Legs] /\ resting \in [DOMAIN resting -> Rests]
        /\ taken \in [DOMAIN taken -> 0..Qty]
    BY <1>1 DEF Init
  <2>3. /\ om \in Seq(Entries) /\ Len(om) <= MapSize
        /\ sent \in Seq(Requests) /\ Len(sent) <= QueueCap /\ replies \in Seq(Answers)
    BY <1>0, <1>1 DEF Init
  <2> QED
    BY <1>1, <2>1, <2>2, <2>3 DEF Init, Types
<1>3. OrdersOK /\ FramesOK /\ RestsOK /\ NamesOK /\ TableOK /\ BookOK
  BY <1>1 DEF Init, OrdersOK, FramesOK, RestsOK, NamesOK, TableOK, BookOK, Idle
<1>4. LineOK
  BY <1>1 DEF Init, LineOK
<1> QED
  BY <1>2, <1>3, <1>4 DEF IInv

LEMMA SendStep ==
  ASSUME IInv, NEW o \in Orders, send_remote(o)
  PROVE  IInv'
<1> DEFINE r == Ask("leg", o, 0)
<1>0. Types /\ OrdersOK /\ FramesOK /\ RestsOK /\ NamesOK /\ TableOK /\ LineOK /\ BookOK
  BY DEF IInv
<1>1. /\ UNCHANGED <<resting, next, taken, up, conn, replies, forgotten, book>> /\ call = Idle
      /\ o = Cardinality(DOMAIN lo) + 1
  BY DEF send_remote, exchange
<1> DEFINE Sends(leg) ==
             /\ Record(o, leg)
             /\ om' = om \/ (HasRoom(om) /\ om' = ordmap_add(om, o))
             /\ \/ leg = Refused /\ UNCHANGED <<call, sent>>
                \/ /\ HasRoom(om) /\ om' = ordmap_add(om, o)
                   /\ Len(sent) < QueueCap /\ session_send(r) /\ call' = r
<1>2. PICK leg \in {Refused, NewLeg(Qty)} : Sends(leg)
  <2>1. Sends(Refused) \/ Sends(NewLeg(Qty))
    BY DEF send_remote, Wait
  <2> QED
    BY <2>1
<1>3. leg \in Legs /\ LegOK(leg) /\ ~leg.accepted /\ ~Refused.live
  BY NewLegFacts
<1>4. Recorded(o, leg)
  BY <1>0, <1>1, <1>2, <1>3, RecordFacts
<1>5. /\ next \in Nat \ {0} /\ 0 \notin DOMAIN resting
      /\ \A id \in DOMAIN resting : resting[id].cl \in DOMAIN lo
      /\ DOMAIN taken \subseteq DOMAIN lo /\ o \notin DOMAIN taken
  BY <1>0, <1>4, TypeFacts DEF RestsOK, Recorded
<1>6. om' = om \/ Inserted(om, o, om')
  <2>1. om \in Seq(Entries) /\ Len(om) <= MapSize /\ o \in Nat
    BY <1>0, <1>4 DEF Types, Recorded
  <2> QED
    BY <1>2, <2>1, AddInserts
<1>7. r \in Requests /\ r.kind = "leg" /\ r.ord = o
  BY <1>4 DEF Ask, Requests, Kinds, Recorded
<1>8. \/ leg = Refused /\ UNCHANGED <<call, sent>> /\ LineOK'
      \/ Asked(r) /\ call' = r /\ Inserted(om, o, om')
  <2>1. CASE leg = Refused /\ UNCHANGED <<call, sent>>
    <3>1. UNCHANGED <<sent, replies>>
      BY <1>1, <2>1
    <3>2. LineOK'
      BY <1>0, <3>1 DEF LineOK, Under
    <3> QED
      BY <2>1, <3>2
  <2>2. CASE /\ HasRoom(om) /\ om' = ordmap_add(om, o)
             /\ Len(sent) < QueueCap /\ session_send(r) /\ call' = r
    <3>1. Inserted(om, o, om')
      <4>1. om \in Seq(Entries) /\ Len(om) <= MapSize /\ o \in Nat
        BY <1>0, <1>4 DEF Types, Recorded
      <4> QED
        BY <2>2, <4>1, AddInserts
    <3>2. \A y \in Under(sent) \cup Under(replies) : Apart(y, r)
      BY <1>0, <1>4, <1>7 DEF FramesOK, Recorded, Apart
    <3>3. Asked(r)
      BY <1>0, <1>1, <1>7, <2>2, <3>2, SendLine
    <3> QED
      BY <2>2, <3>1, <3>3
  <2> QED
    BY <1>2, <2>1, <2>2
<1> HIDE DEF r
<1>18. LineOK'
  BY <1>8 DEF Asked
<1>9. \A y \in Under(sent') : y \in Under(sent) \/ (y = r /\ call' = r /\ Inserted(om, o, om'))
  <2>1. sent' = sent \/ (Asked(r) /\ call' = r /\ Inserted(om, o, om'))
    BY <1>8
  <2>2. Asked(r) => sent' = sent \/ Under(sent') = Under(sent) \cup {r}
    BY DEF Asked
  <2> QED
    BY <2>1, <2>2
<1>10. /\ om' \in Seq(Entries) /\ Len(om') <= MapSize
       /\ sent' \in Seq(Requests) /\ Len(sent') <= QueueCap /\ call' \in Requests \cup {Idle}
  BY <1>0, <1>1, <1>6, <1>7, <1>8 DEF Types, Asked, Inserted
<1>11. Types'
  <2>1. forgotten' \subseteq DOMAIN lo' /\ DOMAIN taken' \subseteq DOMAIN lo'
    BY <1>0, <1>1, <1>4 DEF Types, Recorded
  <2>2. /\ lo' \in [DOMAIN lo' -> Legs] /\ \A p \in DOMAIN lo' : LegOK(lo'[p])
        /\ DOMAIN lo' \subseteq Orders /\ \E n \in Nat : DOMAIN lo' = 1..n
    BY <1>4 DEF Recorded
  <2> QED
    BY <1>0, <1>1, <1>10, <2>1, <2>2 DEF Types
<1>12. OrdersOK'
  <2>1. call'.kind = "leg" => call'.ord = o
    BY <1>1, <1>7, <1>8 DEF Idle
  <2>2. call'.kind # "cancel"
    BY <1>1, <1>7, <1>8 DEF Idle
  <2>3. leg.live => call'.kind = "leg" /\ call'.ord = o
    BY <1>3, <1>7, <1>8
  <2>4. \A p \in DOMAIN lo : ~(lo[p].live /\ ~lo[p].accepted)
    BY <1>0, <1>1 DEF OrdersOK, Idle
  <2>5. /\ DOMAIN lo' = DOMAIN lo \cup {o} /\ o \notin DOMAIN lo /\ ~lo'[o].accepted
        /\ lo'[o].live => call'.kind = "leg" /\ call'.ord = o
        /\ \A p \in DOMAIN lo : lo'[p] = lo[p]
    BY <1>3, <1>4, <2>3 DEF Recorded
  <2>6. UNCHANGED taken
    BY <1>1
  <2> QED
    BY <1>0, <2>1, <2>2, <2>4, <2>5, <2>6 DEF OrdersOK
<1>13. FramesOK'
  <2>1. \A y \in Under(sent') :
          /\ y.kind = "leg" => y.ord \in DOMAIN lo' /\ y.ord \notin DOMAIN taken' /\ ~lo'[y.ord].accepted
          /\ y.kind = "cancel" => y.ord \in DOMAIN lo' /\ lo'[y.ord].accepted
    BY <1>0, <1>1, <1>3, <1>4, <1>5, <1>7, <1>9 DEF FramesOK, Recorded
  <2> QED
    BY <1>0, <1>1, <1>4, <2>1 DEF FramesOK, Recorded
<1>14. RestsOK'
  BY <1>0, <1>1, <1>4, <1>5 DEF RestsOK, Recorded
<1>15. NamesOK'
  <2>1. Era' => Era
    BY <1>1, <1>8 DEF Era, Asked
  <2>2. \A e \in Under(om') : (e.cl = o /\ e.exch = 0) \/ e \in Under(om)
    BY <1>6 DEF Inserted, Unknown
  <2>3. \A y \in Under(sent') : y.kind = "cancel" => y \in Under(sent)
    BY <1>7, <1>9
  <2> QED
    BY <1>0, <1>1, <1>5, <2>1, <2>2, <2>3 DEF NamesOK, Names
<1>16. TableOK'
  <2>1. \A e \in Under(om') : e.cl \in DOMAIN lo'
    BY <1>0, <1>4, <1>6 DEF Inserted, TableOK, Recorded
  <2>2. \A c : Open(om, c) => Open(om', c) /\ (Listed(om, c) => Listed(om', c))
    BY <1>6 DEF Inserted
  <2>3. \A c, id : Tracked(om, c, id) => Tracked(om', c, id)
    BY <1>6 DEF Inserted
  <2>4. Inserted(om, o, om') => Open(om', o) /\ Listed(om', o)
    BY <1>0, <1>4 DEF Inserted, TableOK, Recorded, Open
  <2>5. \A y \in Under(sent') : y.kind = "leg" => Open(om', y.ord) /\ Listed(om', y.ord)
    <3> HIDE DEF r
    <3> QED
      BY <1>0, <1>7, <1>9, <2>2, <2>4 DEF TableOK
  <2> QED
    BY <1>0, <1>1, <2>1, <2>2, <2>3, <2>5 DEF TableOK
<1>17. BookOK'
  <2>1. call'.kind # "book" /\ call.kind # "book"
    BY <1>1, <1>7, <1>8 DEF Idle
  <2>2. \A y \in Under(sent') : y.kind = "book" => y \in Under(sent)
    BY <1>7, <1>9
  <2> QED
    BY <1>0, <1>1, <2>1, <2>2 DEF BookOK, Recent
<1> QED
  BY <1>11, <1>12, <1>13, <1>14, <1>15, <1>16, <1>17, <1>18 DEF IInv

LEMMA CancelStep ==
  ASSUME IInv, NEW o \in Orders, cancel_remote(o)
  PROVE  IInv'
<1>0. Types /\ OrdersOK /\ FramesOK /\ RestsOK /\ NamesOK /\ TableOK /\ LineOK /\ BookOK
  BY DEF IInv
<1>1. /\ UNCHANGED <<lo, up, om, forgotten, book, resting, next, taken, conn, replies>>
      /\ call = Idle /\ o \in DOMAIN lo /\ lo[o].live /\ Len(sent) < QueueCap
  BY DEF cancel_remote, exchange
<1>2. PICK id \in ordmap_cancel_key(om, o) :
        session_send(Ask("cancel", o, id)) /\ call' = Ask("cancel", o, id)
  BY DEF cancel_remote, Wait
<1>3. id \in Nat /\ Names(id, o) /\ (Era => id < next)
  <2>1. PICK i \in DOMAIN om : om[i].cl = o /\ om[i].exch = id
    BY DEF ordmap_cancel_key, find_cl
  <2>2. om[i] \in Under(om)
    <3>1. om \in Seq(Entries)
      BY <1>0 DEF Types
    <3> QED
      BY <2>1, <3>1, UnderFacts
  <2> QED
    BY <1>0, <2>1, <2>2, TypeFacts DEF NamesOK
<1>4. lo[o].accepted
  BY <1>0, <1>1 DEF OrdersOK, Idle
<1> DEFINE r == Ask("cancel", o, id)
<1>5. r \in Requests /\ r.kind = "cancel" /\ r.ord = o /\ r.id = id
  BY <1>3 DEF Ask, Requests, Kinds, Orders
<1>6. call' = r /\ session_send(r)
  BY <1>2
<1> HIDE DEF r
<1>7. Asked(r)
  <2>1. \A y \in Under(sent) \cup Under(replies) : Apart(y, r)
    BY <1>5 DEF Apart
  <2> QED
    BY <1>0, <1>1, <1>5, <1>6, <2>1, SendLine
<1>8. \A y \in Under(sent') : y \in Under(sent) \/ (y = r /\ conn)
  <2>1. sent' = sent \/ (conn /\ Under(sent') = Under(sent) \cup {r})
    BY <1>7 DEF Asked
  <2> QED
    BY <2>1
<1>9. LineOK'
  BY <1>7 DEF Asked
<1>10. Types'
  BY <1>0, <1>1, <1>5, <1>6, <1>7 DEF Types, Asked
<1>11. OrdersOK'
  BY <1>0, <1>1, <1>4, <1>5, <1>6 DEF OrdersOK, Idle
<1>12. FramesOK'
  <2>1. \A y \in Under(sent') :
          /\ y.kind = "leg" => y.ord \in DOMAIN lo /\ y.ord \notin DOMAIN taken /\ ~lo[y.ord].accepted
          /\ y.kind = "cancel" => y.ord \in DOMAIN lo /\ lo[y.ord].accepted
    BY <1>0, <1>1, <1>4, <1>5, <1>8 DEF FramesOK
  <2> QED
    BY <1>0, <1>1, <2>1 DEF FramesOK
<1>13. RestsOK'
  BY <1>0, <1>1 DEF RestsOK
<1>14. NamesOK'
  <2>1. Era' => Era
    <3>1. sent' = sent \/ conn
      BY <1>7 DEF Asked
    <3> QED
      BY <1>1, <3>1 DEF Era
  <2>2. \A y \in Under(sent') : y.kind = "cancel" => Names(y.id, y.ord) /\ y.id < next
    BY <1>0, <1>3, <1>5, <1>8 DEF NamesOK, Era
  <2> QED
    BY <1>0, <1>1, <2>1, <2>2 DEF NamesOK, Names
<1>15. TableOK'
  <2>1. \A y \in Under(sent') : y.kind = "leg" => Open(om, y.ord) /\ Listed(om, y.ord)
    BY <1>0, <1>5, <1>8 DEF TableOK
  <2> QED
    BY <1>0, <1>1, <2>1 DEF TableOK
<1>16. BookOK'
  <2>1. call'.kind # "book" /\ call.kind # "book"
    BY <1>1, <1>5, <1>6 DEF Idle
  <2>2. \A y \in Under(sent') : y.kind = "book" => y \in Under(sent)
    BY <1>5, <1>8
  <2> QED
    BY <1>0, <1>1, <2>1, <2>2 DEF BookOK, Recent
<1> QED
  BY <1>9, <1>10, <1>11, <1>12, <1>13, <1>14, <1>15, <1>16 DEF IInv

LEMMA BookStep ==
  ASSUME IInv, remote_book
  PROVE  IInv'
<1> DEFINE r == Ask("book", 0, book.asked + 1)
<1>0. Types /\ OrdersOK /\ FramesOK /\ RestsOK /\ NamesOK /\ TableOK /\ LineOK /\ BookOK
  BY DEF IInv
<1>1. /\ UNCHANGED <<lo, up, om, forgotten, resting, next, taken, conn, replies>>
      /\ call = Idle /\ Len(sent) < QueueCap
      /\ session_send(r) /\ call' = r /\ book' = [book EXCEPT !.asked = @ + 1]
  BY DEF remote_book, exchange, Wait
<1>2. book \in [asked : Nat, lag : Int, late : Nat]
  BY <1>0 DEF Types
<1>3. /\ book' \in [asked : Nat, lag : Int, late : Nat]
      /\ book'.asked = book.asked + 1 /\ book'.lag = book.lag /\ book'.late = book.late
  BY <1>1, <1>2
<1>5. r \in Requests /\ r.kind = "book" /\ r.id = book.asked + 1
  BY <1>2 DEF Ask, Requests, Kinds
<1> HIDE DEF r
<1>7. Asked(r)
  <2>1. \A y \in Under(sent) \cup Under(replies) : y.kind = "book" => y.id <= book.asked /\ y.id \in Nat
    BY <1>0, TypeFacts DEF BookOK, Recent
  <2>2. \A y \in Under(sent) \cup Under(replies) : Apart(y, r)
    BY <1>2, <1>5, <2>1 DEF Apart
  <2>3. UNCHANGED <<conn, replies>>
    BY <1>1
  <2> QED
    BY <1>0, <1>1, <1>5, <2>2, <2>3, SendLine
<1>8. \A y \in Under(sent') : y \in Under(sent) \/ y = r
  <2>1. sent' = sent \/ Under(sent') = Under(sent) \cup {r}
    BY <1>7 DEF Asked
  <2> QED
    BY <2>1
<1>9. LineOK'
  BY <1>7 DEF Asked
<1>10. Types'
  BY <1>0, <1>1, <1>3, <1>5, <1>7 DEF Types, Asked
<1>11. OrdersOK'
  BY <1>0, <1>1, <1>5 DEF OrdersOK, Idle
<1>12. FramesOK'
  <2>1. \A y \in Under(sent') : y.kind # "book" => y \in Under(sent)
    BY <1>5, <1>8
  <2> QED
    BY <1>0, <1>1, <2>1 DEF FramesOK
<1>13. RestsOK'
  BY <1>0, <1>1 DEF RestsOK
<1>14. NamesOK'
  <2>1. Era' => Era
    <3>1. sent' = sent \/ conn
      BY <1>7 DEF Asked
    <3> QED
      BY <1>1, <3>1 DEF Era
  <2>2. \A y \in Under(sent') : y.kind = "cancel" => y \in Under(sent)
    BY <1>5, <1>8
  <2> QED
    BY <1>0, <1>1, <2>1, <2>2 DEF NamesOK, Names
<1>15. TableOK'
  <2>1. \A y \in Under(sent') : y.kind = "leg" => y \in Under(sent)
    BY <1>5, <1>8
  <2> QED
    BY <1>0, <1>1, <2>1 DEF TableOK
<1>16. BookOK'
  <2>1. call'.kind = "book" /\ call.kind # "book"
    BY <1>1, <1>5 DEF Idle
  <2>2. \A y \in Under(sent) \cup Under(replies) : Recent(y) /\ (y.kind = "book" => y.id \in Nat)
    BY <1>0, TypeFacts DEF BookOK
  <2>3. \A y \in Under(sent) \cup Under(replies) : y.kind = "book" =>
          y.id <= book'.asked /\ (up' => book'.asked - y.id + 1 <= book'.late + 1)
    BY <1>1, <1>2, <1>3, <2>1, <2>2 DEF Recent
  <2>4. r.id <= book'.asked /\ book'.asked - r.id + 1 <= book'.late + 1
    BY <1>2, <1>3, <1>5
  <2>5. \A y \in Under(sent') : y.kind = "book" =>
          y.id <= book'.asked /\ (up' => book'.asked - y.id + 1 <= book'.late + 1)
    BY <1>8, <2>3, <2>4
  <2>6. book'.lag <= book'.late
    BY <1>0, <1>3 DEF BookOK
  <2>7. replies' = replies
    BY <1>1
  <2> QED
    BY <2>1, <2>3, <2>5, <2>6, <2>7 DEF BookOK, Recent
<1> QED
  BY <1>9, <1>10, <1>11, <1>12, <1>13, <1>14, <1>15, <1>16 DEF IInv

\* What on_leg does to the exchange: x is its answer to r.
Matched(r, x) ==
  /\ next' = next + 1
  /\ taken' \in [DOMAIN taken' -> 0..Qty] /\ DOMAIN taken \subseteq DOMAIN taken'
  /\ \A o \in DOMAIN taken' : (o \in DOMAIN taken /\ taken'[o] = taken[o]) \/ o = r.ord
  /\ x.ok => r.ord \in DOMAIN taken' /\ taken'[r.ord] = x.qty /\ (x.rests => x.qty < Qty)
  /\ resting' \in [DOMAIN resting' -> Rests] /\ DOMAIN resting' \subseteq 1..next' - 1
  /\ \A id \in DOMAIN resting' :
       \/ id \in DOMAIN resting /\ resting'[id] = resting[id]
       \/ /\ id = next /\ x.ok /\ x.rests
          /\ resting'[id].cl = r.ord /\ resting'[id].qty = Qty - x.qty

LEMMA LegMatched ==
  ASSUME Types, NEW r \in Requests, r.kind = "leg", r.ord \notin DOMAIN taken, on_leg(r)
  PROVE  \E x \in Answers :
           /\ x.kind = "leg" /\ x.ord = r.ord /\ x.id = next
           /\ Reply(x) /\ Matched(r, x)
<1>0. /\ next \in Nat \ {0} /\ Qty \in Nat \ {0} /\ r.ord \in Nat /\ r.id \in Nat /\ r.kind \in Kinds
      /\ taken \in [DOMAIN taken -> 0..Qty] /\ resting \in [DOMAIN resting -> Rests]
      /\ DOMAIN resting \subseteq 1..next - 1
  BY SizeAssumption DEF Types, Requests
<1>1. CASE Reply(Answer(r, next, FALSE, 0, FALSE)) /\ UNCHANGED <<resting, taken>> /\ next' = next + 1
  <2> DEFINE x == Answer(r, next, FALSE, 0, FALSE)
  <2>1. /\ x \in Answers /\ x.kind = "leg" /\ x.ord = r.ord /\ x.id = next /\ ~x.ok
    BY <1>0 DEF Answer, Answers
  <2>2. Reply(x)
    BY <1>1
  <2> HIDE DEF x
  <2>3. Matched(r, x)
    BY <1>0, <1>1, <2>1 DEF Matched
  <2> QED
    BY <2>1, <2>2, <2>3
<1>2. ASSUME NEW filled \in 0..Qty, NEW rests \in BOOLEAN, rests => filled < Qty,
             taken' = Put(taken, r.ord, filled), next' = next + 1,
             resting' = IF rests THEN Put(resting, next, [cl |-> r.ord, qty |-> Qty - filled])
                                 ELSE resting,
             Reply(Answer(r, next, TRUE, filled, rests))
      PROVE  \E x \in Answers :
               /\ x.kind = "leg" /\ x.ord = r.ord /\ x.id = next
               /\ Reply(x) /\ Matched(r, x)
  <2> DEFINE x == Answer(r, next, TRUE, filled, rests)
             m == [cl |-> r.ord, qty |-> Qty - filled]
  <2>1. /\ x \in Answers /\ x.kind = "leg" /\ x.ord = r.ord /\ x.id = next /\ x.ok
        /\ x.qty = filled /\ x.rests = rests
    BY <1>0 DEF Answer, Answers
  <2>2. Reply(x)
    BY <1>2
  <2> HIDE DEF x
  <2>3. /\ DOMAIN taken' = DOMAIN taken \cup {r.ord} /\ taken'[r.ord] = filled
        /\ \A o \in DOMAIN taken : taken'[o] = taken[o]
        /\ taken' = [o \in DOMAIN taken' |-> taken'[o]]
    BY <1>2 DEF Put
  <2>4. taken' \in [DOMAIN taken' -> 0..Qty]
    BY <1>0, <2>3
  <2>5. /\ resting' \in [DOMAIN resting' -> Rests] /\ DOMAIN resting' \subseteq 1..next' - 1
        /\ \A id \in DOMAIN resting' :
             \/ id \in DOMAIN resting /\ resting'[id] = resting[id]
             \/ id = next /\ rests /\ resting'[id].cl = r.ord /\ resting'[id].qty = Qty - filled
    <3>1. CASE ~rests
      BY <1>0, <1>2, <3>1
    <3>2. CASE rests
      <4>1. m \in Rests /\ m.cl = r.ord /\ m.qty = Qty - filled
        BY <1>0, <1>2, <3>2 DEF Rests
      <4>2. resting' = Put(resting, next, m)
        BY <1>2, <3>2
      <4> HIDE DEF m
      <4>3. /\ DOMAIN resting' = DOMAIN resting \cup {next} /\ resting'[next] = m
            /\ \A id \in DOMAIN resting : resting'[id] = resting[id]
            /\ resting' = [id \in DOMAIN resting' |-> resting'[id]]
        BY <1>0, <4>2 DEF Put
      <4>4. resting' \in [DOMAIN resting' -> Rests]
        BY <1>0, <4>1, <4>3
      <4>5. DOMAIN resting' \subseteq 1..next' - 1
        BY <1>0, <1>2, <4>3
      <4> QED
        BY <3>2, <4>1, <4>3, <4>4, <4>5
    <3> QED
      BY <3>1, <3>2
  <2>6. Matched(r, x)
    BY <1>2, <2>1, <2>3, <2>4, <2>5 DEF Matched
  <2> QED
    BY <2>1, <2>2, <2>6
<1>3. \/ Reply(Answer(r, next, FALSE, 0, FALSE)) /\ UNCHANGED <<resting, taken>> /\ next' = next + 1
      \/ \E filled \in 0..Qty, rests \in BOOLEAN :
           /\ rests => filled < Qty
           /\ taken' = Put(taken, r.ord, filled) /\ next' = next + 1
           /\ resting' = IF rests THEN Put(resting, next, [cl |-> r.ord, qty |-> Qty - filled])
                                  ELSE resting
           /\ Reply(Answer(r, next, TRUE, filled, rests))
  BY DEF on_leg
<1> QED
  BY <1>1, <1>2, <1>3

LEMMA ServeLegStep ==
  ASSUME IInv, sent # <<>>, sent' = Tail(sent), Head(sent).kind = "leg", on_leg(Head(sent)),
         UNCHANGED <<lo, call, up, om, forgotten, book, conn>>
  PROVE  IInv'
<1> DEFINE r == Head(sent)
<1>0. Types /\ OrdersOK /\ FramesOK /\ RestsOK /\ NamesOK /\ TableOK /\ LineOK /\ BookOK
  BY DEF IInv
<1>1. r \in Under(sent) /\ r \in Requests /\ r.kind = "leg"
  BY <1>0, UnderFacts DEF Types
<1>2. /\ r.ord \in DOMAIN lo /\ r.ord \notin DOMAIN taken /\ ~lo[r.ord].accepted
      /\ Open(om, r.ord) /\ Listed(om, r.ord)
  BY <1>0, <1>1 DEF FramesOK, TableOK
<1>3. PICK x \in Answers : /\ x.kind = "leg" /\ x.ord = r.ord /\ x.id = next
                           /\ Reply(x) /\ Matched(r, x)
  <2> HIDE DEF r
  <2> QED
    BY <1>0, <1>1, <1>2, LegMatched DEF r
<1>4. Served(x)
  <2>1. \A y \in Under(replies) : Distinct(y, x)
    BY <1>3 DEF Distinct
  <2> QED
    BY <1>0, <1>1, <1>3, <2>1, ServeLine
<1> HIDE DEF r
<1>5. /\ sent' \in Seq(Requests) /\ Len(sent') <= QueueCap /\ Under(sent') \subseteq Under(sent)
      /\ replies' \in Seq(Answers) /\ LineOK'
      /\ \A y \in Under(replies') : y \in Under(replies) \/ y = x
      /\ \A y \in Under(sent') : y.kind = "leg" => y.ord # r.ord
      /\ \A y \in Under(replies) : y.kind = "leg" => y.ord # r.ord
  <2>1. replies' = replies \/ Under(replies') = Under(replies) \cup {x}
    BY <1>4 DEF Served
  <2>2. \A y \in Under(replies') : y \in Under(replies) \/ y = x
    BY <2>1
  <2>3. /\ \A y \in Under(sent') : y.kind = "leg" => y.ord # r.ord
        /\ \A y \in Under(replies) : y.kind = "leg" => y.ord # r.ord
    BY <1>1, <1>4 DEF Served, Apart, r
  <2> QED
    BY <1>4, <2>2, <2>3 DEF Served
<1>6. /\ next' = next + 1 /\ next \in Nat \ {0}
      /\ taken' \in [DOMAIN taken' -> 0..Qty] /\ DOMAIN taken \subseteq DOMAIN taken'
      /\ \A o \in DOMAIN taken' : (o \in DOMAIN taken /\ taken'[o] = taken[o]) \/ o = r.ord
      /\ x.ok => r.ord \in DOMAIN taken' /\ taken'[r.ord] = x.qty /\ (x.rests => x.qty < Qty)
      /\ resting' \in [DOMAIN resting' -> Rests] /\ DOMAIN resting' \subseteq 1..next' - 1
      /\ \A id \in DOMAIN resting' :
           \/ id \in DOMAIN resting /\ resting'[id] = resting[id]
           \/ /\ id = next /\ x.ok /\ x.rests
              /\ resting'[id].cl = r.ord /\ resting'[id].qty = Qty - x.qty
  BY <1>0, <1>3 DEF Matched, Types
<1>7. \A id \in DOMAIN resting : resting[id].cl \in DOMAIN taken /\ resting[id].cl # r.ord
  BY <1>0, <1>2 DEF RestsOK
<1>8. \A o \in DOMAIN lo : lo[o].accepted => o \in DOMAIN taken /\ o # r.ord
  BY <1>0, <1>2 DEF OrdersOK
<1>9. \A o \in DOMAIN taken : o # r.ord /\ taken'[o] = taken[o]
  BY <1>2, <1>6
<1>10. Types'
  <2>1. DOMAIN taken' \subseteq DOMAIN lo' /\ next' \in Nat \ {0}
    BY <1>0, <1>2, <1>6 DEF Types
  <2>2. /\ taken' \in [DOMAIN taken' -> 0..Qty]
        /\ resting' \in [DOMAIN resting' -> Rests] /\ DOMAIN resting' \subseteq 1..next' - 1
        /\ sent' \in Seq(Requests) /\ Len(sent') <= QueueCap /\ replies' \in Seq(Answers)
    BY <1>5, <1>6
  <2>3. UNCHANGED <<lo, call, up, om, forgotten, book, conn>>
    OBVIOUS
  <2> QED
    BY <1>0, <2>1, <2>2, <2>3 DEF Types
<1>11. OrdersOK'
  BY <1>0, <1>6, <1>9 DEF OrdersOK
<1>12. FramesOK'
  <2>1. \A y \in Under(sent') :
          /\ y.kind = "leg" => y.ord \in DOMAIN lo /\ y.ord \notin DOMAIN taken' /\ ~lo[y.ord].accepted
          /\ y.kind = "cancel" => y.ord \in DOMAIN lo /\ lo[y.ord].accepted
    BY <1>0, <1>5, <1>6 DEF FramesOK
  <2>2. ASSUME NEW y \in Under(replies), y.kind = "leg"
        PROVE  /\ y.ord \in DOMAIN lo /\ ~lo[y.ord].accepted
               /\ y.ok => y.ord \in DOMAIN taken' /\ y.qty = taken'[y.ord] /\ (y.rests => y.qty < Qty)
    BY <1>0, <1>6, <1>9, <2>2 DEF FramesOK
  <2>3. ASSUME NEW y \in Under(replies), y.kind = "cancel", y.ok
        PROVE  /\ y.ord \in DOMAIN lo /\ lo[y.ord].accepted /\ lo[y.ord].canceled = 0
               /\ y.qty <= Qty - taken'[y.ord]
    <3>1. /\ y.ord \in DOMAIN lo /\ lo[y.ord].accepted /\ lo[y.ord].canceled = 0
          /\ y.qty <= Qty - taken[y.ord]
      BY <1>0, <2>3 DEF FramesOK
    <3> QED
      BY <1>8, <1>9, <3>1
  <2>4. /\ x.ord \in DOMAIN lo /\ ~lo[x.ord].accepted
        /\ x.ok => x.ord \in DOMAIN taken' /\ x.qty = taken'[x.ord] /\ (x.rests => x.qty < Qty)
    BY <1>2, <1>3, <1>6
  <2>5. UNCHANGED lo
    OBVIOUS
  <2> QED
    BY <1>3, <1>5, <2>1, <2>2, <2>3, <2>4, <2>5 DEF FramesOK
<1>13. RestsOK'
  <2>1. ASSUME NEW id \in DOMAIN resting'
        PROVE  /\ resting'[id].cl \in DOMAIN taken' /\ resting'[id].qty <= Qty - taken'[resting'[id].cl]
               /\ lo[resting'[id].cl].accepted => lo[resting'[id].cl].canceled = 0
    <3>1. CASE id \in DOMAIN resting /\ resting'[id] = resting[id]
      <4>1. /\ resting[id].cl \in DOMAIN taken /\ resting[id].qty <= Qty - taken[resting[id].cl]
            /\ lo[resting[id].cl].accepted => lo[resting[id].cl].canceled = 0
        BY <1>0, <3>1 DEF RestsOK
      <4> QED
        BY <1>6, <1>9, <3>1, <4>1
    <3>2. CASE /\ x.ok /\ x.rests
               /\ resting'[id].cl = r.ord /\ resting'[id].qty = Qty - x.qty
      <4>1. Qty - x.qty <= Qty - x.qty
        BY SizeAssumption DEF Answers
      <4> QED
        BY <1>2, <1>6, <3>2, <4>1
    <3> QED
      BY <1>6, <3>1, <3>2
  <2>2. ASSUME NEW a \in DOMAIN resting', NEW b \in DOMAIN resting', resting'[a].cl = resting'[b].cl
        PROVE  a = b
    BY <1>0, <1>6, <1>7, <2>2 DEF RestsOK
  <2>3. ASSUME NEW y \in Under(replies'), NEW id \in DOMAIN resting', resting'[id].cl = y.ord
        PROVE  (y.kind = "leg" => y.ok /\ y.rests /\ y.id = id) /\ ~(y.kind = "cancel" /\ y.ok)
    <3>1. CASE y = x
      BY <1>3, <1>6, <1>7, <2>3, <3>1
    <3>2. CASE y \in Under(replies) /\ id \in DOMAIN resting /\ resting'[id] = resting[id]
      BY <1>0, <2>3, <3>2 DEF RestsOK
    <3>3. CASE y \in Under(replies) /\ resting'[id].cl = r.ord
      <4>1. y.kind # "leg"
        BY <1>5, <2>3, <3>3
      <4>2. ~(y.kind = "cancel" /\ y.ok)
        <5>1. y.kind = "cancel" /\ y.ok => y.ord \in DOMAIN lo /\ lo[y.ord].accepted
          BY <1>0, <3>3 DEF FramesOK
        <5> QED
          BY <1>2, <2>3, <3>3, <5>1
      <4> QED
        BY <4>1, <4>2
    <3> QED
      BY <1>5, <1>6, <3>1, <3>2, <3>3
  <2>5. UNCHANGED lo
    OBVIOUS
  <2> QED
    BY <2>1, <2>2, <2>3, <2>5 DEF RestsOK
<1>14. NamesOK'
  <2>1. Era
    BY DEF Era
  <2>2. ASSUME NEW id, NEW o, Names(id, o), id \in Nat, id < next
        PROVE  Names(id, o)' /\ id < next'
    <3>1. id # next
      BY <1>6, <2>2
    <3>2. id \in DOMAIN resting' => resting'[id].cl = o
      BY <1>6, <2>2, <3>1 DEF Names
    <3> QED
      BY <1>6, <2>2, <3>2 DEF Names
  <2>3. /\ \A y \in Under(sent) : y.id \in Nat
        /\ \A y \in Under(replies) : y.id \in Nat
        /\ \A e \in Under(om) : e.exch \in Nat
    BY <1>0, TypeFacts
  <2>4. \A y \in Under(sent') : y.kind = "cancel" =>
          (y.id \in DOMAIN resting' => resting'[y.id].cl = y.ord) /\ y.id < next'
    BY <1>0, <1>5, <2>2, <2>3 DEF NamesOK, Names
  <2>5. \A y \in Under(replies) : y.kind = "leg" =>
          (y.id \in DOMAIN resting' => resting'[y.id].cl = y.ord) /\ y.id < next'
    BY <1>0, <2>1, <2>2, <2>3 DEF NamesOK, Names
  <2>6. (x.id \in DOMAIN resting' => resting'[x.id].cl = x.ord) /\ x.id < next'
    <3>1. next \notin DOMAIN resting
      BY <1>0, TypeFacts
    <3> QED
      BY <1>3, <1>6, <3>1
  <2>7. \A e \in Under(om) : (e.exch \in DOMAIN resting' => resting'[e.exch].cl = e.cl) /\ e.exch < next'
    BY <1>0, <2>1, <2>2, <2>3 DEF NamesOK, Names
  <2>8. UNCHANGED om
    OBVIOUS
  <2> QED
    BY <1>5, <2>4, <2>5, <2>6, <2>7, <2>8 DEF NamesOK, Names
<1>15. TableOK'
  <2>1. ASSUME NEW id \in DOMAIN resting'
        PROVE  resting'[id].cl \in forgotten \/ Tracked(om, resting'[id].cl, id)
    <3>1. CASE id \in DOMAIN resting /\ resting'[id] = resting[id]
      BY <1>0, <3>1 DEF TableOK
    <3>2. CASE resting'[id].cl = r.ord
      BY <1>2, <3>2 DEF Open, Listed, Tracked, Unknown
    <3> QED
      BY <1>6, <3>1, <3>2
  <2>2. \A y \in Under(replies') : y.kind = "leg" => Open(om, y.ord)
    BY <1>0, <1>2, <1>3, <1>5 DEF TableOK
  <2>3. \A y \in Under(sent') : y.kind = "leg" => Open(om, y.ord) /\ Listed(om, y.ord)
    BY <1>0, <1>5 DEF TableOK
  <2>4. UNCHANGED <<om, lo, forgotten>>
    OBVIOUS
  <2> QED
    BY <1>0, <2>1, <2>2, <2>3, <2>4 DEF TableOK
<1>16. BookOK'
  BY <1>0, <1>3, <1>5 DEF BookOK, Recent
<1> QED
  BY <1>5, <1>10, <1>11, <1>12, <1>13, <1>14, <1>15, <1>16 DEF IInv

\* Orders leave the book, or shares of one that rests.
Fewer ==
  /\ resting' \in [DOMAIN resting' -> Rests] /\ DOMAIN resting' \subseteq DOMAIN resting
  /\ \A id \in DOMAIN resting' : resting'[id].cl = resting[id].cl /\ resting'[id].qty <= resting[id].qty

LEMMA ServeCancelStep ==
  ASSUME IInv, sent # <<>>, sent' = Tail(sent), Head(sent).kind = "cancel", on_cancel(Head(sent)),
         UNCHANGED <<lo, call, up, om, forgotten, book, conn>>
  PROVE  IInv'
<1> DEFINE r == Head(sent)
<1>0. Types /\ OrdersOK /\ FramesOK /\ RestsOK /\ NamesOK /\ TableOK /\ LineOK /\ BookOK
  BY DEF IInv
<1>1. r \in Under(sent) /\ r \in Requests /\ r.kind = "cancel" /\ r.ord \in Nat /\ r.id \in Nat
  <2>1. r \in Under(sent) /\ r \in Requests
    BY <1>0, UnderFacts DEF Types
  <2> QED
    BY <1>0, <2>1, TypeFacts
<1>2. r.ord \in DOMAIN lo /\ lo[r.ord].accepted /\ Names(r.id, r.ord) /\ r.id < next
  BY <1>0, <1>1 DEF FramesOK, NamesOK
<1>3. next' = next /\ taken' = taken
  BY DEF on_cancel
<1> DEFINE Done1(x) ==
             /\ x.kind = "cancel" /\ x.ord = r.ord
             /\ Reply(x) /\ Fewer
             /\ x.ok => /\ lo[r.ord].canceled = 0 /\ x.qty <= Qty - taken[r.ord]
                        /\ \A id \in DOMAIN resting' : resting'[id].cl # r.ord
                        /\ \E id \in DOMAIN resting : resting[id].cl = r.ord
<1>4. PICK x \in Answers : Done1(x)
  <2>1. CASE r.id \in DOMAIN resting
    <3> DEFINE x == Answer(r, r.id, TRUE, resting[r.id].qty, FALSE)
    <3>1. resting[r.id].cl = r.ord /\ resting[r.id] \in Rests /\ resting[r.id].qty \in 0..Qty
      BY <1>0, <1>2, <2>1, TypeFacts DEF Names
    <3>2. /\ x \in Answers /\ x.kind = "cancel" /\ x.ord = r.ord /\ x.qty = resting[r.id].qty
      BY <1>1, <3>1 DEF Answer, Answers, Kinds
    <3>3. Reply(x) /\ resting' = [id \in DOMAIN resting \ {r.id} |-> resting[id]]
      BY <2>1 DEF on_cancel
    <3> HIDE DEF x
    <3>4. /\ DOMAIN resting' = DOMAIN resting \ {r.id}
          /\ \A id \in DOMAIN resting' : resting'[id] = resting[id] /\ resting'[id] \in Rests
                                         /\ resting[id].qty \in Nat
      <4>1. \A id \in DOMAIN resting : resting[id] \in Rests /\ resting[id].qty \in Nat
        BY <1>0, TypeFacts
      <4> QED
        BY <3>3, <4>1
    <3>5. Fewer
      <4>1. resting' \in [DOMAIN resting' -> Rests]
        BY <3>3, <3>4
      <4>2. \A id \in DOMAIN resting' : resting'[id].qty <= resting[id].qty
        BY <3>4
      <4> QED
        BY <3>4, <4>1, <4>2 DEF Fewer
    <3>6. lo[r.ord].canceled = 0 /\ x.qty <= Qty - taken[r.ord]
      BY <1>0, <1>2, <2>1, <3>1, <3>2 DEF RestsOK
    <3>7. \A id \in DOMAIN resting' : resting'[id].cl # r.ord
      BY <1>0, <2>1, <3>1, <3>4 DEF RestsOK
    <3> QED
      BY <2>1, <3>1, <3>2, <3>3, <3>5, <3>6, <3>7
  <2>2. CASE r.id \notin DOMAIN resting
    <3> DEFINE x == Answer(r, r.id, FALSE, 0, FALSE)
    <3>1. x \in Answers /\ x.kind = "cancel" /\ x.ord = r.ord /\ ~x.ok
      BY <1>1, SizeAssumption DEF Answer, Answers, Kinds
    <3>2. Reply(x) /\ resting' = resting
      BY <2>2 DEF on_cancel
    <3> HIDE DEF x
    <3>3. Fewer
      <4>1. \A id \in DOMAIN resting : resting[id] \in Rests /\ resting[id].qty \in Nat
        BY <1>0, TypeFacts
      <4> QED
        BY <1>0, <3>2, <4>1 DEF Fewer, Types
    <3> QED
      BY <3>1, <3>2, <3>3
  <2> QED
    BY <2>1, <2>2
<1>5. Served(x)
  <2>1. \A y \in Under(replies) : Distinct(y, x)
    <3>1. ASSUME NEW y \in Under(replies), y.kind = "cancel", y.ok, x.ok PROVE y.ord # x.ord
      <4>1. \A id \in DOMAIN resting : resting[id].cl # y.ord
        BY <1>0, <3>1 DEF RestsOK
      <4> QED
        BY <1>4, <3>1, <4>1
    <3> QED
      BY <3>1 DEF Distinct
  <2>2. Reply(x) /\ x.kind = r.kind /\ UNCHANGED conn /\ sent' = Tail(sent)
    BY <1>1, <1>4
  <2>3. x.kind # "leg" /\ x.kind # "book"
    BY <1>4
  <2> QED
    BY <1>0, <2>1, <2>2, <2>3, ServeLine
<1> HIDE DEF r
<1>6. /\ sent' \in Seq(Requests) /\ Len(sent') <= QueueCap /\ Under(sent') \subseteq Under(sent)
      /\ replies' \in Seq(Answers) /\ LineOK'
      /\ \A y \in Under(replies') : y \in Under(replies) \/ y = x
  <2>1. replies' = replies \/ Under(replies') = Under(replies) \cup {x}
    BY <1>5 DEF Served
  <2>2. \A y \in Under(replies') : y \in Under(replies) \/ y = x
    BY <2>1
  <2> QED
    BY <1>5, <2>2 DEF Served
<1>7. /\ resting' \in [DOMAIN resting' -> Rests] /\ DOMAIN resting' \subseteq DOMAIN resting
      /\ \A id \in DOMAIN resting' : resting'[id].cl = resting[id].cl /\ resting'[id].qty <= resting[id].qty
  BY <1>4 DEF Fewer
<1>8. UNCHANGED <<lo, call, up, om, forgotten, book, conn, next, taken>>
  BY <1>3
<1>10. Types'
  <2>1. DOMAIN resting' \subseteq 1..next - 1
    BY <1>0, <1>7 DEF Types
  <2> QED
    BY <1>0, <1>6, <1>7, <1>8, <2>1 DEF Types
<1>11. OrdersOK'
  BY <1>0, <1>8 DEF OrdersOK
<1>12. FramesOK'
  <2>1. x.kind = "cancel" /\ (x.ok => /\ x.ord \in DOMAIN lo /\ lo[x.ord].accepted /\ lo[x.ord].canceled = 0
                                     /\ x.qty <= Qty - taken[x.ord])
    BY <1>2, <1>4
  <2> QED
    BY <1>0, <1>6, <1>8, <2>1 DEF FramesOK
<1>13. RestsOK'
  <2>1. ASSUME NEW id \in DOMAIN resting'
        PROVE  /\ resting'[id].cl \in DOMAIN taken /\ resting'[id].qty <= Qty - taken[resting'[id].cl]
               /\ lo[resting'[id].cl].accepted => lo[resting'[id].cl].canceled = 0
    <3>1. /\ resting'[id].qty \in Nat /\ resting[id].qty \in Nat
      BY <1>0, <1>7, TypeFacts DEF Rests
    <3>2. resting[id].cl \in DOMAIN taken /\ taken[resting[id].cl] \in Nat /\ Qty \in Nat
      BY <1>0, <1>7, TypeFacts, SizeAssumption DEF RestsOK
    <3>3. /\ resting[id].qty <= Qty - taken[resting[id].cl]
          /\ lo[resting[id].cl].accepted => lo[resting[id].cl].canceled = 0
      BY <1>0, <1>7 DEF RestsOK
    <3> QED
      BY <1>7, <3>1, <3>2, <3>3
  <2>2. \A a, b \in DOMAIN resting' : resting'[a].cl = resting'[b].cl => a = b
    BY <1>0, <1>7 DEF RestsOK
  <2>3. ASSUME NEW y \in Under(replies'), NEW id \in DOMAIN resting', resting'[id].cl = y.ord
        PROVE  (y.kind = "leg" => y.ok /\ y.rests /\ y.id = id) /\ ~(y.kind = "cancel" /\ y.ok)
    <3>1. CASE y = x
      BY <1>4, <2>3, <3>1
    <3>2. CASE y \in Under(replies)
      BY <1>0, <1>7, <2>3, <3>2 DEF RestsOK
    <3> QED
      BY <1>6, <3>1, <3>2
  <2> QED
    BY <1>8, <2>1, <2>2, <2>3 DEF RestsOK
<1>14. NamesOK'
  <2>1. Era
    BY DEF Era
  <2>2. x.kind # "leg"
    BY <1>4
  <2> QED
    BY <1>0, <1>6, <1>7, <1>8, <2>1, <2>2 DEF NamesOK, Names
<1>15. TableOK'
  <2>1. x.kind # "leg"
    BY <1>4
  <2> QED
    BY <1>0, <1>6, <1>7, <1>8, <2>1 DEF TableOK
<1>16. BookOK'
  <2>1. x.kind # "book"
    BY <1>4
  <2> QED
    BY <1>0, <1>6, <1>8, <2>1 DEF BookOK, Recent
<1> QED
  BY <1>6, <1>10, <1>11, <1>12, <1>13, <1>14, <1>15, <1>16 DEF IInv

LEMMA ServeBookStep ==
  ASSUME IInv, sent # <<>>, sent' = Tail(sent), Head(sent).kind = "book", on_book(Head(sent)),
         UNCHANGED <<lo, call, up, om, forgotten, book, conn>>
  PROVE  IInv'
<1> DEFINE r == Head(sent)
           x == Answer(r, r.id, TRUE, 0, FALSE)
<1>0. Types /\ OrdersOK /\ FramesOK /\ RestsOK /\ NamesOK /\ TableOK /\ LineOK /\ BookOK
  BY DEF IInv
<1>1. r \in Under(sent) /\ r \in Requests /\ r.kind = "book" /\ r.ord \in Nat /\ r.id \in Nat
  <2>1. r \in Under(sent) /\ r \in Requests
    BY <1>0, UnderFacts DEF Types
  <2> QED
    BY <1>0, <2>1, TypeFacts
<1>2. x \in Answers /\ x.kind = "book" /\ x.id = r.id
  BY <1>1, SizeAssumption DEF Answer, Answers, Kinds
<1>3. Reply(x) /\ UNCHANGED <<resting, next, taken>>
  BY DEF on_book, exchange
<1> HIDE DEF x
<1>5. Served(x)
  <2>1. \A y \in Under(replies) : Distinct(y, x)
    BY <1>2 DEF Distinct
  <2>2. Reply(x) /\ x.kind = r.kind /\ UNCHANGED conn /\ sent' = Tail(sent)
    BY <1>1, <1>2, <1>3
  <2> QED
    BY <1>0, <1>2, <2>1, <2>2, ServeLine
<1> HIDE DEF r
<1>6. /\ sent' \in Seq(Requests) /\ Len(sent') <= QueueCap /\ Under(sent') \subseteq Under(sent)
      /\ replies' \in Seq(Answers) /\ LineOK'
      /\ \A y \in Under(replies') : y \in Under(replies) \/ y = x
  <2>1. replies' = replies \/ Under(replies') = Under(replies) \cup {x}
    BY <1>5 DEF Served
  <2>2. \A y \in Under(replies') : y \in Under(replies) \/ y = x
    BY <2>1
  <2> QED
    BY <1>5, <2>2 DEF Served
<1>8. UNCHANGED <<lo, call, up, om, forgotten, book, conn, next, taken, resting>>
  BY <1>3
<1>10. Types'
  BY <1>0, <1>6, <1>8 DEF Types
<1>11. OrdersOK'
  BY <1>0, <1>8 DEF OrdersOK
<1>12. FramesOK'
  BY <1>0, <1>2, <1>6, <1>8 DEF FramesOK
<1>13. RestsOK'
  BY <1>0, <1>2, <1>6, <1>8 DEF RestsOK
<1>14. NamesOK'
  <2>1. Era
    BY DEF Era
  <2> QED
    BY <1>0, <1>2, <1>6, <1>8, <2>1 DEF NamesOK, Names
<1>15. TableOK'
  BY <1>0, <1>2, <1>6, <1>8 DEF TableOK
<1>16. BookOK'
  <2>1. Recent(r)
    BY <1>0, <1>1 DEF BookOK
  <2> QED
    BY <1>0, <1>1, <1>2, <1>6, <1>8, <2>1 DEF BookOK, Recent
<1> QED
  BY <1>6, <1>10, <1>11, <1>12, <1>13, <1>14, <1>15, <1>16 DEF IInv

LEMMA ServeStep ==
  ASSUME IInv, on_msg
  PROVE  IInv'
<1>1. sent # <<>> /\ sent' = Tail(sent) /\ UNCHANGED <<lo, call, up, om, forgotten, book, conn>>
  BY DEF on_msg, ledger
<1>2. \/ Head(sent).kind = "leg"    /\ on_leg(Head(sent))
      \/ Head(sent).kind = "cancel" /\ on_cancel(Head(sent))
      \/ Head(sent).kind = "book"   /\ on_book(Head(sent))
  BY DEF on_msg
<1> QED
  BY <1>1, <1>2, ServeLegStep, ServeCancelStep, ServeBookStep

LEMMA MakerStep ==
  ASSUME IInv, MakerFill
  PROVE  IInv'
<1>0. Types /\ OrdersOK /\ FramesOK /\ RestsOK /\ NamesOK /\ TableOK /\ LineOK /\ BookOK
  BY DEF IInv
<1>1. UNCHANGED <<lo, call, up, om, forgotten, book, conn, sent, replies, next, taken>>
  BY DEF MakerFill, ledger, line
<1>2. PICK id \in DOMAIN resting :
        resting' = IF resting[id].qty = 1
                   THEN [i \in DOMAIN resting \ {id} |-> resting[i]]
                   ELSE [resting EXCEPT ![id].qty = @ - 1]
  BY DEF MakerFill
<1>3. /\ resting \in [DOMAIN resting -> Rests] /\ \A i \in DOMAIN resting : resting[i] \in Rests /\ resting[i].qty \in 1..Qty
      /\ Qty \in Nat
  BY <1>0, TypeFacts, SizeAssumption DEF Types
<1>4. Fewer
  <2>1. CASE resting[id].qty = 1
    BY <1>2, <1>3, <2>1 DEF Fewer
  <2>2. CASE resting[id].qty # 1
    <3> DEFINE m == [resting[id] EXCEPT !.qty = @ - 1]
    <3>1. m \in Rests /\ m.cl = resting[id].cl /\ m.qty <= resting[id].qty
      BY <1>3, <2>2 DEF Rests
    <3>2. resting' = [resting EXCEPT ![id] = m]
      BY <1>2, <2>2
    <3> HIDE DEF m
    <3> QED
      BY <1>3, <3>1, <3>2 DEF Fewer
  <2> QED
    BY <2>1, <2>2
<1>7. /\ resting' \in [DOMAIN resting' -> Rests] /\ DOMAIN resting' \subseteq DOMAIN resting
      /\ \A i \in DOMAIN resting' : resting'[i].cl = resting[i].cl /\ resting'[i].qty <= resting[i].qty
  BY <1>4 DEF Fewer
<1>9. LineOK'
  <2>1. UNCHANGED <<sent, replies>>
    BY <1>1
  <2> QED
    BY <1>0, <2>1 DEF LineOK, Under
<1>10. Types'
  <2>1. DOMAIN resting' \subseteq 1..next - 1
    BY <1>0, <1>7 DEF Types
  <2> QED
    BY <1>0, <1>1, <1>7, <2>1 DEF Types
<1>11. OrdersOK' /\ FramesOK'
  BY <1>0, <1>1 DEF OrdersOK, FramesOK
<1>13. RestsOK'
  <2>1. ASSUME NEW i \in DOMAIN resting'
        PROVE  /\ resting'[i].cl \in DOMAIN taken /\ resting'[i].qty <= Qty - taken[resting'[i].cl]
               /\ lo[resting'[i].cl].accepted => lo[resting'[i].cl].canceled = 0
    <3>1. /\ resting'[i].qty \in Nat /\ resting[i].qty \in Nat
      BY <1>0, <1>7, TypeFacts DEF Rests
    <3>2. resting[i].cl \in DOMAIN taken /\ taken[resting[i].cl] \in Nat /\ Qty \in Nat
      BY <1>0, <1>7, TypeFacts, SizeAssumption DEF RestsOK
    <3>3. /\ resting[i].qty <= Qty - taken[resting[i].cl]
          /\ lo[resting[i].cl].accepted => lo[resting[i].cl].canceled = 0
      BY <1>0, <1>7 DEF RestsOK
    <3> QED
      BY <1>7, <3>1, <3>2, <3>3
  <2>2. \A a, b \in DOMAIN resting' : resting'[a].cl = resting'[b].cl => a = b
    BY <1>0, <1>7 DEF RestsOK
  <2>3. \A y \in Under(replies) : \A i \in DOMAIN resting' : resting'[i].cl = y.ord =>
          /\ y.kind = "leg" => y.ok /\ y.rests /\ y.id = i
          /\ ~(y.kind = "cancel" /\ y.ok)
    BY <1>0, <1>7 DEF RestsOK
  <2> QED
    BY <1>1, <2>1, <2>2, <2>3 DEF RestsOK
<1>14. NamesOK'
  <2>1. Era' => Era
    BY <1>1 DEF Era
  <2> QED
    BY <1>0, <1>1, <1>7, <2>1 DEF NamesOK, Names
<1>15. TableOK'
  BY <1>0, <1>1, <1>7 DEF TableOK
<1>16. BookOK'
  BY <1>0, <1>1 DEF BookOK, Recent
<1> QED
  BY <1>9, <1>10, <1>11, <1>13, <1>14, <1>15, <1>16 DEF IInv

LEMMA BreakStep ==
  ASSUME IInv, Break
  PROVE  IInv'
<1>0. Types /\ OrdersOK /\ FramesOK /\ RestsOK /\ NamesOK /\ TableOK /\ LineOK /\ BookOK
  BY DEF IInv
<1>1. /\ UNCHANGED <<lo, call, up, om, forgotten, book, replies, resting, next, taken>>
      /\ conn' = FALSE /\ sent' \in {sent, <<>>} /\ conn
  BY DEF Break, ledger, exchange
<1>2. Under(sent') \subseteq Under(sent) /\ sent' \in Seq(Requests) /\ Len(sent') <= QueueCap
  <2>1. Len(<<>>) = 0 /\ <<>> \in Seq(Requests) /\ QueueCap \in Nat \ {0}
    BY SizeAssumption
  <2>2. CASE sent' = sent
    BY <1>0, <2>2 DEF Types
  <2>3. CASE sent' = <<>>
    BY <2>1, <2>3, NothingUnder
  <2> QED
    BY <1>1, <2>2, <2>3
<1>3. LineOK'
  <2>1. \A i, j \in 1..Len(sent') : i < j => Apart(sent'[i], sent'[j])
    <3>1. CASE sent' = sent
      BY <1>0, <3>1 DEF LineOK
    <3>2. CASE sent' = <<>>
      BY <3>2
    <3> QED
      BY <1>1, <3>1, <3>2
  <2>2. replies' = replies
    BY <1>1
  <2> QED
    BY <1>0, <1>2, <2>1, <2>2 DEF LineOK
<1>10. Types'
  BY <1>0, <1>1, <1>2 DEF Types
<1>11. OrdersOK' /\ FramesOK' /\ RestsOK'
  BY <1>0, <1>1, <1>2 DEF OrdersOK, FramesOK, RestsOK
<1>14. NamesOK'
  <2>1. Era
    BY <1>1 DEF Era
  <2> QED
    BY <1>0, <1>1, <1>2, <2>1 DEF NamesOK, Names
<1>15. TableOK'
  BY <1>0, <1>1, <1>2 DEF TableOK
<1>16. BookOK'
  BY <1>0, <1>1, <1>2 DEF BookOK, Recent
<1> QED
  BY <1>3, <1>10, <1>11, <1>14, <1>15, <1>16 DEF IInv

LEMMA RestartStep ==
  ASSUME IInv, VenueRestart
  PROVE  IInv'
<1>0. Types /\ OrdersOK /\ FramesOK /\ RestsOK /\ NamesOK /\ TableOK /\ LineOK /\ BookOK
  BY DEF IInv
<1>1. /\ UNCHANGED <<lo, call, up, om, forgotten, book, replies, taken>>
      /\ conn' = FALSE /\ sent' = <<>> /\ resting' = <<>> /\ next' = 1
  BY DEF VenueRestart, ledger
<1>2. /\ Under(sent') = {} /\ sent' \in Seq(Requests) /\ Len(sent') = 0 /\ Len(sent') <= QueueCap
      /\ DOMAIN resting' = {} /\ resting' \in [DOMAIN resting' -> Rests]
  <2>1. Len(<<>>) = 0 /\ <<>> \in Seq(Requests) /\ DOMAIN <<>> = {} /\ QueueCap \in Nat \ {0}
    BY SizeAssumption
  <2>2. <<>> \in [{} -> Rests]
    OBVIOUS
  <2> QED
    BY <1>1, <2>1, <2>2, NothingUnder
<1>3. LineOK'
  <2>2. replies' = replies /\ \A i, j \in 1..Len(sent') : FALSE
    BY <1>1, <1>2
  <2> QED
    BY <1>0, <1>2, <2>2 DEF LineOK
<1>10. Types'
  <2>1. DOMAIN resting' \subseteq 1..next' - 1 /\ next' \in Nat \ {0}
    BY <1>1, <1>2
  <2> QED
    BY <1>0, <1>1, <1>2, <2>1 DEF Types
<1>11. OrdersOK' /\ FramesOK' /\ RestsOK'
  BY <1>0, <1>1, <1>2 DEF OrdersOK, FramesOK, RestsOK
<1>14. NamesOK'
  BY <1>0, <1>1, <1>2 DEF NamesOK, Names, Era
<1>15. TableOK'
  BY <1>0, <1>1, <1>2 DEF TableOK
<1>16. BookOK'
  BY <1>0, <1>1, <1>2 DEF BookOK, Recent
<1> QED
  BY <1>3, <1>10, <1>11, <1>14, <1>15, <1>16 DEF IInv

LEMMA ConnectStep ==
  ASSUME IInv, link_connect
  PROVE  IInv'
<1>0. Types /\ OrdersOK /\ FramesOK /\ RestsOK /\ NamesOK /\ TableOK /\ LineOK /\ BookOK
  BY DEF IInv
<1>1. /\ UNCHANGED <<lo, call, sent, resting, next, taken>>
      /\ sent = <<>> /\ up' = TRUE /\ conn' = TRUE /\ replies' = <<>> /\ om' = <<>>
      /\ forgotten' = DOMAIN lo /\ book' = [book EXCEPT !.lag = 0, !.late = 0]
  BY DEF link_connect, exchange
<1>2. /\ Under(sent') = {} /\ Under(replies') = {} /\ Under(om') = {}
      /\ Len(sent') = 0 /\ Len(replies') = 0 /\ Len(om') = 0 /\ Len(om') <= MapSize
      /\ replies' \in Seq(Answers) /\ om' \in Seq(Entries)
  <2>1. Len(<<>>) = 0 /\ <<>> \in Seq(Answers) /\ <<>> \in Seq(Entries) /\ MapSize \in Nat
    BY MapAssumption
  <2> QED
    BY <1>1, <2>1, NothingUnder
<1>4. book' \in [asked : Nat, lag : Int, late : Nat] /\ book'.lag = 0 /\ book'.late = 0
  <2>1. book \in [asked : Nat, lag : Int, late : Nat] /\ book' = [book EXCEPT !.lag = 0, !.late = 0]
    BY <1>0, <1>1 DEF Types
  <2>2. book' = [asked |-> book.asked, lag |-> 0, late |-> 0] /\ book.asked \in Nat
    BY <2>1
  <2> QED
    BY <2>2
<1>3. LineOK'
  <2>2. (\A i, j \in 1..Len(sent') : FALSE) /\ (\A i, j \in 1..Len(replies') : FALSE)
    BY <1>2
  <2> QED
    BY <1>2, <2>2 DEF LineOK
<1>10. Types'
  BY <1>0, <1>1, <1>2, <1>4 DEF Types
<1>11. OrdersOK' /\ FramesOK' /\ RestsOK'
  BY <1>0, <1>1, <1>2 DEF OrdersOK, FramesOK, RestsOK
<1>14. NamesOK'
  BY <1>2 DEF NamesOK
<1>15. TableOK'
  <2>1. \A id \in DOMAIN resting : resting[id].cl \in DOMAIN lo
    BY <1>0, TypeFacts DEF RestsOK
  <2> QED
    BY <1>1, <1>2, <2>1 DEF TableOK
<1>16. BookOK'
  BY <1>2, <1>4 DEF BookOK
<1> QED
  BY <1>3, <1>10, <1>11, <1>14, <1>15, <1>16 DEF IInv

\* The record of order o is leg.
Amended(o, leg) ==
  /\ DOMAIN lo' = DOMAIN lo /\ lo'[o] = leg
  /\ \A p \in DOMAIN lo : p # o => lo'[p] = lo[p]
  /\ lo' \in [DOMAIN lo' -> Legs] /\ \A p \in DOMAIN lo' : LegOK(lo'[p])

LEMMA AmendFacts ==
  ASSUME Types, NEW o \in DOMAIN lo, NEW leg \in Legs, LegOK(leg), lo' = [lo EXCEPT ![o] = leg]
  PROVE  Amended(o, leg)
<1>1. lo \in [DOMAIN lo -> Legs] /\ \A p \in DOMAIN lo : LegOK(lo[p])
  BY DEF Types
<1>2. /\ DOMAIN lo' = DOMAIN lo /\ lo'[o] = leg
      /\ \A p \in DOMAIN lo : p # o => lo'[p] = lo[p]
      /\ lo' \in [DOMAIN lo' -> Legs]
  BY <1>1
<1>3. \A p \in DOMAIN lo' : LegOK(lo'[p])
  BY <1>1, <1>2
<1> QED
  BY <1>2, <1>3 DEF Amended

\* A wait that ends in vain.
LEMMA GiveUpStep ==
  ASSUME IInv, GiveUp, UNCHANGED <<forgotten, conn, sent, replies, resting, next, taken>>,
         up' \in BOOLEAN, book' \in [asked : Nat, lag : Int, late : Nat], BookOK'
  PROVE  IInv'
<1>0. Types /\ OrdersOK /\ FramesOK /\ RestsOK /\ NamesOK /\ TableOK /\ LineOK /\ BookOK
  BY DEF IInv
<1>1. call' = Idle
  BY DEF GiveUp
<1>2. LineOK'
  <2>1. UNCHANGED <<sent, replies>>
    OBVIOUS
  <2> QED
    BY <1>0, <2>1 DEF LineOK, Under
<1>3. CASE call.kind = "leg"
  <2> DEFINE o == call.ord
  <2>1. o \in DOMAIN lo /\ ~lo[o].accepted
    BY <1>0, <1>3 DEF OrdersOK
  <2>2. Amended(o, Refused) /\ ~Refused.accepted /\ ~Refused.live
    <3>1. lo' = [lo EXCEPT ![o] = Refused]
      BY <1>3 DEF GiveUp
    <3> QED
      BY <1>0, <2>1, <3>1, AmendFacts, NewLegFacts
  <2>3. Follows(om, 0, om') /\ Numbered(om, 0, 0, om')
    <3>1. om' = ordmap_on_disconnect(om) /\ om \in Seq(Entries) /\ Len(om) <= MapSize
      BY <1>0, <1>3 DEF GiveUp, Types
    <3> QED
      BY <3>1, DisconnectFollows
  <2>4. \A p \in DOMAIN lo : lo[p].accepted => p # o
    BY <2>1
  <2> HIDE DEF o
  <2>5. /\ DOMAIN lo' = DOMAIN lo /\ ~lo'[o].accepted /\ ~lo'[o].live
        /\ \A p \in DOMAIN lo : p # o => lo'[p] = lo[p]
        /\ \A p \in DOMAIN lo : lo'[p].accepted <=> lo[p].accepted
    BY <2>1, <2>2 DEF Amended
  <2>10. Types'
    <3>1. lo' \in [DOMAIN lo' -> Legs] /\ \A p \in DOMAIN lo' : LegOK(lo'[p])
      BY <2>2 DEF Amended
    <3>2. om' \in Seq(Entries) /\ Len(om') <= MapSize
      BY <2>3 DEF Follows
    <3> QED
      BY <1>0, <1>1, <2>5, <3>1, <3>2 DEF Types
  <2>11. OrdersOK'
    BY <1>0, <1>1, <1>3, <2>5 DEF OrdersOK, Idle, o
  <2>12. FramesOK'
    BY <1>0, <2>4, <2>5 DEF FramesOK
  <2>13. RestsOK'
    BY <1>0, <2>4, <2>5, TypeFacts DEF RestsOK
  <2>14. NamesOK'
    <3>1. Era' => Era
      BY DEF Era
    <3>2. 0 \notin DOMAIN resting /\ next \in Nat \ {0}
      BY <1>0, TypeFacts
    <3>3. \A e \in Under(om') : (e.exch \in DOMAIN resting => resting[e.exch].cl = e.cl) /\ (Era => e.exch < next)
      BY <1>0, <2>3, <3>2 DEF Numbered, NamesOK, Names
    <3> QED
      BY <1>0, <3>1, <3>3 DEF NamesOK, Names
  <2>15. TableOK'
    <3>1. \A e \in Under(om') : e.cl \in DOMAIN lo'
      BY <1>0, <2>3, <2>5 DEF Follows, TableOK
    <3>2. \A y \in Under(sent) : y.kind = "leg" => Open(om', y.ord) /\ Listed(om', y.ord)
      <4>1. \A y \in Under(sent) : y.kind = "leg" => y.ord # 0
        BY <1>0, TypeFacts DEF FramesOK
      <4> QED
        BY <1>0, <2>3, <4>1 DEF TableOK, Follows
    <3>3. \A y \in Under(replies) : y.kind = "leg" => Open(om', y.ord)
      <4>1. \A y \in Under(replies) : y.kind = "leg" => y.ord # 0
        BY <1>0, TypeFacts DEF FramesOK
      <4> QED
        BY <1>0, <2>3, <4>1 DEF TableOK, Follows
    <3>4. \A id \in DOMAIN resting : resting[id].cl \in forgotten \/ Tracked(om', resting[id].cl, id)
      <4>1. \A id \in DOMAIN resting : resting[id].cl # 0
        BY <1>0, TypeFacts DEF RestsOK
      <4> QED
        BY <1>0, <2>3, <4>1 DEF TableOK, Follows
    <3> QED
      BY <3>1, <3>2, <3>3, <3>4 DEF TableOK
  <2> QED
    BY <1>2, <2>10, <2>11, <2>12, <2>13, <2>14, <2>15 DEF IInv
<1>4. CASE call.kind # "leg"
  <2>1. UNCHANGED <<om, lo>>
    BY <1>4 DEF GiveUp
  <2>10. Types'
    BY <1>0, <1>1, <2>1 DEF Types
  <2>11. OrdersOK'
    BY <1>0, <1>1, <1>4, <2>1 DEF OrdersOK, Idle
  <2>12. FramesOK' /\ RestsOK'
    BY <1>0, <2>1 DEF FramesOK, RestsOK
  <2>14. NamesOK'
    BY <1>0, <2>1 DEF NamesOK, Names, Era
  <2>15. TableOK'
    BY <1>0, <2>1 DEF TableOK
  <2> QED
    BY <1>2, <2>10, <2>11, <2>12, <2>14, <2>15 DEF IInv
<1> QED
  BY <1>3, <1>4

LEMMA ExpireStep ==
  ASSUME IInv, wait_for_expires
  PROVE  IInv'
<1>0. Types /\ BookOK
  BY DEF IInv
<1>1. /\ GiveUp /\ UNCHANGED <<up, forgotten, conn, sent, replies, resting, next, taken>>
      /\ book' = [book EXCEPT !.late = @ + IF call.kind = "book" THEN 1 ELSE 0]
  BY DEF wait_for_expires, exchange, line
<1>2. book \in [asked : Nat, lag : Int, late : Nat] /\ up' \in BOOLEAN
  BY <1>0, <1>1 DEF Types
<1>3. /\ book' \in [asked : Nat, lag : Int, late : Nat] /\ book'.asked = book.asked /\ book'.lag = book.lag
      /\ book'.late = book.late + IF call.kind = "book" THEN 1 ELSE 0
  BY <1>1, <1>2
<1>4. call'.kind # "book"
  BY <1>1 DEF GiveUp, Idle
<1>5. book'.lag <= book'.late
  BY <1>0, <1>2, <1>3 DEF BookOK
<1>6. \A y : Recent(y) => (y.kind = "book" =>
        y.id <= book'.asked /\ (up' => book'.asked - y.id + 1 <= book'.late + 0))
  BY <1>1, <1>2, <1>3 DEF Recent
<1>7. BookOK'
  BY <1>0, <1>1, <1>4, <1>5, <1>6 DEF BookOK, Recent
<1> QED
  BY <1>1, <1>2, <1>3, <1>7, GiveUpStep

LEMMA FailStep ==
  ASSUME IInv, pump_once_fails
  PROVE  IInv'
<1>0. Types /\ OrdersOK /\ FramesOK /\ RestsOK /\ NamesOK /\ TableOK /\ LineOK /\ BookOK
  BY DEF IInv
<1>1. /\ up' = FALSE /\ UNCHANGED <<forgotten, book, conn, sent, replies, resting, next, taken>>
      /\ IF call = Idle THEN UNCHANGED <<call, om, lo>> ELSE GiveUp
  BY DEF pump_once_fails, exchange, line
<1>2. BookOK'
  BY <1>0, <1>1 DEF BookOK, Recent
<1>3. CASE call = Idle
  <2>1. UNCHANGED <<call, om, lo>>
    BY <1>1, <1>3
  <2>2. UNCHANGED <<sent, replies>>
    BY <1>1
  <2>3. LineOK'
    BY <1>0, <2>2 DEF LineOK, Under
  <2>10. Types'
    BY <1>0, <1>1, <2>1 DEF Types
  <2>11. OrdersOK' /\ FramesOK' /\ RestsOK'
    BY <1>0, <1>1, <2>1 DEF OrdersOK, FramesOK, RestsOK
  <2>14. NamesOK'
    BY <1>0, <1>1, <2>1 DEF NamesOK, Names, Era
  <2>15. TableOK'
    BY <1>0, <1>1, <2>1 DEF TableOK
  <2> QED
    BY <1>2, <2>3, <2>10, <2>11, <2>14, <2>15 DEF IInv
<1>4. CASE call # Idle
  <2>1. book' \in [asked : Nat, lag : Int, late : Nat]
    BY <1>0, <1>1 DEF Types
  <2> QED
    BY <1>1, <1>2, <1>4, <2>1, GiveUpStep
<1> QED
  BY <1>3, <1>4

\* A table that fits the book and what will be under way.
Fits(t) ==
  /\ t \in Seq(Entries) /\ Len(t) <= MapSize
  /\ \A e \in Under(t) : e.cl \in DOMAIN lo /\ Names(e.exch, e.cl) /\ (Era => e.exch < next)
  /\ \A r \in Under(sent) : r.kind = "leg" => Open(t, r.ord) /\ Listed(t, r.ord)
  /\ \A y \in Under(replies') : y.kind = "leg" => Open(t, y.ord)
  /\ \A id \in DOMAIN resting : resting[id].cl \in forgotten \/ Tracked(t, resting[id].cl, id)

\* A table in which only the entries of o have changed fits when nothing but o's
\* own order on the book asks for them.
LEMMA FollowsFits ==
  ASSUME Types, NEW t, NEW o, NEW n \in Nat, NEW new, Fits(t), Follows(t, o, new), Numbered(t, o, n, new),
         Names(n, o), Era => n < next,
         \A r \in Under(sent) : r.kind = "leg" => r.ord # o,
         \A y \in Under(replies') : y.kind = "leg" => y.ord # o,
         \A id \in DOMAIN resting : resting[id].cl = o => o \in forgotten \/ Tracked(new, o, id)
  PROVE  Fits(new)
<1>0. 0 \notin DOMAIN resting /\ next \in Nat \ {0}
  BY TypeFacts
<1>1. \A e \in Under(new) : e.cl \in DOMAIN lo
  BY DEF Fits, Follows
<1>2. \A e \in Under(new) : Names(e.exch, e.cl) /\ (Era => e.exch < next)
  BY <1>0 DEF Fits, Numbered, Names
<1>3. \A r \in Under(sent) : r.kind = "leg" => Open(new, r.ord) /\ Listed(new, r.ord)
  BY DEF Fits, Follows
<1>4. \A y \in Under(replies') : y.kind = "leg" => Open(new, y.ord)
  BY DEF Fits, Follows
<1>5. \A id \in DOMAIN resting : resting[id].cl \in forgotten \/ Tracked(new, resting[id].cl, id)
  BY DEF Fits, Follows
<1>6. new \in Seq(Entries) /\ Len(new) <= MapSize
  BY DEF Follows
<1> QED
  BY <1>1, <1>2, <1>3, <1>4, <1>5, <1>6 DEF Fits

SeenBy(x) == IF x.kind = "leg" THEN ordmap_on_ack(om, x.ord, x.id, x.ok) ELSE om

LEMMA SeenFits ==
  ASSUME IInv, replies # <<>>, Read
  PROVE  Fits(om) /\ Fits(SeenBy(Head(replies)))
<1> DEFINE x == Head(replies)
<1>0. Types /\ OrdersOK /\ FramesOK /\ RestsOK /\ NamesOK /\ TableOK
  BY DEF IInv
<1>1. /\ x \in Under(replies) /\ x \in Answers
      /\ Under(replies') \subseteq Under(replies)
  BY DEF Read
<1>2. Fits(om)
  BY <1>0, <1>1 DEF Fits, Types, NamesOK, TableOK
<1>3. CASE x.kind # "leg"
  BY <1>2, <1>3 DEF SeenBy
<1>4. CASE x.kind = "leg"
  <2>1. /\ x.ord \in Nat /\ x.id \in Nat /\ x.ok \in BOOLEAN
    BY <1>0, <1>1, TypeFacts
  <2>2. /\ \A r \in Under(sent) : r.kind = "leg" => r.ord # x.ord
        /\ \A y \in Under(replies') : y.kind = "leg" => y.ord # x.ord
    BY <1>4 DEF Read, Apart
  <2>3. Names(x.id, x.ord) /\ (Era => x.id < next) /\ Open(om, x.ord)
    BY <1>0, <1>1, <1>4 DEF NamesOK, TableOK
  <2> DEFINE new == ordmap_on_ack(om, x.ord, x.id, x.ok)
  <2> HIDE DEF x
  <2>4. /\ Follows(om, x.ord, new) /\ Numbered(om, x.ord, x.id, new)
        /\ x.ok /\ Open(om, x.ord) /\ Listed(om, x.ord) => Tracked(new, x.ord, x.id)
    BY <1>2, <2>1, AckFollows DEF Fits
  <2> HIDE DEF new
  <2>5. ASSUME NEW id \in DOMAIN resting, resting[id].cl = x.ord, x.ord \notin forgotten
        PROVE  Tracked(new, x.ord, id)
    <3>1. x.ok /\ x.id = id
      BY <1>0, <1>1, <1>4, <2>5 DEF RestsOK
    <3>2. Tracked(om, x.ord, id)
      BY <1>2, <2>5 DEF Fits
    <3>3. Listed(om, x.ord)
      BY <3>2 DEF Tracked, Listed
    <3> QED
      BY <2>3, <2>4, <3>1, <3>3
  <2>6. Fits(new)
    BY <1>0, <1>2, <2>1, <2>2, <2>3, <2>4, <2>5, FollowsFits
  <2>7. SeenBy(x) = new
    BY <1>4 DEF SeenBy, new
  <2> QED
    BY <1>2, <2>6, <2>7 DEF x
<1> QED
  BY <1>3, <1>4

\* What every read leaves as it was, and what it makes of the table.
LEMMA ReadStep ==
  ASSUME IInv, Read, Fits(om'), UNCHANGED <<up, forgotten, conn, sent, resting, next, taken>>,
         lo' \in [DOMAIN lo' -> Legs], \A o \in DOMAIN lo' : LegOK(lo'[o]), DOMAIN lo' = DOMAIN lo,
         call' \in Requests \cup {Idle}, book' \in [asked : Nat, lag : Int, late : Nat],
         OrdersOK', FramesOK', RestsOK', BookOK'
  PROVE  IInv'
<1>0. Types /\ NamesOK /\ TableOK
  BY DEF IInv
<1>1. Under(replies') \subseteq Under(replies) /\ replies' \in Seq(Answers) /\ LineOK'
  BY DEF Read
<1>2. om' \in Seq(Entries) /\ Len(om') <= MapSize
  BY DEF Fits
<1>3. Types'
  BY <1>0, <1>1, <1>2 DEF Types
<1>4. NamesOK'
  <2>1. Era' <=> Era
    BY DEF Era
  <2>2. \A e \in Under(om') : Names(e.exch, e.cl) /\ (Era => e.exch < next)
    BY DEF Fits
  <2> QED
    BY <1>0, <1>1, <2>1, <2>2 DEF NamesOK, Names
<1>5. TableOK'
  BY <1>0, <1>1 DEF TableOK, Fits
<1> QED
  BY <1>1, <1>3, <1>4, <1>5 DEF IInv

\* The frames left are no staler than before, if no wait ends or starts.
LEMMA ReadKeepsBook ==
  ASSUME IInv, Read, UNCHANGED <<up, sent, book>>,
         call.kind = "book" => call'.kind = "book"
  PROVE  BookOK'
<1>0. Types /\ BookOK
  BY DEF IInv
<1>1. Under(replies') \subseteq Under(replies)
  BY DEF Read
<1>2. book.asked \in Nat /\ book.lag \in Int /\ book.late \in Nat
  BY <1>0 DEF Types
<1>3. \A y \in Under(sent) \cup Under(replies) : Recent(y) /\ y.id \in Nat
  BY <1>0, TypeFacts DEF BookOK
<1>4. \A y \in Under(sent) \cup Under(replies) : y.kind = "book" =>
        /\ y.id <= book.asked
        /\ up => book.asked - y.id + 1 <= book.late + (IF call'.kind = "book" THEN 1 ELSE 0)
  BY <1>2, <1>3 DEF Recent
<1> QED
  BY <1>0, <1>1, <1>4 DEF BookOK, Recent

LEMMA SkimStep ==
  ASSUME IInv, Read, Fits(om'),
         UNCHANGED <<lo, call, book, up, forgotten, conn, sent, resting, next, taken>>
  PROVE  IInv'
<1>0. Types /\ OrdersOK /\ FramesOK /\ RestsOK
  BY DEF IInv
<1>1. Under(replies') \subseteq Under(replies)
  BY DEF Read
<1>2. OrdersOK' /\ FramesOK' /\ RestsOK'
  BY <1>0, <1>1 DEF OrdersOK, FramesOK, RestsOK
<1>3. BookOK'
  BY ReadKeepsBook
<1>4. /\ lo' \in [DOMAIN lo' -> Legs] /\ \A o \in DOMAIN lo' : LegOK(lo'[o])
      /\ call' \in Requests \cup {Idle} /\ book' \in [asked : Nat, lag : Int, late : Nat]
  BY <1>0 DEF Types
<1> QED
  BY <1>2, <1>3, <1>4, ReadStep

LEMMA LegAnswered ==
  ASSUME IInv, replies # <<>>, Read, call # Idle, Wanted(Head(replies)), Head(replies).kind = "leg",
         Finish(Head(replies), SeenBy(Head(replies))),
         UNCHANGED <<up, forgotten, conn, sent, resting, next, taken>>
  PROVE  IInv'
<1> DEFINE x == Head(replies)
           o == call.ord
           leg == IF x.ok THEN Accepted(x) ELSE Refused
<1>0. Types /\ OrdersOK /\ FramesOK /\ RestsOK /\ NamesOK /\ TableOK /\ LineOK /\ BookOK
  BY DEF IInv
<1>1. x \in Under(replies) /\ x \in Answers /\ Under(replies') \subseteq Under(replies)
  BY DEF Read
<1>2. call.kind = "leg" /\ x.kind = "leg" /\ x.ord = o
  BY DEF Wanted
<1>3. o \in DOMAIN lo /\ ~lo[o].accepted /\ o \in Nat
  BY <1>0, <1>2, TypeFacts DEF OrdersOK
<1>4. x.ok => o \in DOMAIN taken /\ x.qty = taken[o] /\ (x.rests => x.qty < Qty)
  BY <1>0, <1>1, <1>2 DEF FramesOK
<1>5. /\ leg \in Legs /\ LegOK(leg) /\ (leg.accepted <=> x.ok) /\ (leg.live => leg.accepted)
      /\ x.ok => leg.filled = taken[o] /\ (x.rests => leg.canceled = 0)
  <2>1. CASE x.ok
    BY <1>1, <1>4, <2>1, AcceptedFacts
  <2>2. CASE ~x.ok
    <3>1. leg = Refused
      BY <2>2
    <3> HIDE DEF leg
    <3> QED
      BY <2>2, <3>1, NewLegFacts
  <2>3. x.ok \in BOOLEAN
    BY <1>0, <1>1, TypeFacts
  <2> QED
    BY <2>1, <2>2, <2>3
<1>6. call' = Idle /\ lo' = [lo EXCEPT ![o] = leg] /\ UNCHANGED book
      /\ om' = IF x.ok /\ ~x.rests THEN ordmap_close(SeenBy(x), o) ELSE SeenBy(x)
  BY <1>2 DEF Finish
<1> HIDE DEF leg
<1>7. Amended(o, leg)
  BY <1>0, <1>3, <1>5, <1>6, AmendFacts
<1>8. /\ \A r \in Under(sent) : r.kind = "leg" => r.ord # o
      /\ \A y \in Under(replies') : y.kind = "leg" => y.ord # o
  BY <1>2 DEF Read, Apart
<1>9. Fits(om')
  <2>1. Fits(SeenBy(x))
    BY SeenFits
  <2>2. CASE x.ok /\ ~x.rests
    <3> DEFINE t == SeenBy(x)
    <3>1. t \in Seq(Entries) /\ Len(t) <= MapSize
      BY <2>1 DEF Fits
    <3>2. om' = ordmap_close(t, o)
      BY <1>6, <2>2
    <3> HIDE DEF t
    <3>3. Follows(t, o, om') /\ Numbered(t, o, 0, om')
      BY <1>3, <3>1, <3>2, CloseFollows
    <3>4. \A id \in DOMAIN resting : resting[id].cl # o
      BY <1>0, <1>1, <1>2, <2>2 DEF RestsOK
    <3>5. Names(0, o) /\ 0 < next
      BY <1>0, TypeFacts DEF Names
    <3> QED
      BY <1>0, <1>8, <2>1, <3>3, <3>4, <3>5, FollowsFits DEF t
  <2>3. CASE ~(x.ok /\ ~x.rests)
    BY <1>6, <2>1, <2>3
  <2> QED
    BY <2>2, <2>3
<1> HIDE DEF x, o
<1>10. /\ DOMAIN lo' = DOMAIN lo /\ lo'[o] = leg
       /\ \A p \in DOMAIN lo : p # o => lo'[p] = lo[p]
       /\ \A p \in DOMAIN lo : lo[p].accepted => p # o
       /\ lo' \in [DOMAIN lo' -> Legs] /\ \A p \in DOMAIN lo' : LegOK(lo'[p])
  BY <1>3, <1>7 DEF Amended
<1>11. OrdersOK'
  <2>1. \A p \in DOMAIN lo : p # o => ~(lo[p].live /\ ~lo[p].accepted)
    BY <1>0 DEF OrdersOK, o
  <2>2. call'.kind # "leg" /\ call'.kind # "cancel"
    BY <1>6 DEF Idle
  <2> QED
    BY <1>0, <1>3, <1>4, <1>5, <1>10, <2>1, <2>2 DEF OrdersOK
<1>12. FramesOK'
  BY <1>0, <1>1, <1>8, <1>10 DEF FramesOK
<1>13. RestsOK'
  <2>1. ASSUME NEW id \in DOMAIN resting, lo'[resting[id].cl].accepted
        PROVE  lo'[resting[id].cl].canceled = 0
    <3>1. resting[id].cl \in DOMAIN lo
      BY <1>0, TypeFacts DEF RestsOK
    <3>2. CASE resting[id].cl = o
      <4>1. x.ok /\ x.rests
        BY <1>0, <1>1, <1>2, <3>2 DEF RestsOK
      <4> QED
        BY <1>5, <1>10, <3>2, <4>1
    <3>3. CASE resting[id].cl # o
      BY <1>0, <1>10, <2>1, <3>1, <3>3 DEF RestsOK
    <3> QED
      BY <3>2, <3>3
  <2> QED
    BY <1>0, <1>1, <2>1 DEF RestsOK
<1>14. BookOK'
  BY <1>2, <1>6, ReadKeepsBook
<1>15. book' \in [asked : Nat, lag : Int, late : Nat]
  BY <1>0, <1>6 DEF Types
<1> QED
  BY <1>6, <1>9, <1>10, <1>11, <1>12, <1>13, <1>14, <1>15, ReadStep

LEMMA CancelAnswered ==
  ASSUME IInv, replies # <<>>, Read, call # Idle, Wanted(Head(replies)), Head(replies).kind = "cancel",
         Finish(Head(replies), SeenBy(Head(replies))),
         UNCHANGED <<up, forgotten, conn, sent, resting, next, taken>>
  PROVE  IInv'
<1> DEFINE x == Head(replies)
           o == call.ord
           leg == omap_on_cancel(lo[o], x.qty)
<1>0. Types /\ OrdersOK /\ FramesOK /\ RestsOK /\ NamesOK /\ TableOK /\ LineOK /\ BookOK
  BY DEF IInv
<1>1. x \in Under(replies) /\ x \in Answers /\ Under(replies') \subseteq Under(replies)
  BY DEF Read
<1>2. call.kind = "cancel" /\ x.kind = "cancel" /\ x.ord = o
  BY DEF Wanted
<1>3. o \in DOMAIN lo /\ lo[o].accepted /\ o \in Nat /\ o \in DOMAIN taken /\ lo[o].filled = taken[o]
  BY <1>0, <1>2, TypeFacts DEF OrdersOK
<1>4. SeenBy(x) = om
  BY <1>2 DEF SeenBy
<1>5. call' = Idle /\ UNCHANGED book
      /\ lo' = (IF x.ok THEN [lo EXCEPT ![o] = omap_on_cancel(@, x.qty)] ELSE lo)
      /\ om' = (IF x.ok THEN ordmap_close(SeenBy(x), o) ELSE SeenBy(x))
  BY <1>2 DEF Finish
<1>6. Fits(om)
  BY SeenFits
<1>7. BookOK' /\ book' \in [asked : Nat, lag : Int, late : Nat]
  BY <1>0, <1>2, <1>5, ReadKeepsBook DEF Types
<1>8. CASE ~x.ok
  <2>1. UNCHANGED <<lo, om>>
    BY <1>4, <1>5, <1>8
  <2>2. OrdersOK'
    BY <1>0, <1>2, <1>5, <2>1 DEF OrdersOK, Idle
  <2>3. FramesOK' /\ RestsOK'
    BY <1>0, <1>1, <2>1 DEF FramesOK, RestsOK
  <2>4. lo' \in [DOMAIN lo' -> Legs] /\ \A p \in DOMAIN lo' : LegOK(lo'[p])
    BY <1>0, <2>1 DEF Types
  <2> QED
    BY <1>5, <1>6, <1>7, <2>1, <2>2, <2>3, <2>4, ReadStep
<1>9. CASE x.ok
  <2>1. lo[o].canceled = 0 /\ x.qty <= Qty - taken[o]
    BY <1>0, <1>1, <1>2, <1>9 DEF FramesOK
  <2>2. \A id \in DOMAIN resting : resting[id].cl # o
    BY <1>0, <1>1, <1>2, <1>9 DEF RestsOK
  <2>3. /\ leg \in Legs /\ LegOK(leg) /\ leg.accepted /\ leg.filled = taken[o]
    <3>1. lo[o] \in Legs /\ LegOK(lo[o]) /\ x.qty \in Nat /\ taken[o] \in Nat /\ Qty \in Nat
      BY <1>0, <1>1, <1>3, TypeFacts, SizeAssumption
    <3>2. lo[o].filled + lo[o].canceled + x.qty <= Qty
      BY <1>3, <2>1, <3>1
    <3> HIDE DEF o, x
    <3> QED
      BY <1>3, <3>1, <3>2, CancelFacts
  <2>4. lo' = [lo EXCEPT ![o] = leg]
    BY <1>5, <1>9
  <2> HIDE DEF leg
  <2>5. Amended(o, leg)
    BY <1>0, <1>3, <2>3, <2>4, AmendFacts
  <2>6. Fits(om')
    <3>1. om \in Seq(Entries) /\ Len(om) <= MapSize
      BY <1>0 DEF Types
    <3>2. om' = ordmap_close(om, o)
      BY <1>4, <1>5, <1>9
    <3>3. Follows(om, o, om') /\ Numbered(om, o, 0, om')
      BY <1>3, <3>1, <3>2, CloseFollows
    <3>4. Names(0, o) /\ 0 < next
      BY <1>0, TypeFacts DEF Names
    <3>5. /\ \A r \in Under(sent) : r.kind = "leg" => r.ord # o
          /\ \A y \in Under(replies') : y.kind = "leg" => y.ord # o
      BY <1>0, <1>1, <1>3 DEF FramesOK
    <3> QED
      BY <1>0, <1>6, <2>2, <3>3, <3>4, <3>5, FollowsFits
  <2>7. \A y \in Under(replies') : y.kind = "cancel" /\ y.ok => y.ord # o
    BY <1>2, <1>9 DEF Read, Distinct
  <2> HIDE DEF x, o
  <2>8. /\ DOMAIN lo' = DOMAIN lo /\ lo'[o] = leg
        /\ \A p \in DOMAIN lo : p # o => lo'[p] = lo[p]
        /\ lo' \in [DOMAIN lo' -> Legs] /\ \A p \in DOMAIN lo' : LegOK(lo'[p])
    BY <2>5 DEF Amended
  <2>9. OrdersOK'
    BY <1>0, <1>2, <1>3, <1>5, <2>3, <2>8 DEF OrdersOK, Idle
  <2>10. FramesOK'
    BY <1>0, <1>1, <1>3, <2>3, <2>7, <2>8 DEF FramesOK
  <2>11. RestsOK'
    <3>1. \A id \in DOMAIN resting : resting[id].cl \in DOMAIN lo
      BY <1>0, TypeFacts DEF RestsOK
    <3> QED
      BY <1>0, <1>1, <2>2, <2>8, <3>1 DEF RestsOK
  <2> QED
    BY <1>5, <1>7, <2>6, <2>8, <2>9, <2>10, <2>11, ReadStep
<1> QED
  BY <1>8, <1>9

LEMMA BookAnswered ==
  ASSUME IInv, up, replies # <<>>, Read, call # Idle, Wanted(Head(replies)), Head(replies).kind = "book",
         Finish(Head(replies), SeenBy(Head(replies))),
         UNCHANGED <<up, forgotten, conn, sent, resting, next, taken>>
  PROVE  IInv'
<1> DEFINE x == Head(replies)
<1>0. Types /\ OrdersOK /\ FramesOK /\ RestsOK /\ NamesOK /\ TableOK /\ LineOK /\ BookOK
  BY DEF IInv
<1>1. x \in Under(replies) /\ x \in Answers /\ Under(replies') \subseteq Under(replies)
  BY DEF Read
<1>2. call.kind = "book" /\ x.kind = "book"
  BY DEF Wanted
<1>3. /\ call' = Idle /\ UNCHANGED <<lo, om>>
      /\ book' = [book EXCEPT !.lag = book.asked - x.id]
  BY <1>2 DEF Finish
<1>4. book \in [asked : Nat, lag : Int, late : Nat] /\ x.id \in Nat
  BY <1>0, <1>1, TypeFacts DEF Types
<1> HIDE DEF x
<1>5. /\ book' \in [asked : Nat, lag : Int, late : Nat]
      /\ book'.asked = book.asked /\ book'.late = book.late /\ book'.lag = book.asked - x.id
  BY <1>3, <1>4
<1>6. book.asked \in Nat /\ book.late \in Nat /\ book.asked - x.id + 1 <= book.late + 1
  BY <1>0, <1>1, <1>2, <1>4 DEF BookOK, Recent
<1>7. \A y \in Under(replies') \cup Under(sent) :
        y.kind = "book" => y.id \in Nat /\ y.id <= book.asked /\ x.id < y.id
  <2>1. \A y \in Under(replies) \cup Under(sent) : Recent(y) /\ y.id \in Nat
    BY <1>0, TypeFacts DEF BookOK
  <2>2. \A y \in Under(replies') \cup Under(sent) : Apart(x, y)
    BY DEF Read, x
  <2> QED
    BY <1>1, <1>2, <2>1, <2>2 DEF Recent, Apart
<1>8. BookOK'
  <2>1. book'.lag <= book'.late
    BY <1>4, <1>5, <1>6
  <2>2. \A y \in Under(replies') \cup Under(sent) : y.kind = "book" =>
          y.id <= book'.asked /\ book'.asked - y.id + 1 <= book'.late + 0
    BY <1>4, <1>5, <1>6, <1>7
  <2>3. call'.kind # "book"
    BY <1>3 DEF Idle
  <2>4. sent' = sent
    OBVIOUS
  <2> QED
    BY <2>1, <2>2, <2>3, <2>4 DEF BookOK, Recent
<1>9. OrdersOK'
  BY <1>0, <1>2, <1>3 DEF OrdersOK, Idle
<1>10. FramesOK' /\ RestsOK'
  BY <1>0, <1>1, <1>3 DEF FramesOK, RestsOK
<1>11. lo' \in [DOMAIN lo' -> Legs] /\ \A p \in DOMAIN lo' : LegOK(lo'[p])
  BY <1>0, <1>3 DEF Types
<1>12. Fits(om')
  BY <1>3, SeenFits
<1> QED
  BY <1>3, <1>5, <1>8, <1>9, <1>10, <1>11, <1>12, ReadStep

LEMMA FrameStep ==
  ASSUME IInv, on_frame
  PROVE  IInv'
<1> DEFINE x == Head(replies)
<1>0. Types /\ LineOK
  BY DEF IInv
<1>1. /\ up /\ replies # <<>> /\ replies' = Tail(replies)
      /\ UNCHANGED <<up, forgotten, conn, sent, resting, next, taken>>
  BY DEF on_frame, exchange
<1>2. Read
  <2>1. UNCHANGED sent
    BY <1>1
  <2> QED
    BY <1>0, <1>1, <2>1, ReadLine
<1>3. Fits(om) /\ Fits(SeenBy(x))
  BY <1>1, <1>2, SeenFits
<1>4. \/ call = Idle /\ UNCHANGED <<lo, call, om, book>>
      \/ call # Idle /\ om' = SeenBy(x) /\ UNCHANGED <<lo, call, book>>
      \/ call # Idle /\ Wanted(x) /\ Finish(x, SeenBy(x))
  BY DEF on_frame, SeenBy
<1>5. x.kind \in Kinds
  BY <1>0, <1>2, TypeFacts DEF Read
<1> HIDE DEF x
<1>6. CASE call = Idle /\ UNCHANGED <<lo, call, om, book>>
  <2>1. Fits(om')
    BY <1>3, <1>6
  <2> QED
    BY <1>1, <1>2, <1>6, <2>1, SkimStep
<1>7. CASE call # Idle /\ om' = SeenBy(x) /\ UNCHANGED <<lo, call, book>>
  <2>1. Fits(om')
    BY <1>3, <1>7
  <2> QED
    BY <1>1, <1>2, <1>7, <2>1, SkimStep
<1>8. CASE call # Idle /\ Wanted(x) /\ Finish(x, SeenBy(x))
  <2>1. CASE x.kind = "leg"
    BY <1>1, <1>2, <1>8, <2>1, LegAnswered DEF x
  <2>2. CASE x.kind = "cancel"
    BY <1>1, <1>2, <1>8, <2>2, CancelAnswered DEF x
  <2>3. CASE x.kind = "book"
    BY <1>1, <1>2, <1>8, <2>3, BookAnswered DEF x
  <2> QED
    BY <1>5, <2>1, <2>2, <2>3 DEF Kinds
<1> QED
  BY <1>4, <1>6, <1>7, <1>8

LEMMA Stutter ==
  ASSUME IInv, UNCHANGED vars
  PROVE  IInv'
<1>1. UNCHANGED <<lo, call, up, om, forgotten, book, resting, next, taken, conn, sent, replies>>
  BY DEF vars, ledger, exchange, line
<1>2. UNCHANGED <<sent, replies>>
  BY <1>1
<1>3. LineOK'
  BY <1>2 DEF IInv, LineOK, Under
<1>4. Types' /\ OrdersOK' /\ FramesOK' /\ RestsOK'
  BY <1>1 DEF IInv, Types, OrdersOK, FramesOK, RestsOK
<1>5. NamesOK'
  BY <1>1 DEF IInv, NamesOK, Names, Era
<1>6. TableOK' /\ BookOK'
  BY <1>1 DEF IInv, TableOK, BookOK, Recent
<1> QED
  BY <1>3, <1>4, <1>5, <1>6 DEF IInv

LEMMA StepOK == IInv /\ [Next]_vars => IInv'
<1> SUFFICES ASSUME IInv, [Next]_vars PROVE IInv'
  OBVIOUS
<1>1. CASE UNCHANGED vars
  BY <1>1, Stutter
<1>2. CASE \E o \in Orders : send_remote(o) \/ cancel_remote(o)
  BY <1>2, SendStep, CancelStep
<1>3. CASE remote_book \/ on_msg \/ MakerFill \/ on_frame
  BY <1>3, BookStep, ServeStep, MakerStep, FrameStep
<1>4. CASE wait_for_expires \/ pump_once_fails \/ Break \/ VenueRestart \/ link_connect
  BY <1>4, ExpireStep, FailStep, BreakStep, RestartStep, ConnectStep
<1> QED
  BY <1>1, <1>2, <1>3, <1>4 DEF Next

LEMMA Invariance == Spec => []IInv
BY InitOK, StepOK, PTL DEF Spec

-----------------------------------------------------------------------------
(* What follows.                                                            *)

\* ordmap_add, omap_on_fill, omap_on_cancel, session_send: for every number of
\* orders, size of the table and of the queue, the state is well formed and no
\* leg is recorded beyond its shares.
THEOREM TypeCorrect == Spec => []TypeOK
<1>1. IInv => TypeOK
  <2> SUFFICES ASSUME IInv PROVE TypeOK
    OBVIOUS
  <2>0. Types
    BY DEF IInv
  <2>1. Qty \in Nat
    BY SizeAssumption
  <2>2. \A o \in DOMAIN lo : LegLeft(lo[o]) \in 0..Qty
    BY <2>0, <2>1, TypeFacts DEF LegOK, LegLeft
  <2>3. call.kind \in {"none", "leg", "cancel", "book"}
    <3>1. Idle.kind = "none" /\ \A r \in Requests : r.kind \in {"leg", "cancel", "book"}
      BY DEF Idle, Requests, Kinds
    <3> QED
      BY <2>0, <3>1 DEF Types
  <2>4. \A i \in DOMAIN om : om[i].st \in {"pending", "live", "indoubt", "done"}
    <3>1. \A e \in Entries : e.st \in {"pending", "live", "indoubt", "done"}
      BY DEF Entries, States
    <3> QED
      BY <2>0, <3>1 DEF Types
  <2>5. \A id \in DOMAIN resting : id < next /\ resting[id].qty \in 1..Qty
    BY <2>0, TypeFacts
  <2> QED
    BY <2>0, <2>2, <2>3, <2>4, <2>5 DEF Types, TypeOK
<1> QED
  BY <1>1, Invariance, PTL

\* send_remote, on_frame: however many waits expire and answers come late, a leg
\* recorded as accepted carries exactly what the exchange traded for it on
\* arrival.
THEOREM TradesRecorded == Spec => []RecordedAsTraded
<1>1. IInv => RecordedAsTraded
  BY DEF IInv, OrdersOK, RecordedAsTraded
<1> QED
  BY <1>1, Invariance, PTL

\* cancel_remote, take_slot, on_frame: an accepted leg that the ledger has closed
\* does not rest at the exchange, and what rests there is still in the table,
\* under its own number or not known yet, whatever made room in it.
THEOREM TableFollows == Spec => []TableFollowsOrders
<1>1. IInv => TableFollowsOrders
  <2> SUFFICES ASSUME IInv, NEW id \in DOMAIN resting
               PROVE  /\ lo[resting[id].cl].accepted => lo[resting[id].cl].live
                      /\ \/ resting[id].cl \in forgotten
                         \/ \E i \in find_cl(om, resting[id].cl) :
                              om[i].st \in {"pending", "indoubt"} \/ (om[i].st = "live" /\ om[i].exch = id)
    BY DEF TableFollowsOrders
  <2> DEFINE o == resting[id].cl
  <2>0. Types /\ OrdersOK /\ RestsOK /\ TableOK
    BY DEF IInv
  <2>1. ASSUME lo[o].accepted PROVE lo[o].live
    <3>1. /\ o \in DOMAIN taken /\ resting[id].qty <= Qty - taken[o] /\ lo[o].canceled = 0
          /\ o \in DOMAIN lo /\ lo[o].filled = taken[o]
      BY <2>0, <2>1, TypeFacts DEF RestsOK, OrdersOK
    <3>2. resting[id].qty \in 1..Qty /\ taken[o] \in Nat /\ Qty \in Nat /\ LegOK(lo[o])
      BY <2>0, <3>1, TypeFacts, SizeAssumption
    <3> HIDE DEF o
    <3>3. lo[o].filled + lo[o].canceled < Qty
      <4>1. taken[o] + 0 < Qty
        <5>1. PICK q \in 1..Qty : q <= Qty - taken[o]
          BY <3>1, <3>2 DEF o
        <5> QED
          BY <3>2, <5>1
      <4> QED
        BY <3>1, <4>1
    <3> QED
      BY <3>2, <3>3 DEF LegOK
  <2>2. ASSUME o \notin forgotten
        PROVE  \E i \in find_cl(om, o) :
                 om[i].st \in {"pending", "indoubt"} \/ (om[i].st = "live" /\ om[i].exch = id)
    <3>1. PICK e \in Under(om) : /\ e.cl = o
                                 /\ e.st \in {"pending", "indoubt"} \/ (e.st = "live" /\ e.exch = id)
      BY <2>0, <2>2 DEF TableOK, Tracked
    <3>2. PICK i \in 1..Len(om) : om[i] = e
      BY DEF Under
    <3>3. i \in find_cl(om, o)
      BY <2>0, <3>1, <3>2 DEF find_cl, Types
    <3> QED
      BY <3>1, <3>2, <3>3
  <2> QED
    BY <2>1, <2>2
<1> QED
  BY <1>1, Invariance, PTL

\* link_connect, ordmap_cancel_key: a cancel on its way names the order it is for
\* or no order at all, although an exchange that was started again gives its
\* numbers out anew.
THEOREM CancelsNameTheirOrder == Spec => []CancelNamesItsOrder
<1>1. IInv => CancelNamesItsOrder
  <2> SUFFICES ASSUME IInv, NEW i \in DOMAIN sent, sent[i].kind = "cancel", sent[i].id \in DOMAIN resting
               PROVE  resting[sent[i].id].cl = sent[i].ord
    BY DEF CancelNamesItsOrder
  <2>1. sent[i] \in Under(sent)
    <3>1. sent \in Seq(Requests)
      BY DEF IInv, Types
    <3> QED
      BY <3>1, UnderFacts
  <2> QED
    BY <2>1 DEF IInv, NamesOK, Names
<1> QED
  BY <1>1, Invariance, PTL

\* remote_book: the book the ledger shows is behind by no more queries than have
\* expired on the connection in use.
THEOREM BookKeepsUp == Spec => []BookNoStaler
<1>1. IInv => BookNoStaler
  BY DEF IInv, BookOK, BookNoStaler
<1> QED
  BY <1>1, Invariance, PTL
=============================================================================
