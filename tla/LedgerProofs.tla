---------------------------- MODULE LedgerProofs ----------------------------
(***************************************************************************)
(* For every set of accounts and markets, every band, start, feed and      *)
(* request: what the ledger's accounts, order map and books owe one        *)
(* another, after any sequence of messages. The sections follow a message  *)
(* through its handler, a market's answer to a leg first, then the legs of *)
(* an order, and end with the invariants and the theorems.                 *)
(***************************************************************************)
EXTENDS LedgerLemmas

-----------------------------------------------------------------------------
(* Traffic that is nobody's order here.                                     *)

\* c is b with some orders gone or for less, none of them a user's.
Thinner(c, b) ==
  /\ BookOK(c) /\ Len(c) <= Len(b) /\ ComesFrom(c, b)
  /\ \A u \in Nat \ {0}, q \in Nat : Rests(b, u, q) => Rests(c, u, q)

LEMMA ThinnerItself ==
  ASSUME NEW b, BookOK(b)
  PROVE  Thinner(b, b)
<1>1. Len(b) \in Nat /\ b \in Seq(BookOrder)
  BY DEF BookOK
<1> QED
  BY <1>1, ComesFromItself DEF Thinner

LEMMA ThinnerStill ==
  ASSUME NEW b, BookOK(b), NEW c, Thinner(c, b), NEW d, Thinner(d, c)
  PROVE  Thinner(d, b)
<1>1. Len(b) \in Nat /\ Len(c) \in Nat /\ Len(d) \in Nat
  BY DEF BookOK, Thinner
<1>2. ComesFrom(d, b)
  BY ComesFromFurther DEF Thinner
<1> QED
  BY <1>1, <1>2 DEF Thinner

LEMMA ThinnerFollows ==
  ASSUME NEW s, Whole(s), NEW m \in Markets, NEW c, Thinner(c, s.book[m]),
         NEW t, t = [s EXCEPT !.book[m] = c]
  PROVE  Follows(t, s)
<1>1. PICK b : b = s.book[m]
  OBVIOUS
<1>2. s \in HandlerState /\ BookOK(b) /\ Len(b) <= PoolCap
  BY <1>1 DEF Whole, Agree
<1>3. BookOK(c) /\ Len(c) <= Len(b) /\ ComesFrom(c, b) /\ c \in Seq(BookOrder)
  BY <1>1 DEF Thinner, BookOK
<1>4. Len(c) <= PoolCap
  BY <1>2, <1>3, LedgerAssumption DEF BookOK
<1>5. OnlyBook(t, s, m, c)
  BY <1>2, <1>3, BookSet
<1>6. \A u \in Nat \ {0}, q \in Nat : Rests(s.book[m], u, q) => Rests(c, u, q)
  BY DEF Thinner
<1>7. Onward(c, s.book[m], 0)
  BY <1>1, <1>3, OnwardFrom
<1> QED
  BY <1>3, <1>4, <1>5, <1>6, <1>7, BookFollows

\* Cancelling what is no user's.
LEMMA RetireThins ==
  ASSUME NEW b, BookOK(b), NEW owner \in Int, owner <= 0
  PROVE  Thinner(match_cancel(b, owner).book, b)
<1>1. PICK r : r = match_cancel(b, owner)
  OBVIOUS
<1>2. Withdrawn(r, b, owner)
  BY <1>1, CancelContract
<1>3. \A u \in Nat \ {0}, q \in Nat : u \in Int /\ q \in Int /\ u # owner
  OBVIOUS
<1> QED
  BY <1>1, <1>2, <1>3 DEF Withdrawn, Thinner

LEMMA TickFollows ==
  ASSUME NEW s, Whole(s), NEW m \in Markets, NEW old \in Int, old <= 0, NEW owner \in Int, owner <= 0,
         NEW side \in Side, NEW price, NEW qty \in Nat, NEW z,
         z = [s EXCEPT !.book[m] = match_cancel(s.book[m], old).book],
         NEW t, t = Foreign(z, m, owner, side, price, qty)
  PROVE  Follows(t, s)
<1>1. BookOK(s.book[m])
  BY DEF Whole, Agree
<1>2. Thinner(match_cancel(s.book[m], old).book, s.book[m])
  BY <1>1, RetireThins
<1>3. Follows(z, s)
  BY <1>2, ThinnerFollows
<1>4. Whole(z)
  BY <1>3 DEF Follows
<1>5. Follows(t, z)
  BY <1>4, ForeignContract
<1> QED
  BY <1>3, <1>5, FollowsFurther

\* The orders of c are those of b at some of the places in J.
KeptFrom(f, c, b, J) == Shifted(f, c, DOMAIN c, b) /\ \A i \in DOMAIN c : f[i] \in J

\* What feed_shrink has kept after the orders of b in J: some of them, each for
\* no more than it had, in the order they stood, and the users' as they were.
Dropping == [drop : Nat, book : Seq(BookOrder)]
Dropped(acc, b, J) ==
  /\ acc \in Dropping /\ Len(acc.book) <= Cardinality(J)
  /\ \A i \in DOMAIN acc.book :
       /\ Rem(acc.book[i]) > 0
       /\ \E j \in J : /\ acc.book[i].owner = b[j].owner /\ acc.book[i].side = b[j].side
                       /\ acc.book[i].price = b[j].price
                       /\ b[j].owner > 0 => acc.book[i] = b[j]
  /\ \A i, j \in DOMAIN acc.book :
       acc.book[i].owner > 0 /\ acc.book[i].owner = acc.book[j].owner => i = j
  /\ \A j \in J : b[j].owner > 0 => \E i \in DOMAIN acc.book : acc.book[i] = b[j]
  /\ \E f : KeptFrom(f, acc.book, b, J)

LEMMA AppendIs ==
  ASSUME NEW X, NEW c \in Seq(X), NEW o \in X, NEW d, d = Append(c, o)
  PROVE  /\ d \in Seq(X) /\ Len(d) = Len(c) + 1 /\ DOMAIN d = 1..Len(c) + 1
         /\ d[Len(c) + 1] = o /\ \A i \in DOMAIN c : i \in DOMAIN d /\ d[i] = c[i]
OBVIOUS

LEMMA DropFromKeeps ==
  ASSUME NEW b, BookOK(b), NEW J \in SUBSET (DOMAIN b), NEW k \in J,
         \A j \in J \ {k} : j < k, NEW acc,
         Dropped(acc, b, J \ {k}), NEW side, NEW p, NEW t, t = DropFrom(acc, b[k], side, p)
  PROVE  Dropped(t, b, J)
<1>1. PICK o, c : o = b[k] /\ c = acc.book
  OBVIOUS
<1>2. /\ b \in Seq(BookOrder) /\ o \in BookOrder /\ Rem(o) > 0 /\ Rem(o) \in Int
      /\ o.owner \in Int /\ o.qty \in Int /\ o.filled \in Int
  <2>1. b \in Seq(BookOrder) /\ \A i \in DOMAIN b : Rem(b[i]) > 0
    BY DEF BookOK
  <2>2. o \in BookOrder /\ Rem(o) > 0
    BY <1>1, <2>1
  <2>3. o.owner \in Int /\ o.qty \in Int /\ o.filled \in Int
    BY <2>2 DEF BookOrder
  <2> QED
    BY <2>1, <2>2, <2>3 DEF Rem
<1>3. acc.drop \in Nat /\ c \in Seq(BookOrder) /\ Len(c) \in Nat /\ DOMAIN c = 1..Len(c)
  BY <1>1 DEF Dropped, Dropping
<1>4. Cardinality(J) \in Nat /\ Cardinality(J \ {k}) \in Nat /\ Cardinality(J \ {k}) = Cardinality(J) - 1
  <2>1. PICK len : len = Len(b)
    OBVIOUS
  <2>2. len \in Nat /\ J \in SUBSET (1..len)
    BY <1>2, <2>1
  <2> QED
    BY <2>2, IndexSets
<1>5. PICK n : n = IF ~Quote(o, side, p) THEN 0 ELSE IF acc.drop < Rem(o) THEN acc.drop ELSE Rem(o)
  OBVIOUS
<1>6. n \in Nat /\ n <= Rem(o) /\ n <= acc.drop /\ (o.owner > 0 => n = 0)
  BY <1>2, <1>3, <1>5 DEF Quote, IsUser
<1>7. t = [drop |-> acc.drop - n,
           book |-> IF n = Rem(o) THEN c ELSE Append(c, [o EXCEPT !.qty = @ - n])]
  BY <1>1, <1>5 DEF DropFrom
<1>8. PICK J2 : J2 = J \ {k}
  OBVIOUS
<1>9. /\ \A i \in DOMAIN c :
           /\ Rem(c[i]) > 0
           /\ \E j \in J2 : /\ c[i].owner = b[j].owner /\ c[i].side = b[j].side
                            /\ c[i].price = b[j].price
                            /\ b[j].owner > 0 => c[i] = b[j]
      /\ \A i, j \in DOMAIN c : c[i].owner > 0 /\ c[i].owner = c[j].owner => i = j
      /\ \A j \in J2 : b[j].owner > 0 => \E i \in DOMAIN c : c[i] = b[j]
      /\ Len(c) <= Cardinality(J2)
  BY <1>1, <1>8 DEF Dropped
<1>20. PICK f : KeptFrom(f, c, b, J2)
  BY <1>1, <1>8 DEF Dropped
<1>21. /\ \A i \in DOMAIN c : /\ f[i] \in J2 /\ f[i] \in J /\ f[i] < k /\ f[i] \in DOMAIN b
                              /\ c[i].owner = b[f[i]].owner /\ c[i].side = b[f[i]].side
                              /\ c[i].price = b[f[i]].price /\ Rem(c[i]) <= Rem(b[f[i]])
       /\ \A i \in DOMAIN c, l \in DOMAIN c : l < i => f[l] < f[i]
  BY <1>8, <1>20 DEF KeptFrom, Shifted
<1>10. CASE n = Rem(o)
  <2>1. t.book = c /\ t.drop = acc.drop - n /\ t = [drop |-> acc.drop - n, book |-> c]
    BY <1>7, <1>10
  <2>2. t \in Dropping
    BY <1>3, <1>6, <2>1 DEF Dropping
  <2>3. o.owner <= 0
    BY <1>2, <1>6, <1>10
  <2>4. \A j \in J : b[j].owner > 0 => j \in J2
    BY <1>1, <1>2, <1>8, <2>3
  <2>5. KeptFrom(f, c, b, J)
    BY <1>20, <1>21 DEF KeptFrom
  <2> QED
    BY <1>3, <1>4, <1>8, <1>9, <2>1, <2>2, <2>4, <2>5 DEF Dropped
<1>11. CASE n # Rem(o)
  <2>1. PICK x : x = [o EXCEPT !.qty = @ - n]
    OBVIOUS
  <2>2. /\ x \in BookOrder /\ x.owner = o.owner /\ x.side = o.side /\ x.price = o.price
        /\ x.qty = o.qty - n /\ x.filled = o.filled
    <3>1. x = [owner |-> o.owner, side |-> o.side, price |-> o.price, qty |-> o.qty - n, filled |-> o.filled]
      BY <1>2, <2>1 DEF BookOrder
    <3>2. o.side \in Side /\ o.price \in Price /\ o.qty - n \in Int
      BY <1>2, <1>6 DEF BookOrder
    <3> QED
      BY <1>2, <3>1, <3>2 DEF BookOrder
  <2>3. Rem(x) > 0
    BY <1>2, <1>6, <1>11, <2>2 DEF Rem
  <2>4. o.owner > 0 => x = o
    <3>1. ASSUME o.owner > 0 PROVE o.qty - n = o.qty
      BY <1>2, <1>6, <3>1
    <3>2. o \in [owner : Int, side : Side, price : Price, qty : Int, filled : Int]
      BY <1>2 DEF BookOrder
    <3> QED
      BY <2>1, <3>1, <3>2
  <2>5. PICK d : d = Append(c, x)
    OBVIOUS
  <2>6. /\ d \in Seq(BookOrder) /\ Len(d) = Len(c) + 1 /\ DOMAIN d = 1..Len(c) + 1
        /\ d[Len(c) + 1] = x /\ \A i \in DOMAIN c : i \in DOMAIN d /\ d[i] = c[i]
    BY <1>3, <2>2, <2>5, AppendIs
  <2>7. t.book = d /\ t = [drop |-> acc.drop - n, book |-> d]
    BY <1>7, <1>11, <2>1, <2>5
  <2>8. t \in Dropping
    BY <1>3, <1>6, <2>6, <2>7 DEF Dropping
  <2>9. \A i \in DOMAIN d : i \in DOMAIN c \/ i = Len(c) + 1
    BY <1>3, <2>6
  <2>10. ASSUME NEW i \in DOMAIN d
         PROVE  /\ Rem(d[i]) > 0
                /\ \E j \in J : /\ d[i].owner = b[j].owner /\ d[i].side = b[j].side
                                /\ d[i].price = b[j].price
                                /\ b[j].owner > 0 => d[i] = b[j]
    <3>1. CASE i \in DOMAIN c
      BY <1>8, <1>9, <2>6, <3>1
    <3>2. CASE i = Len(c) + 1
      BY <1>1, <2>2, <2>3, <2>4, <2>6, <3>2
    <3> QED
      BY <2>9, <3>1, <3>2
  <2>11. ASSUME NEW i \in DOMAIN c, c[i].owner > 0 PROVE c[i].owner # o.owner
    <3>1. PICK j \in J2 : c[i].owner = b[j].owner
      BY <1>9
    <3>2. j # k /\ j \in DOMAIN b /\ k \in DOMAIN b
      BY <1>8, <3>1
    <3> QED
      BY <1>1, <2>11, <3>1, <3>2 DEF BookOK
  <2>12. ASSUME NEW i \in DOMAIN d, NEW j \in DOMAIN d, d[i].owner > 0, d[i].owner = d[j].owner
         PROVE  i = j
    <3>1. CASE i \in DOMAIN c /\ j \in DOMAIN c
      BY <1>9, <2>6, <2>12, <3>1
    <3>2. CASE i \in DOMAIN c /\ j = Len(c) + 1
      BY <2>2, <2>6, <2>11, <2>12, <3>2
    <3>3. CASE i = Len(c) + 1 /\ j \in DOMAIN c
      BY <2>2, <2>6, <2>11, <2>12, <3>3
    <3> QED
      BY <2>9, <3>1, <3>2, <3>3
  <2>13. ASSUME NEW j \in J, b[j].owner > 0 PROVE \E i \in DOMAIN d : d[i] = b[j]
    <3>1. CASE j \in J2
      BY <1>9, <2>6, <2>13, <3>1
    <3>2. CASE j = k
      <4>1. d[Len(c) + 1] = b[j] /\ Len(c) + 1 \in DOMAIN d
        BY <1>1, <1>3, <2>4, <2>6, <2>13, <3>2
      <4> QED
        BY <4>1
    <3> QED
      BY <1>8, <3>1, <3>2
  <2>14. Len(d) <= Cardinality(J)
    BY <1>3, <1>4, <1>8, <1>9, <2>6
  <2>15. \E h : KeptFrom(h, d, b, J)
    <3>1. PICK h : h = [i \in DOMAIN d |-> IF i \in DOMAIN c THEN f[i] ELSE k]
      OBVIOUS
    <3>2. ~(Len(c) + 1 \in DOMAIN c) /\ Len(c) + 1 \in DOMAIN d /\ \A i \in DOMAIN c : i \in Int /\ i < Len(c) + 1
      BY <1>3, <2>6
    <3>3. h[Len(c) + 1] = k /\ \A i \in DOMAIN c : h[i] = f[i]
      BY <2>6, <3>1, <3>2
    <3>4. ASSUME NEW i \in DOMAIN d
          PROVE  /\ h[i] \in J /\ h[i] \in DOMAIN b
                 /\ d[i].owner = b[h[i]].owner /\ d[i].side = b[h[i]].side
                 /\ d[i].price = b[h[i]].price /\ Rem(d[i]) <= Rem(b[h[i]])
      <4>1. CASE i \in DOMAIN c
        BY <1>21, <2>6, <3>3, <4>1
      <4>2. CASE i = Len(c) + 1
        <5>1. Rem(x) <= Rem(o)
          BY <1>2, <1>6, <2>2 DEF Rem
        <5> QED
          BY <1>1, <2>2, <2>6, <3>3, <4>2, <5>1
      <4> QED
        BY <2>9, <4>1, <4>2
    <3>5. ASSUME NEW i \in DOMAIN d, NEW l \in DOMAIN d, l < i PROVE h[l] < h[i]
      <4>1. l \in DOMAIN c
        BY <1>3, <2>9, <3>2, <3>5
      <4>2. CASE i \in DOMAIN c
        BY <1>21, <3>3, <3>5, <4>1, <4>2
      <4>3. CASE i = Len(c) + 1
        BY <1>21, <3>3, <4>1, <4>3
      <4> QED
        BY <2>9, <4>2, <4>3
    <3>6. KeptFrom(h, d, b, J)
      BY <3>4, <3>5 DEF KeptFrom, Shifted
    <3> QED
      BY <3>6
  <2> QED
    BY <2>7, <2>8, <2>10, <2>12, <2>13, <2>14, <2>15 DEF Dropped
<1> QED
  BY <1>10, <1>11

LEMMA ShrinkThins ==
  ASSUME NEW b, BookOK(b), NEW side, NEW p, NEW drop \in Nat
  PROVE  Thinner(feed_shrink(b, side, p, drop), b)
<1> DEFINE n == Len(b)
           both(t, o) == DropFrom(t, o, side, p)
           Good(t, J) == Dropped(t, b, J)
           St == Dropping
           s == [drop |-> drop, book |-> << >>]
           F == [k \in 1..n |-> [t \in St |-> both(t, b[k])]]
           T == [J \in SUBSET (1..n) |-> {t \in St : Good(t, J)}]
           Runs(h) == h = [J \in SUBSET (1..n) |->
                             IF J = {} THEN s ELSE both(h[J \ {Max(J)}], b[Max(J)])]
<1>0. n \in Nat /\ DOMAIN b = 1..n /\ b \in Seq(BookOrder)
  BY DEF BookOK
<1>1. s \in T[{}]
  <2>1. s \in St
    BY DEF Dropping
  <2>2. Good(s, {})
    <3>1. Len(<< >>) = 0 /\ DOMAIN << >> = {} /\ Cardinality({}) = 0
      BY FS_EmptySet
    <3> QED
      BY <2>1, <3>1 DEF Dropped, KeptFrom, Shifted
  <2>3. {} \in SUBSET (1..n)
    OBVIOUS
  <2> HIDE DEF Good, s
  <2> QED
    BY <2>1, <2>2, <2>3
<1>2. ASSUME NEW J \in SUBSET (1..n), NEW k \in J, \A j \in J \ {k} : j < k, NEW t \in T[J \ {k}]
      PROVE  both(t, b[k]) \in T[J] /\ F[k][t] = both(t, b[k])
  <2>1. J \ {k} \in SUBSET (1..n) /\ k \in 1..n
    OBVIOUS
  <2>2. t \in St /\ Good(t, J \ {k})
    BY <2>1
  <2>3. PICK z : z = both(t, b[k])
    OBVIOUS
  <2>4. Good(z, J)
    BY <1>0, <1>2, <2>2, <2>3, DropFromKeeps
  <2>5. z \in St
    BY <2>4 DEF Dropped
  <2> HIDE DEF both, Good
  <2>6. z \in T[J]
    BY <2>4, <2>5
  <2> QED
    BY <2>1, <2>2, <2>3, <2>6
<1> HIDE DEF both, F, T, St, n, Good, s
<1>3. PICK g : /\ LeftFold(g, n, F, s)
               /\ \A J \in SUBSET (1..n) : J # {} => Max(J) \in J /\ g[J \ {Max(J)}] \in T[J \ {Max(J)}]
  <2>1. \A J \in SUBSET (1..n) : \A k \in J :
          (\A j \in J \ {k} : j < k) => \A t \in T[J \ {k}] : F[k][t] \in T[J]
    BY <1>2
  <2> QED
    BY <1>0, <1>1, <2>1, FoldLeftInOrder
<1>4. ASSUME NEW J \in SUBSET (1..n), J # {}
      PROVE  Max(J) \in J /\ \A j \in J \ {Max(J)} : j < Max(J)
  BY <1>0, <1>4, LastsPick
<1>5. Runs(g)
  <2>1. \A J \in SUBSET (1..n) : J # {} => F[Max(J)][g[J \ {Max(J)}]] = both(g[J \ {Max(J)}], b[Max(J)])
    <3> TAKE J \in SUBSET (1..n)
    <3>1. ASSUME J # {} PROVE F[Max(J)][g[J \ {Max(J)}]] = both(g[J \ {Max(J)}], b[Max(J)])
      BY <1>2, <1>3, <1>4, <3>1
    <3> QED
      BY <3>1
  <2> QED
    BY <1>3, <2>1 DEF LeftFold
<1> DEFINE w == CHOOSE h : Runs(h)
<1>6. Runs(w)
  <2> HIDE DEF Runs
  <2> QED
    BY <1>5
<1>7. feed_shrink(b, side, p, drop) = w[1..n].book
  BY <1>0 DEF feed_shrink, FoldLeft, MapThenFoldSet, both, s
<1> HIDE DEF w
<1>8. \A J \in SUBSET (1..n) : w[J] \in T[J]
  <2>1. w[{}] \in T[{}]
    BY <1>1, <1>6
  <2>2. ASSUME NEW J \in SUBSET (1..n), J # {}, Max(J) \in J, w[J \ {Max(J)}] \in T[J \ {Max(J)}]
        PROVE  w[J] \in T[J]
    <3>1. w[J] = both(w[J \ {Max(J)}], b[Max(J)])
      BY <1>6, <2>2
    <3>2. \A j \in J \ {Max(J)} : j < Max(J)
      BY <1>4, <2>2
    <3> HIDE DEF Runs
    <3> QED
      BY <1>2, <2>2, <3>1, <3>2
  <2> QED
    BY <1>0, <2>1, <2>2, FoldLeftTypes
<1>9. w[1..n] \in T[1..n]
  BY <1>8
<1>10. Dropped(w[1..n], b, 1..n)
  BY <1>9 DEF T, Good
<1>11. PICK c : c = w[1..n].book
  OBVIOUS
<1>12. /\ c \in Seq(BookOrder)
       /\ \A i \in DOMAIN c :
            /\ Rem(c[i]) > 0
            /\ \E j \in 1..n : /\ c[i].owner = b[j].owner /\ c[i].side = b[j].side
                               /\ c[i].price = b[j].price
       /\ \A i, j \in DOMAIN c : c[i].owner > 0 /\ c[i].owner = c[j].owner => i = j
       /\ \A j \in 1..n : b[j].owner > 0 => \E i \in DOMAIN c : c[i] = b[j]
       /\ Len(c) <= Cardinality(1..n)
  BY <1>10, <1>11 DEF Dropped, Dropping
<1>18. PICK f : Shifted(f, c, DOMAIN c, b)
  BY <1>10, <1>11 DEF Dropped, KeptFrom
<1>13. Cardinality(1..n) = n
  BY <1>0, FS_Interval
<1>14. ComesFrom(c, b)
  <2>1. \A j \in DOMAIN b : Rem(b[j]) > 0
    BY DEF BookOK
  <2> QED
    BY <1>0, <1>12, <1>18, <2>1, ShiftedStood DEF ComesFrom
<1>15. NeverCrossed(c)
  BY <1>14, UncrossedFrom DEF BookOK
<1>16. BookOK(c) /\ Len(c) <= Len(b)
  BY <1>12, <1>13, <1>15 DEF BookOK, n
<1>17. ASSUME NEW u \in Nat \ {0}, NEW q \in Nat, Rests(b, u, q) PROVE Rests(c, u, q)
  <2>1. CASE q = 0
    BY <1>14, <1>17, <2>1 DEF Rests, ComesFrom, Stood
  <2>2. CASE q > 0
    <3>1. PICK j \in DOMAIN b : b[j].owner = u /\ Rem(b[j]) = q
      BY <1>17, <2>2 DEF Rests
    <3>2. PICK i \in DOMAIN c : c[i] = b[j]
      BY <1>0, <1>12, <3>1
    <3> QED
      BY <2>2, <3>1, <3>2 DEF Rests
  <2> QED
    BY <2>1, <2>2
<1> QED
  BY <1>7, <1>11, <1>14, <1>16, <1>17 DEF Thinner

LEMMA ForeignAtType ==
  ASSUME NEW b, BookOK(b), NEW side, NEW p
  PROVE  ForeignAt(b, side, p) \in Nat
<1>1. PICK f : f = [i \in DOMAIN b |-> IF Quote(b[i], side, p) THEN Rem(b[i]) ELSE 0]
  OBVIOUS
<1>2. b \in Seq(BookOrder) /\ IsFiniteSet(DOMAIN b)
  BY IndicesFinite DEF BookOK
<1>3. ASSUME NEW i \in DOMAIN b PROVE f[i] \in Nat
  <2>1. PICK o : o = b[i]
    OBVIOUS
  <2>2. o \in BookOrder /\ Rem(o) > 0
    BY <1>2, <2>1 DEF BookOK
  <2>3. Rem(o) \in Nat
    <3>1. o.qty \in Int /\ o.filled \in Int
      BY <2>2 DEF BookOrder
    <3> QED
      BY <2>2, <3>1 DEF Rem
  <2> QED
    BY <1>1, <2>1, <2>3
<1>4. Sum(f) = Part(f, DOMAIN b)
  BY <1>1, SumIsPart
<1>5. Part(f, DOMAIN b) \in Nat
  BY <1>2, <1>3, PartNat
<1> QED
  BY <1>1, <1>4, <1>5 DEF ForeignAt

LEMMA BestFirstIs ==
  ASSUME NEW side
  PROVE  MaxPrice \in Nat /\ BestFirst(side) \in Seq(Price) /\ Len(BestFirst(side)) = MaxPrice
         /\ \A k \in 1..MaxPrice : BestFirst(side)[k] \in Price
<1>1. MaxPrice \in Nat
  BY MaxPriceAssumption
<1>2. BestFirst(side) \in [1..MaxPrice -> Price]
  BY <1>1 DEF BestFirst, Price
<1>3. Len(BestFirst(side)) = MaxPrice
  BY <1>1, <1>2
<1> QED
  BY <1>1, <1>2, <1>3

\* One pass of feed_shrink over the best prices of b.
LEMMA ShrinkPassThins ==
  ASSUME NEW b, BookOK(b), NEW side, NEW want \in [Price -> Nat]
  PROVE  Thinner(ShrinkPass(b, side, want), b)
<1> DEFINE n == MaxPrice
           f == BestFirst(side)
           both(c, p) == IF Scanned(b, side, p) /\ ForeignAt(c, side, p) > want[p]
                         THEN feed_shrink(c, side, p, ForeignAt(c, side, p) - want[p])
                         ELSE c
           Good(c) == Thinner(c, b)
           St == Seq(BookOrder)
           F == [k \in 1..n |-> [t \in St |-> both(t, f[k])]]
           T == [J \in SUBSET (1..n) |-> {t \in St : Good(t)}]
           Runs(h) == h = [J \in SUBSET (1..n) |->
                             IF J = {} THEN b ELSE both(h[J \ {Max(J)}], f[Max(J)])]
<1>0. n \in Nat /\ f \in Seq(Price) /\ Len(f) = n /\ DOMAIN f = 1..n
  BY BestFirstIs
<1>1. b \in T[{}]
  <2>1. b \in St /\ Good(b)
    BY ThinnerItself DEF BookOK
  <2> HIDE DEF Good
  <2> QED
    BY <2>1
<1>2. ASSUME NEW J \in SUBSET (1..n), NEW k \in J, NEW t \in T[J \ {k}]
      PROVE  both(t, f[k]) \in T[J] /\ F[k][t] = both(t, f[k])
  <2>1. J \ {k} \in SUBSET (1..n) /\ k \in 1..n /\ f[k] \in Price
    BY BestFirstIs
  <2>2. t \in St /\ Good(t)
    BY <2>1
  <2>3. PICK z : z = both(t, f[k])
    OBVIOUS
  <2>4. Good(z)
    <3>1. PICK p : p = f[k]
      OBVIOUS
    <3>2. BookOK(t) /\ want[p] \in Nat /\ ForeignAt(t, side, p) \in Nat
      BY <2>1, <2>2, <3>1, ForeignAtType DEF Thinner
    <3>3. CASE Scanned(b, side, p) /\ ForeignAt(t, side, p) > want[p]
      <4>1. PICK drop : drop = ForeignAt(t, side, p) - want[p]
        OBVIOUS
      <4>2. drop \in Nat
        BY <3>2, <3>3, <4>1
      <4>3. z = feed_shrink(t, side, p, drop)
        BY <2>3, <3>1, <3>3, <4>1
      <4>4. Thinner(z, t)
        BY <3>2, <4>2, <4>3, ShrinkThins
      <4> QED
        BY <2>2, <4>4, ThinnerStill
    <3>4. CASE ~(Scanned(b, side, p) /\ ForeignAt(t, side, p) > want[p])
      BY <2>2, <2>3, <3>1, <3>4
    <3> QED
      BY <3>3, <3>4
  <2>5. z \in St
    BY <2>4 DEF Thinner, BookOK
  <2> HIDE DEF both, Good
  <2>6. z \in T[J]
    BY <2>4, <2>5
  <2> QED
    BY <2>1, <2>2, <2>3, <2>6
<1> HIDE DEF both, F, T, St, n, Good, f
<1>3. PICK g : /\ LeftFold(g, n, F, b)
               /\ \A J \in SUBSET (1..n) : J # {} => Max(J) \in J /\ g[J \ {Max(J)}] \in T[J \ {Max(J)}]
  <2>1. \A J \in SUBSET (1..n) : \A k \in J : \A t \in T[J \ {k}] : F[k][t] \in T[J]
    BY <1>2
  <2> QED
    BY <1>0, <1>1, <2>1, FoldLeftRuns
<1>5. Runs(g)
  <2>1. \A J \in SUBSET (1..n) : J # {} => F[Max(J)][g[J \ {Max(J)}]] = both(g[J \ {Max(J)}], f[Max(J)])
    BY <1>2, <1>3
  <2> QED
    BY <1>3, <2>1 DEF LeftFold
<1> DEFINE w == CHOOSE h : Runs(h)
<1>6. Runs(w)
  <2> HIDE DEF Runs
  <2> QED
    BY <1>5
<1>7. ShrinkPass(b, side, want) = w[1..n]
  BY <1>0 DEF ShrinkPass, FoldLeft, MapThenFoldSet, both, f
<1> HIDE DEF w
<1>8. \A J \in SUBSET (1..n) : w[J] \in T[J]
  <2>1. w[{}] \in T[{}]
    BY <1>1, <1>6
  <2>2. ASSUME NEW J \in SUBSET (1..n), J # {}, Max(J) \in J, w[J \ {Max(J)}] \in T[J \ {Max(J)}]
        PROVE  w[J] \in T[J]
    <3>1. w[J] = both(w[J \ {Max(J)}], f[Max(J)])
      BY <1>6, <2>2
    <3> HIDE DEF Runs
    <3> QED
      BY <1>2, <2>2, <3>1
  <2> QED
    BY <1>0, <2>1, <2>2, FoldLeftTypes
<1>9. w[1..n] \in T[1..n]
  BY <1>8
<1>10. Good(w[1..n])
  BY <1>9 DEF T
<1> QED
  BY <1>7, <1>10 DEF Good

LEMMA ShrinkPassesThin ==
  ASSUME NEW b, BookOK(b), NEW side, NEW want \in [Price -> Nat]
  PROVE  Thinner(ShrinkPasses(b, side, want), b)
<1> DEFINE n == MaxPrice
           f == [k \in Price |-> k]
           both(c, p) == ShrinkPass(c, side, want)
           Good(c) == Thinner(c, b)
           St == Seq(BookOrder)
           F == [k \in 1..n |-> [t \in St |-> both(t, f[k])]]
           T == [J \in SUBSET (1..n) |-> {t \in St : Good(t)}]
           Runs(h) == h = [J \in SUBSET (1..n) |->
                             IF J = {} THEN b ELSE both(h[J \ {Max(J)}], f[Max(J)])]
<1>0. n \in Nat /\ DOMAIN f = 1..n /\ Len(f) = n
  <2>1. n \in Nat
    BY MaxPriceAssumption
  <2>2. f \in [1..n -> Price] /\ DOMAIN f = 1..n
    BY <2>1 DEF Price
  <2>3. f \in Seq(Price)
    BY <2>1, <2>2
  <2> HIDE DEF f, n
  <2> QED
    BY <2>1, <2>2, <2>3
<1>1. b \in T[{}]
  <2>1. b \in St /\ Good(b)
    BY ThinnerItself DEF BookOK
  <2> HIDE DEF Good
  <2> QED
    BY <2>1
<1>2. ASSUME NEW J \in SUBSET (1..n), NEW k \in J, NEW t \in T[J \ {k}]
      PROVE  both(t, f[k]) \in T[J] /\ F[k][t] = both(t, f[k])
  <2>1. J \ {k} \in SUBSET (1..n) /\ k \in 1..n
    OBVIOUS
  <2>2. t \in St /\ Good(t)
    BY <2>1
  <2>3. PICK z : z = both(t, f[k])
    OBVIOUS
  <2>4. Good(z)
    <3>1. BookOK(t) /\ z = ShrinkPass(t, side, want)
      BY <2>2, <2>3 DEF Thinner
    <3>2. Thinner(z, t)
      BY <3>1, ShrinkPassThins
    <3> QED
      BY <2>2, <3>2, ThinnerStill
  <2>5. z \in St
    BY <2>4 DEF Thinner, BookOK
  <2> HIDE DEF both, Good
  <2>6. z \in T[J]
    BY <2>4, <2>5
  <2> QED
    BY <2>1, <2>2, <2>3, <2>6
<1> HIDE DEF both, F, T, St, n, Good, f
<1>3. PICK g : /\ LeftFold(g, n, F, b)
               /\ \A J \in SUBSET (1..n) : J # {} => Max(J) \in J /\ g[J \ {Max(J)}] \in T[J \ {Max(J)}]
  <2>1. \A J \in SUBSET (1..n) : \A k \in J : \A t \in T[J \ {k}] : F[k][t] \in T[J]
    BY <1>2
  <2> QED
    BY <1>0, <1>1, <2>1, FoldLeftRuns
<1>5. Runs(g)
  <2>1. \A J \in SUBSET (1..n) : J # {} => F[Max(J)][g[J \ {Max(J)}]] = both(g[J \ {Max(J)}], f[Max(J)])
    BY <1>2, <1>3
  <2> QED
    BY <1>3, <2>1 DEF LeftFold
<1> DEFINE w == CHOOSE h : Runs(h)
<1>6. Runs(w)
  <2> HIDE DEF Runs
  <2> QED
    BY <1>5
<1>7. ShrinkPasses(b, side, want) = w[1..n]
  BY <1>0 DEF ShrinkPasses, FoldLeft, MapThenFoldSet, both, f
<1> HIDE DEF w
<1>8. \A J \in SUBSET (1..n) : w[J] \in T[J]
  <2>1. w[{}] \in T[{}]
    BY <1>1, <1>6
  <2>2. ASSUME NEW J \in SUBSET (1..n), J # {}, Max(J) \in J, w[J \ {Max(J)}] \in T[J \ {Max(J)}]
        PROVE  w[J] \in T[J]
    <3>1. w[J] = both(w[J \ {Max(J)}], f[Max(J)])
      BY <1>6, <2>2
    <3> HIDE DEF Runs
    <3> QED
      BY <1>2, <2>2, <3>1
  <2> QED
    BY <1>0, <2>1, <2>2, FoldLeftTypes
<1>9. w[1..n] \in T[1..n]
  BY <1>8
<1>10. Good(w[1..n])
  BY <1>9 DEF T
<1> QED
  BY <1>7, <1>10 DEF Good

LEMMA ShrunkThins ==
  ASSUME NEW b, BookOK(b), NEW feed \in Feeds
  PROVE  Thinner(Shrunk(b, feed), b)
<1>1. feed.buy \in [Price -> Nat] /\ feed.sell \in [Price -> Nat]
  BY LedgerAssumption
<1>2. PICK c, d : c = ShrinkPasses(b, "buy", feed.buy) /\ d = ShrinkPasses(c, "sell", feed.sell)
  OBVIOUS
<1>3. Thinner(c, b)
  BY <1>1, <1>2, ShrinkPassesThin
<1>4. BookOK(c)
  BY <1>3 DEF Thinner
<1>5. Thinner(d, c)
  BY <1>1, <1>2, <1>4, ShrinkPassesThin
<1>6. Shrunk(b, feed) = d
  BY <1>2 DEF Shrunk
<1> QED
  BY <1>3, <1>5, <1>6, ThinnerStill

\* What is missing goes in, whatever it trades with.
LEMMA InsertFollows ==
  ASSUME NEW s, Whole(s), NEW m \in Markets, NEW side \in Side, NEW want \in [Price -> Nat]
  PROVE  Follows(Insert(s, m, side, want), s)
<1> DEFINE n == MaxPrice
           f == BestFirst(side)
           both(t, p) == IF want[p] > ForeignAt(t.book[m], side, p)
                         THEN Foreign(t, m, FeedId, side, p, want[p] - ForeignAt(t.book[m], side, p))
                         ELSE t
           Good(t) == Follows(t, s)
           St == HandlerState
           F == [k \in 1..n |-> [t \in St |-> both(t, f[k])]]
           T == [J \in SUBSET (1..n) |-> {t \in St : Good(t)}]
           Runs(h) == h = [J \in SUBSET (1..n) |->
                             IF J = {} THEN s ELSE both(h[J \ {Max(J)}], f[Max(J)])]
<1>0. n \in Nat /\ f \in Seq(Price) /\ Len(f) = n /\ DOMAIN f = 1..n
  BY BestFirstIs
<1>1. s \in T[{}]
  <2>1. s \in St /\ Good(s)
    BY FollowsItself DEF Whole
  <2> HIDE DEF Good
  <2> QED
    BY <2>1
<1>2. ASSUME NEW J \in SUBSET (1..n), NEW k \in J, NEW t \in T[J \ {k}]
      PROVE  both(t, f[k]) \in T[J] /\ F[k][t] = both(t, f[k])
  <2>1. J \ {k} \in SUBSET (1..n) /\ k \in 1..n /\ f[k] \in Price
    BY BestFirstIs
  <2>2. t \in St /\ Good(t)
    BY <2>1
  <2>3. PICK z : z = both(t, f[k])
    OBVIOUS
  <2>4. Good(z)
    <3>1. PICK p : p = f[k]
      OBVIOUS
    <3>2. Whole(t) /\ BookOK(t.book[m])
      BY <2>2 DEF Follows, Whole, Agree
    <3>3. want[p] \in Nat /\ ForeignAt(t.book[m], side, p) \in Nat
      BY <2>1, <3>1, <3>2, ForeignAtType
    <3>4. CASE want[p] > ForeignAt(t.book[m], side, p)
      <4>1. PICK qty : qty = want[p] - ForeignAt(t.book[m], side, p)
        OBVIOUS
      <4>2. qty \in Nat
        BY <3>3, <3>4, <4>1
      <4>3. z = Foreign(t, m, FeedId, side, p, qty) /\ FeedId \in Int /\ FeedId <= 0
        BY <2>3, <3>1, <3>4, <4>1 DEF FeedId
      <4>4. Follows(z, t)
        BY <3>2, <4>2, <4>3, ForeignContract
      <4> QED
        BY <2>2, <4>4, FollowsFurther
    <3>5. CASE ~(want[p] > ForeignAt(t.book[m], side, p))
      BY <2>2, <2>3, <3>1, <3>5
    <3> QED
      BY <3>4, <3>5
  <2>5. z \in St
    BY <2>4 DEF Follows, Whole
  <2> HIDE DEF both, Good
  <2>6. z \in T[J]
    BY <2>4, <2>5
  <2> QED
    BY <2>1, <2>2, <2>3, <2>6
<1> HIDE DEF both, F, T, St, n, Good, f
<1>3. PICK g : /\ LeftFold(g, n, F, s)
               /\ \A J \in SUBSET (1..n) : J # {} => Max(J) \in J /\ g[J \ {Max(J)}] \in T[J \ {Max(J)}]
  <2>1. \A J \in SUBSET (1..n) : \A k \in J : \A t \in T[J \ {k}] : F[k][t] \in T[J]
    BY <1>2
  <2> QED
    BY <1>0, <1>1, <2>1, FoldLeftRuns
<1>5. Runs(g)
  <2>1. \A J \in SUBSET (1..n) : J # {} => F[Max(J)][g[J \ {Max(J)}]] = both(g[J \ {Max(J)}], f[Max(J)])
    BY <1>2, <1>3
  <2> QED
    BY <1>3, <2>1 DEF LeftFold
<1> DEFINE w == CHOOSE h : Runs(h)
<1>6. Runs(w)
  <2> HIDE DEF Runs
  <2> QED
    BY <1>5
<1>7. Insert(s, m, side, want) = w[1..n]
  BY <1>0 DEF Insert, FoldLeft, MapThenFoldSet, both, f
<1> HIDE DEF w
<1>8. \A J \in SUBSET (1..n) : w[J] \in T[J]
  <2>1. w[{}] \in T[{}]
    BY <1>1, <1>6
  <2>2. ASSUME NEW J \in SUBSET (1..n), J # {}, Max(J) \in J, w[J \ {Max(J)}] \in T[J \ {Max(J)}]
        PROVE  w[J] \in T[J]
    <3>1. w[J] = both(w[J \ {Max(J)}], f[Max(J)])
      BY <1>6, <2>2
    <3> HIDE DEF Runs
    <3> QED
      BY <1>2, <2>2, <3>1
  <2> QED
    BY <1>0, <2>1, <2>2, FoldLeftTypes
<1>9. w[1..n] \in T[1..n]
  BY <1>8
<1>10. Good(w[1..n])
  BY <1>9 DEF T
<1> QED
  BY <1>7, <1>10 DEF Good

LEMMA FeedFollows ==
  ASSUME NEW s, Whole(s), NEW m \in Markets, NEW feed \in Feeds,
         NEW z, z = [s EXCEPT !.book[m] = Shrunk(s.book[m], feed)],
         NEW t, t = Insert(Insert(z, m, "buy", feed.buy), m, "sell", feed.sell)
  PROVE  Follows(t, s)
<1>1. feed.buy \in [Price -> Nat] /\ feed.sell \in [Price -> Nat] /\ "buy" \in Side /\ "sell" \in Side
  BY LedgerAssumption DEF Side
<1>2. BookOK(s.book[m])
  BY DEF Whole, Agree
<1>3. Thinner(Shrunk(s.book[m], feed), s.book[m])
  BY <1>2, ShrunkThins
<1>4. Follows(z, s)
  BY <1>3, ThinnerFollows
<1>5. PICK y : y = Insert(z, m, "buy", feed.buy)
  OBVIOUS
<1>6. Whole(z)
  BY <1>4 DEF Follows
<1>7. Follows(y, z)
  BY <1>1, <1>5, <1>6, InsertFollows
<1>8. Whole(y)
  BY <1>7 DEF Follows
<1>9. Follows(t, y)
  BY <1>1, <1>5, <1>8, InsertFollows
<1>10. Follows(y, s)
  BY <1>4, <1>7, FollowsFurther
<1> QED
  BY <1>9, <1>10, FollowsFurther

-----------------------------------------------------------------------------
(* The answer of a market to one leg.                                       *)

LEMMA MoneyFacts ==
  ASSUME NEW fills \in Seq(Fill)
  PROVE  /\ Taken(fills) = Sum(Qtys(fills)) /\ Taken(fills) \in Nat
         /\ Money(fills) = Part(Moneys(fills), DOMAIN fills) /\ Money(fills) \in Nat
         /\ Taken(fills) = Part(Qtys(fills), DOMAIN fills)
         /\ Taken(fills) = 0 <=> Money(fills) = 0
         /\ fills = << >> => Taken(fills) = 0
<1>1. Taken(fills) = Sum(Qtys(fills)) /\ Money(fills) = Sum(Moneys(fills))
  BY DEF Taken, Money, Qtys, Moneys
<1>2. PICK f, S : f = Moneys(fills) /\ S = DOMAIN fills
  OBVIOUS
<1>3. IsFiniteSet(S) /\ DOMAIN f = S
  BY <1>2, IndicesFinite DEF Moneys
<1>4. \A x \in S : f[x] \in Nat \ {0}
  BY <1>2, FillTypes DEF Moneys
<1>5. Money(fills) = Part(f, S)
  BY <1>1, <1>2, <1>3, SumIsPart
<1>6. Part(f, S) \in Nat /\ \A x \in S : f[x] <= Part(f, S)
  BY <1>3, <1>4, PartNat
<1>7. Sum(Qtys(fills)) \in Nat /\ Sum(Qtys(fills)) = Part(Qtys(fills), DOMAIN fills)
      /\ (Sum(Qtys(fills)) = 0 => fills = << >>)
  BY SumsOfFills
<1>8. fills = << >> => Taken(fills) = 0 /\ S = {}
  BY <1>1, <1>2, NoFills
<1>9. S = {} => Part(f, S) = 0
  BY PartEmpty
<1>10. ASSUME Taken(fills) # 0 PROVE Money(fills) # 0
  <2>1. 1 \in S
    BY <1>2, <1>8, <1>10
  <2>2. f[1] \in Nat \ {0} /\ f[1] <= Part(f, S)
    BY <1>4, <1>6, <2>1
  <2> QED
    BY <1>5, <1>6, <2>2
<1> QED
  BY <1>1, <1>2, <1>5, <1>6, <1>7, <1>8, <1>9, <1>10

\* Nothing but the leg in m of order id, which is l, and what the handler counts.
Recorded(e, d, id, m, l, taken, refused) ==
  /\ e \in HandlerState /\ e.acct = d.acct /\ e.book = d.book /\ e.failed = d.failed
  /\ e.canceled = d.canceled /\ e.filled = d.filled + taken /\ e.refused = d.refused + refused
  /\ Relegged(e.orders, d.orders, id, m, l)

LEMMA ReleggedTwice ==
  ASSUME NEW os \in OrderMaps, NEW u, Listed(os, u), NEW m \in DOMAIN os[u].legs,
         NEW os2, NEW l2, Relegged(os2, os, u, m, l2), NEW os3, NEW l3, Relegged(os3, os2, u, m, l3),
         LegOK(l2), LegOK(l3)
  PROVE  Relegged(os3, os, u, m, l3)
<1>1. PICK lo, lo2, lo3, l : lo = os[u] /\ lo2 = os2[u] /\ lo3 = os3[u] /\ l = os[u].legs[m]
  OBVIOUS
<1>2. OrderOK(lo) /\ LegOK(l)
  BY <1>1, OrderMapFacts DEF OrderOK, LegsOK
<1>3. DOMAIN os2 = DOMAIN os
  BY ReleggedElsewhere
<1>4. /\ os3 \in OrderMaps /\ Len(os3) = Len(os)
      /\ \A v \in DOMAIN os : v # u => os3[v] = os[v]
      /\ Listed(os3, u) /\ TermsOf(lo3) = TermsOf(lo) /\ lo3.qty = lo.qty /\ lo3.market = lo.market
      /\ DOMAIN lo3.legs = DOMAIN lo.legs /\ lo3.legs[m] = l3
      /\ \A k \in DOMAIN lo.legs : k # m => lo3.legs[k] = lo.legs[k]
      /\ lo2.legs[m] = l2
  BY <1>1, <1>3 DEF Relegged
<1>5. /\ omap_filled_qty(lo3) = omap_filled_qty(lo2) - l2.filled + l3.filled
      /\ omap_canceled_qty(lo3) = omap_canceled_qty(lo2) - l2.canceled + l3.canceled
      /\ omap_notional(lo3) = omap_notional(lo2) - l2.notional + l3.notional
      /\ omap_filled_qty(lo2) = omap_filled_qty(lo) - l.filled + l2.filled
      /\ omap_canceled_qty(lo2) = omap_canceled_qty(lo) - l.canceled + l2.canceled
      /\ omap_notional(lo2) = omap_notional(lo) - l.notional + l2.notional
  BY <1>1, <1>4 DEF Relegged
<1>6. /\ omap_filled_qty(lo) \in Int /\ omap_canceled_qty(lo) \in Int /\ omap_notional(lo) \in Int
  BY <1>2, OrderTotals
<1>7. \A a, b, c, d \in Int : (a - b + c) - c + d = a - b + d
  OBVIOUS
<1>8. /\ l.filled \in Int /\ l.canceled \in Int /\ l.notional \in Int
      /\ l2.filled \in Int /\ l2.canceled \in Int /\ l2.notional \in Int
      /\ l3.filled \in Int /\ l3.canceled \in Int /\ l3.notional \in Int
  BY <1>2, LegTypes
<1>9. omap_filled_qty(lo3) = omap_filled_qty(lo) - l.filled + l3.filled
  BY <1>5, <1>6, <1>7, <1>8
<1>10. omap_canceled_qty(lo3) = omap_canceled_qty(lo) - l.canceled + l3.canceled
  BY <1>5, <1>6, <1>7, <1>8
<1>11. omap_notional(lo3) = omap_notional(lo) - l.notional + l3.notional
  BY <1>5, <1>6, <1>7, <1>8
<1> QED
  BY <1>1, <1>4, <1>9, <1>10, <1>11 DEF Relegged

\* A leg that has not been sent.
Unsent(os, id, m, q) ==
  Listed(os, id) /\ m \in DOMAIN os[id].legs /\ q \in Nat \ {0} /\ os[id].legs[m] = NewLeg(q)

LEMMA LegAcceptedIs ==
  ASSUME NEW d \in HandlerState, NEW id, NEW m, NEW q, Unsent(d.orders, id, m, q),
         NEW r, r.fills \in Seq(Fill), r.left \in Nat, Taken(r.fills) + r.left = q,
         NEW e, e = LegAccepted(d, id, m, r)
  PROVE  \E l : /\ LegOK(l) /\ l.accepted /\ LegLeft(l) = IF r.resting THEN r.left ELSE 0
                /\ l.filled = Taken(r.fills) /\ l.notional = Money(r.fills)
                /\ Recorded(e, d, id, m, l, Taken(r.fills), 0)
<1>1. PICK os, x, y, l0, rest : /\ os = d.orders /\ x = Taken(r.fills) /\ y = Money(r.fills)
                               /\ l0 = os[id].legs[m] /\ rest = IF r.resting THEN 0 ELSE r.left
  OBVIOUS
<1>2. os \in OrderMaps /\ Listed(os, id) /\ m \in DOMAIN os[id].legs /\ l0 = NewLeg(q) /\ q \in Nat \ {0}
  BY <1>1, StateFields DEF Unsent
<1>3. x \in Nat /\ y \in Nat /\ (x = 0 <=> y = 0) /\ x + r.left = q /\ r.left \in Nat
  BY <1>1, MoneyFacts
<1>4. LegOK(l0) /\ LegLeft(l0) = q /\ l0.sent = q /\ l0.filled = 0 /\ l0.canceled = 0 /\ l0.notional = 0
  BY <1>2, NewLegFacts
<1>5. PICK l1 : l1 = omap_on_accept(l0)
  OBVIOUS
<1>6. /\ LegOK(l1) /\ LegLeft(l1) = q /\ l1.accepted
      /\ l1.sent = q /\ l1.filled = 0 /\ l1.canceled = 0 /\ l1.notional = 0
  BY <1>4, <1>5, AcceptedLeg
<1>7. PICK os1 : os1 = WithLeg(os, id, m, l1)
  OBVIOUS
<1>8. Relegged(os1, os, id, m, l1)
  BY <1>1, <1>2, <1>4, <1>6, <1>7, WithLegIs
<1>9. os1 \in OrderMaps /\ Listed(os1, id) /\ m \in DOMAIN os1[id].legs /\ os1[id].legs[m] = l1
  BY <1>2, <1>8 DEF Relegged
<1>10. PICK k1 : k1 = [d EXCEPT !.orders[id].legs[m] = omap_on_accept(@), !.filled = @ + Taken(r.fills)]
  OBVIOUS
<1>11. k1 = [acct |-> d.acct, orders |-> os1, book |-> d.book, failed |-> d.failed,
             refused |-> d.refused, filled |-> d.filled + x, canceled |-> d.canceled]
  BY <1>1, <1>5, <1>7, <1>10 DEF WithLeg, HandlerState
<1>12. k1 \in HandlerState
  BY <1>3, <1>9, <1>11, StateFields DEF HandlerState
<1>13. /\ k1.acct = d.acct /\ k1.orders = os1 /\ k1.book = d.book /\ k1.failed = d.failed
       /\ k1.refused = d.refused /\ k1.filled = d.filled + x /\ k1.canceled = d.canceled
  BY <1>11
<1>14. PICK k2 : k2 = NoteFill(k1, id, m, x, y)
  OBVIOUS
<1>15. e = DropRest(k2, id, m, rest)
  BY <1>1, <1>10, <1>14 DEF LegAccepted
\* The fills.
<1>16. PICK l2 : /\ LegOK(l2) /\ LegLeft(l2) = q - x /\ l2.accepted /\ l2.sent = q
                 /\ l2.filled = x /\ l2.notional = y
                 /\ OnlyOrders(k2, k1) /\ Relegged(k2.orders, os, id, m, l2)
  <2>1. CASE x = 0
    <3>1. k2 = k1
      BY <1>14, <2>1 DEF NoteFill
    <3>2. OnlyOrders(k2, k1) /\ Relegged(k2.orders, os, id, m, l1) /\ q - x = q /\ y = 0
      BY <1>2, <1>3, <1>8, <1>12, <1>13, <2>1, <3>1 DEF OnlyOrders
    <3> QED
      BY <1>6, <2>1, <3>2
  <2>2. CASE x # 0
    <3>1. x \in Nat \ {0} /\ y \in Nat \ {0} /\ k2 = LegFill(k1, id, m, x, y)
      BY <1>3, <1>14, <2>2 DEF NoteFill
    <3>2. Takes(k1.orders[id].legs[m], x)
      BY <1>3, <1>6, <1>9, <1>13, <2>2 DEF Takes
    <3>3. Listed(k1.orders, id) /\ m \in DOMAIN k1.orders[id].legs
      BY <1>9, <1>13
    <3>4. PICK l2 : /\ LegOK(l2) /\ l2 = omap_on_fill(k1.orders[id].legs[m], x, y)
                    /\ OnlyOrders(k2, k1) /\ Relegged(k2.orders, k1.orders, id, m, l2)
      BY <1>12, <3>1, <3>2, <3>3, LegFillIs
    <3>5. l2 = omap_on_fill(l1, x, y) /\ Takes(l1, x) /\ Relegged(k2.orders, os1, id, m, l2)
      BY <1>9, <1>13, <3>2, <3>4
    <3>6. /\ LegLeft(l2) = LegLeft(l1) - x /\ l2.sent = l1.sent /\ l2.accepted = l1.accepted
          /\ l2.filled = l1.filled + x /\ l2.notional = l1.notional + y
      <4>1. LegOK(l1) /\ x \in Nat /\ y \in Nat \ {0} /\ Takes(l1, x) /\ l2 = omap_on_fill(l1, x, y)
        BY <1>6, <3>1, <3>5
      <4> QED
        BY <4>1, FilledLeg
    <3>7. Relegged(k2.orders, os, id, m, l2)
      BY <1>2, <1>6, <1>8, <3>4, <3>5, ReleggedTwice
    <3>8. 0 + x = x /\ 0 + y = y
      BY <1>3
    <3> QED
      BY <1>6, <3>4, <3>6, <3>7, <3>8
  <2> QED
    BY <2>1, <2>2
<1>17. /\ k2 \in HandlerState /\ k2.acct = d.acct /\ k2.book = d.book /\ k2.failed = d.failed
       /\ k2.refused = d.refused /\ k2.filled = d.filled + x /\ k2.canceled = d.canceled
  BY <1>13, <1>16 DEF OnlyOrders
<1>18. /\ k2.orders \in OrderMaps /\ Listed(k2.orders, id) /\ m \in DOMAIN k2.orders[id].legs
       /\ k2.orders[id].legs[m] = l2
  BY <1>2, <1>16 DEF Relegged
\* What neither filled nor rests.
<1>19. PICK l3 : /\ LegOK(l3) /\ LegLeft(l3) = (q - x) - rest /\ l3.accepted
                 /\ l3.filled = x /\ l3.notional = y
                 /\ OnlyOrders(e, k2) /\ Relegged(e.orders, os, id, m, l3)
  <2>1. rest \in Nat /\ rest <= q - x
    BY <1>1, <1>3
  <2>2. CASE rest = 0
    <3>1. e = k2
      BY <1>15, <2>2 DEF DropRest
    <3>2. OnlyOrders(e, k2) /\ Relegged(e.orders, os, id, m, l2) /\ (q - x) - rest = q - x
      BY <1>2, <1>3, <1>16, <1>17, <2>2, <3>1 DEF OnlyOrders
    <3> QED
      BY <1>16, <3>2
  <2>3. CASE rest # 0
    <3>1. rest \in Nat \ {0} /\ e = LegCancel(k2, id, m, rest)
      BY <1>15, <2>1, <2>3 DEF DropRest
    <3>2. Takes(l2, rest)
      BY <1>16, <2>1, <2>3 DEF Takes
    <3>3. PICK l3 : /\ LegOK(l3) /\ l3 = omap_on_cancel(k2.orders[id].legs[m], rest)
                    /\ OnlyOrders(e, k2) /\ Relegged(e.orders, k2.orders, id, m, l3)
      BY <1>17, <1>18, <3>1, <3>2, LegCancelIs
    <3>4. l3 = omap_on_cancel(l2, rest)
      BY <1>18, <3>3
    <3>5. /\ LegLeft(l3) = LegLeft(l2) - rest /\ l3.accepted = l2.accepted
          /\ l3.filled = l2.filled /\ l3.notional = l2.notional
      <4>1. LegOK(l2) /\ rest \in Nat /\ Takes(l2, rest) /\ l3 = omap_on_cancel(l2, rest)
        BY <1>16, <3>1, <3>2, <3>4
      <4> QED
        BY <4>1, CanceledLeg
    <3>6. Relegged(e.orders, os, id, m, l3)
      BY <1>2, <1>16, <3>3, ReleggedTwice
    <3> QED
      BY <1>16, <3>3, <3>5, <3>6
  <2> QED
    BY <2>2, <2>3
<1>20. LegLeft(l3) = IF r.resting THEN r.left ELSE 0
  BY <1>1, <1>3, <1>19
<1>21. d.refused + 0 = d.refused
  BY StateFields
<1>22. Recorded(e, d, id, m, l3, x, 0)
  BY <1>1, <1>17, <1>19, <1>21 DEF Recorded, OnlyOrders
<1> QED
  BY <1>1, <1>19, <1>20, <1>22

LEMMA LegRefusedIs ==
  ASSUME NEW d \in HandlerState, NEW id, NEW leg, Unsent(d.orders, id, leg.market, leg.qty),
         NEW e, e = LegRefused(d, id, leg)
  PROVE  \E l : /\ LegOK(l) /\ ~l.accepted /\ LegLeft(l) = 0 /\ l.filled = 0 /\ l.notional = 0
                /\ Recorded(e, d, id, leg.market, l, 0, 1)
<1>1. PICK os, m, q, l0 : os = d.orders /\ m = leg.market /\ q = leg.qty /\ l0 = os[id].legs[m]
  OBVIOUS
<1>2. os \in OrderMaps /\ Listed(os, id) /\ m \in DOMAIN os[id].legs /\ l0 = NewLeg(q) /\ q \in Nat \ {0}
  BY <1>1, StateFields DEF Unsent
<1>3. LegOK(l0) /\ LegLeft(l0) = q /\ l0.filled = 0 /\ l0.notional = 0 /\ ~l0.accepted
  BY <1>2, NewLegFacts
<1>4. Takes(l0, q)
  BY <1>2, <1>3 DEF Takes
<1>5. PICK c : c = LegCancel(d, id, m, q)
  OBVIOUS
<1>6. PICK l : /\ LegOK(l) /\ l = omap_on_cancel(d.orders[id].legs[m], q)
               /\ OnlyOrders(c, d) /\ Relegged(c.orders, d.orders, id, m, l)
  BY <1>1, <1>2, <1>4, <1>5, LegCancelIs, ZenonT(60)
<1>7. /\ LegLeft(l) = LegLeft(l0) - q /\ l.accepted = l0.accepted
      /\ l.filled = l0.filled /\ l.notional = l0.notional
  <2>1. LegOK(l0) /\ q \in Nat /\ Takes(l0, q) /\ l = omap_on_cancel(l0, q)
    BY <1>1, <1>2, <1>3, <1>4, <1>6
  <2> QED
    BY <2>1, CanceledLeg
<1>8. e = [c EXCEPT !.refused = @ + 1]
  BY <1>1, <1>5 DEF LegRefused
<1>9. /\ c \in HandlerState /\ c.acct = d.acct /\ c.book = d.book /\ c.failed = d.failed
      /\ c.refused = d.refused /\ c.filled = d.filled /\ c.canceled = d.canceled
  BY <1>6 DEF OnlyOrders
<1>10. e = [acct |-> c.acct, orders |-> c.orders, book |-> c.book, failed |-> c.failed,
            refused |-> c.refused + 1, filled |-> c.filled, canceled |-> c.canceled]
  BY <1>8, <1>9 DEF HandlerState
<1>11. e \in HandlerState
  <2>1. c.refused + 1 \in Nat
    BY <1>9, StateFields
  <2> QED
    BY <1>9, <1>10, <2>1, StateFields DEF HandlerState
<1>12. d.filled + 0 = d.filled
  BY StateFields
<1>13. Recorded(e, d, id, m, l, 0, 1)
  BY <1>6, <1>9, <1>10, <1>11, <1>12 DEF Recorded
<1>14. LegLeft(l) = 0
  BY <1>2, <1>3, <1>7
<1> QED
  BY <1>1, <1>3, <1>6, <1>7, <1>13, <1>14

\* What a leg has become when its market has answered r: accepted, with the
\* fills booked and what neither filled nor rests cancelled, or refused whole.
Answer(e, d, id, m, l, r) ==
  /\ LegOK(l) /\ LegLeft(l) = (IF r.resting THEN r.left ELSE 0)
  /\ l.filled = Taken(r.fills) /\ l.notional = Money(r.fills)
  /\ \/ l.accepted /\ Recorded(e, d, id, m, l, Taken(r.fills), 0)
     \/ /\ ~l.accepted /\ Recorded(e, d, id, m, l, Taken(r.fills), 1)
        /\ r.rc # "ok" /\ LegLeft(l) = 0

LEMMA AnswerIs ==
  ASSUME NEW d \in HandlerState, NEW id, NEW leg, Unsent(d.orders, id, leg.market, leg.qty),
         NEW b, NEW cap, NEW taker, taker.qty = leg.qty, NEW r, Dealt(r, b, cap, taker),
         NEW e, e = IF r.rc = "ok" THEN LegAccepted(d, id, leg.market, r) ELSE LegRefused(d, id, leg)
  PROVE  \E l : Answer(e, d, id, leg.market, l, r)
<1>1. PICK m, q : m = leg.market /\ q = leg.qty
  OBVIOUS
<1>2. r.fills \in Seq(Fill) /\ r.left \in Nat /\ Sum(Qtys(r.fills)) + r.left = q
  BY <1>1 DEF Dealt
<1>3. Taken(r.fills) = Sum(Qtys(r.fills)) /\ (Taken(r.fills) = 0 <=> Money(r.fills) = 0)
      /\ (r.fills = << >> => Taken(r.fills) = 0)
  BY <1>2, MoneyFacts
<1>4. Unsent(d.orders, id, m, q) /\ Taken(r.fills) + r.left = q
  BY <1>1, <1>2, <1>3
<1>5. CASE r.rc = "ok"
  <2>1. e = LegAccepted(d, id, m, r)
    BY <1>1, <1>5
  <2>2. PICK l : /\ LegOK(l) /\ l.accepted /\ LegLeft(l) = IF r.resting THEN r.left ELSE 0
                 /\ l.filled = Taken(r.fills) /\ l.notional = Money(r.fills)
                 /\ Recorded(e, d, id, m, l, Taken(r.fills), 0)
    BY <1>2, <1>4, <2>1, LegAcceptedIs
  <2>3. Answer(e, d, id, m, l, r)
    BY <2>2 DEF Answer
  <2> QED
    BY <1>1, <2>3
<1>6. CASE r.rc # "ok"
  <2>1. e = LegRefused(d, id, leg)
    BY <1>6
  <2>2. PICK l : /\ LegOK(l) /\ ~l.accepted /\ LegLeft(l) = 0 /\ l.filled = 0 /\ l.notional = 0
                 /\ Recorded(e, d, id, leg.market, l, 0, 1)
    BY <2>1, LegRefusedIs
  <2>3. r.fills = << >> /\ ~r.resting
    BY <1>6 DEF Dealt
  <2>4. Taken(r.fills) = 0 /\ Money(r.fills) = 0
    BY <1>3, <2>3
  <2>5. Answer(e, d, id, m, l, r)
    BY <1>1, <1>6, <2>2, <2>3, <2>4 DEF Answer
  <2> QED
    BY <1>1, <2>5
<1> QED
  BY <1>5, <1>6

LEMMA ReleggedSame ==
  ASSUME NEW os \in OrderMaps, NEW u, Listed(os, u), NEW m \in DOMAIN os[u].legs, NEW l,
         NEW os2, Relegged(os2, os, u, m, l)
  PROVE  SameOrders(os2, os)
<1>1. \A v : Listed(os2, v) <=> Listed(os, v)
  BY ReleggedElsewhere
<1> QED
  BY <1>1 DEF Relegged, SameOrders, Listed

LEMMA ReleggedGrown ==
  ASSUME NEW os \in OrderMaps, NEW u, Listed(os, u), NEW m \in DOMAIN os[u].legs, NEW l,
         NEW os2, Relegged(os2, os, u, m, l)
  PROVE  Grown(os2, os, u)
<1>1. Grown(os, os, u)
  BY GrownNothing
<1>2. DOMAIN os2 = DOMAIN os
  BY ReleggedElsewhere
<1> QED
  BY <1>1, <1>2 DEF Grown, Relegged

-----------------------------------------------------------------------------
(* The legs of an order, one after the other.                               *)

Pending(plan, J) == {plan[i].market : i \in DOMAIN plan \ J}

\* What the order being submitted claims, by what its record shows: nothing it
\* has not traded is given back yet.
OwnOf(lo) == [left |-> lo.qty - omap_filled_qty(lo), money |-> omap_notional(lo),
              shares |-> omap_filled_qty(lo)]

\* The order id has been recorded, and none of its legs sent.
Ready(s, plan, id) ==
  /\ s \in HandlerState /\ Listed(s.orders, id)
  /\ plan_validate(plan, s.orders[id].qty)
  /\ DOMAIN s.orders[id].legs = Pending(plan, {})
  /\ \A i \in DOMAIN plan : Unsent(s.orders, id, plan[i].market, plan[i].qty)
  /\ \A k \in Markets : Agree(s.orders, s.book[k], k, id, 0)
  /\ s.refused = 0 /\ s.filled = 0 /\ s.canceled = 0
  /\ omap_filled_qty(s.orders[id]) = 0 /\ omap_notional(s.orders[id]) = 0

\* State t after the legs in J. As long as every one of them was refused nothing
\* has happened.
Sent(t, s, plan, id, J) ==
  /\ t \in HandlerState /\ t.canceled = 0
  /\ Listed(t.orders, id) /\ Len(t.orders) = Len(s.orders) /\ Terms(t.orders) = Terms(s.orders)
  /\ TermsOf(t.orders[id]) = TermsOf(s.orders[id]) /\ t.orders[id].qty = s.orders[id].qty
  /\ t.orders[id].market = s.orders[id].market
  /\ DOMAIN t.orders[id].legs = DOMAIN s.orders[id].legs
  /\ Grown(t.orders, s.orders, id)
  /\ \A i \in DOMAIN plan \ J : Unsent(t.orders, id, plan[i].market, plan[i].qty)
  /\ \A i \in J : LegLeft(t.orders[id].legs[plan[i].market]) > 0 =>
                    t.orders[id].legs[plan[i].market].accepted
  /\ \A k \in Markets : Agree(t.orders, t.book[k], k, id,
                              IF k \in Pending(plan, J) THEN 0 ELSE LeftOf(t.orders, id, k))
  /\ t.filled = omap_filled_qty(t.orders[id]) /\ t.refused <= Cardinality(J)
  /\ t.refused = Cardinality(J) =>
       t.acct = s.acct /\ t.book = s.book /\ t.filled = 0 /\ omap_notional(t.orders[id]) = 0
  /\ t.refused < Cardinality(J) => \E i \in J : t.orders[id].legs[plan[i].market].accepted
  /\ BooksOnward(t, s, id)

SentPaid(t, s, id, base) ==
  base \in Base /\ Posted(s.acct, Terms(s.orders), Claims(s.orders, id, OwnOf(s.orders[id])), base)
    => Paid(t, s, id, OwnOf(t.orders[id]), base)

LEMMA PlanIs ==
  ASSUME NEW plan, NEW qty, plan_validate(plan, qty)
  PROVE  /\ plan \in Seq([market : Markets, qty : Nat \ {0}]) /\ Len(plan) \in Nat \ {0}
         /\ DOMAIN plan = 1..Len(plan) /\ IsFiniteSet(DOMAIN plan)
         /\ \A i \in DOMAIN plan : plan[i].market \in Markets /\ plan[i].qty \in Nat \ {0}
         /\ \A i, j \in DOMAIN plan : i # j => plan[i].market # plan[j].market
<1>1. plan \in Seq([market : Markets, qty : Nat \ {0}]) /\ plan # << >>
      /\ \A i, j \in DOMAIN plan : i # j => plan[i].market # plan[j].market
  BY DEF plan_validate
<1>2. Len(plan) \in Nat \ {0} /\ DOMAIN plan = 1..Len(plan)
  BY <1>1
<1>3. ASSUME NEW i \in DOMAIN plan PROVE plan[i].market \in Markets /\ plan[i].qty \in Nat \ {0}
  <2>1. PICK S : S = [market : Markets, qty : Nat \ {0}]
    OBVIOUS
  <2>2. plan \in Seq(S)
    BY <1>1, <2>1
  <2>3. plan[i] \in S
    BY <2>2
  <2> QED
    BY <2>1, <2>3
<1>4. IsFiniteSet(DOMAIN plan)
  BY <1>1, IndicesFinite
<1> QED
  BY <1>1, <1>2, <1>3, <1>4

\* Sending one leg more.
LEMMA OneLessPending ==
  ASSUME NEW plan, NEW qty, plan_validate(plan, qty), NEW J \in SUBSET (DOMAIN plan), NEW k \in J
  PROVE  /\ plan[k].market \in Pending(plan, J \ {k})
         /\ Pending(plan, J) = Pending(plan, J \ {k}) \ {plan[k].market}
         /\ Cardinality(J) \in Nat /\ Cardinality(J \ {k}) = Cardinality(J) - 1
<1>1. \A i, j \in DOMAIN plan : i # j => plan[i].market # plan[j].market
  BY PlanIs
<1>2. PICK n : n = Len(plan)
  OBVIOUS
<1>3. n \in Nat /\ J \in SUBSET (1..n)
  BY <1>2, PlanIs
<1>4. Cardinality(J) \in Nat /\ Cardinality(J \ {k}) = Cardinality(J) - 1
  BY <1>3, IndexSets
<1> QED
  BY <1>1, <1>4 DEF Pending

LEMMA NothingSent ==
  ASSUME NEW s, NEW plan, NEW id, Ready(s, plan, id), NEW base
  PROVE  Sent(s, s, plan, id, {}) /\ SentPaid(s, s, id, base)
<1>1. s.orders \in OrderMaps
  BY StateFields DEF Ready
<1>2. Grown(s.orders, s.orders, id)
  BY <1>1, GrownNothing
<1>3. ASSUME NEW k \in Markets
      PROVE  Agree(s.orders, s.book[k], k, id, IF k \in Pending(plan, {}) THEN 0 ELSE LeftOf(s.orders, id, k))
  <2>1. Agree(s.orders, s.book[k], k, id, 0)
    BY DEF Ready
  <2>2. k \notin Pending(plan, {}) => LeftOf(s.orders, id, k) = 0
    BY DEF Ready, LeftOf
  <2> QED
    BY <2>1, <2>2
<1>4. Cardinality({}) = 0
  BY FS_EmptySet
<1>6. BooksOnward(s, s, id)
  BY SameBooksOnward DEF Ready
<1>5. Sent(s, s, plan, id, {})
  BY <1>2, <1>3, <1>4, <1>6 DEF Sent, Ready
<1> QED
  BY <1>5 DEF SentPaid, Paid

LEMMA TradesNothing ==
  ASSUME NEW s, NEW m, NEW id, NEW fills, fills = << >>
  PROVE  Trades(s, m, fills, id, id) = s
<1> DEFINE both(t, f) == on_event(on_event(t, m, f.maker, f.price, f.qty, id),
                                  m, id, f.price, f.qty, id)
           Runs(h) == h = [J \in SUBSET (DOMAIN fills) |->
                             IF J = {} THEN s ELSE both(h[J \ {Max(J)}], fills[Max(J)])]
           w == CHOOSE h : Runs(h)
<1>1. DOMAIN fills = {}
  OBVIOUS
<1>2. Trades(s, m, fills, id, id) = w[DOMAIN fills]
  BY DEF Trades, FoldLeft, MapThenFoldSet, both
<1>3. \E h : Runs(h)
  <2>1. SUBSET (DOMAIN fills) = {{}}
    BY <1>1
  <2>2. PICK g : g = [J \in SUBSET (DOMAIN fills) |-> s]
    OBVIOUS
  <2> HIDE DEF both
  <2>3. g = [J \in SUBSET (DOMAIN fills) |-> IF J = {} THEN s ELSE both(g[J \ {Max(J)}], fills[Max(J)])]
    BY <2>1, <2>2
  <2> QED
    BY <2>3
<1>4. Runs(w)
  <2> HIDE DEF Runs
  <2> QED
    BY <1>3
<1> HIDE DEF w
<1>5. w[{}] = s
  BY <1>4
<1> QED
  BY <1>1, <1>2, <1>5

\* What SendLeg does: the engine answers r, its trades make d, the answer is
\* recorded in e.
LegSteps(e, d, t, id, type, leg, r) ==
  /\ r = Submit(type, t.book[leg.market], Band[leg.market], PoolCap,
                [owner |-> id, side |-> t.orders[id].side,
                 price |-> t.orders[id].limit, qty |-> leg.qty])
  /\ d = Trades([t EXCEPT !.book[leg.market] = r.book], leg.market, r.fills, id, id)
  /\ e = IF r.rc = "ok" THEN LegAccepted(d, id, leg.market, r) ELSE LegRefused(d, id, leg)

LEMMA SendLegSteps ==
  ASSUME NEW t, NEW id, NEW type, NEW leg
  PROVE  \E d, r : LegSteps(SendLeg(t, id, type, leg), d, t, id, type, leg, r)
  BY DEF LegSteps, SendLeg, LegAnswered

\* The engine's answer to a leg, and what its trades do.
LegDealt(e, d, t, id, m, q, r) ==
  /\ Dealing(d, t, m, r, id) /\ \A own, base : PaidFor(d, t, r.fills, id, own, base)
  /\ \E l : Answer(e, d, id, m, l, r)
  /\ r.fills \in Seq(Fill) /\ r.left \in Nat /\ Taken(r.fills) <= q /\ Taken(r.fills) \in Nat
  /\ r.rc # "ok" => /\ r.book = t.book[m] /\ r.fills = << >>
                    /\ d.acct = t.acct
  /\ Onward(r.book, t.book[m], id)

LEMMA LegDeals ==
  ASSUME NEW t \in HandlerState, NEW id, NEW type \in OrderType, NEW leg, leg.market \in Markets,
         Unsent(t.orders, id, leg.market, leg.qty),
         Agree(t.orders, t.book[leg.market], leg.market, id, 0),
         NEW d, NEW e, NEW r, LegSteps(e, d, t, id, type, leg, r)
  PROVE  LegDealt(e, d, t, id, leg.market, leg.qty, r)
<1>1. PICK m, q, b, os, k : /\ m = leg.market /\ q = leg.qty /\ b = t.book[leg.market] /\ os = t.orders
                            /\ k = [owner |-> id, side |-> t.orders[id].side,
                                    price |-> t.orders[id].limit, qty |-> leg.qty]
  OBVIOUS
<1>2. /\ os \in OrderMaps /\ Listed(os, id) /\ m \in DOMAIN os[id].legs /\ q \in Nat \ {0}
      /\ os[id].legs[m] = NewLeg(q) /\ m \in Markets
  BY <1>1, StateFields DEF Unsent
<1>3. id \in Nat \ {0} /\ os[id].side \in Side /\ id \in Slots
  <2>1. id \in Nat \ {0} /\ os[id] \in OrderRec /\ id \in Slots
    BY <1>2, OrderMapFacts
  <2> QED
    BY <2>1, OrderTypes
<1>4. k.owner = id /\ k.side = os[id].side /\ k.price = os[id].limit /\ k.qty = q
  BY <1>1
<1>5. r = Submit(type, b, Band[m], PoolCap, k)
  BY <1>1 DEF LegSteps
<1>6. Dealt(r, b, PoolCap, k)
  <2>1. BookOK(b) /\ Len(b) <= PoolCap /\ Rests(b, id, 0)
    BY <1>1, <1>3 DEF Agree
  <2>2. k.owner \in Int /\ k.side \in Side /\ k.qty \in Nat /\ (k.owner > 0 => Rests(b, k.owner, 0))
    BY <1>2, <1>3, <1>4, <2>1
  <2>3. Band[m] \in SUBSET Price /\ PoolCap \in Nat
    BY <1>2, LedgerAssumption
  <2> QED
    BY <1>5, <2>1, <2>2, <2>3, SubmitContract
<1>7. Sends(t.orders, m, id, k)
  BY <1>1, <1>2, <1>3, <1>4 DEF Sends
<1>8. d = Trades([t EXCEPT !.book[m] = r.book], m, r.fills, id, id)
  BY <1>1 DEF LegSteps
<1>9. Agree(t.orders, t.book[m], m, id, 0) /\ Dealt(r, t.book[m], PoolCap, k)
  BY <1>1, <1>6
<1>10. ASSUME NEW own, NEW base
       PROVE  Dealing(d, t, m, r, id) /\ PaidFor(d, t, r.fills, id, own, base)
  BY <1>2, <1>7, <1>8, <1>9, DealingContract
<1>11. d \in HandlerState /\ d.orders \in OrderMaps /\ Served(d.orders, os, m, r.fills, DOMAIN r.fills, id)
  BY <1>1, <1>10, StateFields DEF Dealing
<1>12. id \in DOMAIN os
  BY <1>2 DEF Listed
<1>13. d.orders[id] = os[id]
  BY <1>11, <1>12 DEF Served
<1>14. Unsent(d.orders, id, leg.market, leg.qty)
  <2>1. DOMAIN d.orders = DOMAIN os
    <3>1. DOMAIN d.orders = 1..Len(d.orders) /\ DOMAIN os = 1..Len(os)
      BY <1>2, <1>11, OrderMapFacts
    <3> QED
      BY <1>11, <3>1 DEF Served
  <2> QED
    BY <1>1, <1>2, <1>12, <1>13, <2>1 DEF Unsent, Listed
<1>15. e = IF r.rc = "ok" THEN LegAccepted(d, id, leg.market, r) ELSE LegRefused(d, id, leg)
  BY DEF LegSteps
<1>16. k.qty = leg.qty /\ d \in HandlerState
  BY <1>1, <1>4, <1>11
<1>17. \E l : Answer(e, d, id, leg.market, l, r)
  BY <1>6, <1>14, <1>15, <1>16, AnswerIs
<1>18. r.fills \in Seq(Fill) /\ r.left \in Nat /\ Sum(Qtys(r.fills)) + r.left = q
       /\ (r.rc # "ok" => r.book = b /\ r.fills = << >>)
  BY <1>4, <1>6 DEF Dealt
<1>19. Taken(r.fills) = Sum(Qtys(r.fills)) /\ Taken(r.fills) \in Nat
  BY <1>18, MoneyFacts
<1>20. Taken(r.fills) <= q
  BY <1>2, <1>18, <1>19
<1>21. ASSUME r.rc # "ok" PROVE d.acct = t.acct
  <2>1. PICK z : z = [t EXCEPT !.book[m] = r.book]
    OBVIOUS
  <2>2. d = z
    BY <1>8, <1>18, <1>21, <2>1, TradesNothing
  <2> QED
    BY <2>1, <2>2 DEF HandlerState
<1>22. Dealing(d, t, m, r, id) /\ \A own, base : PaidFor(d, t, r.fills, id, own, base)
  BY <1>10
<1>23. Onward(r.book, b, id)
  BY <1>4, <1>6 DEF Dealt
<1> QED
  BY <1>1, <1>17, <1>18, <1>19, <1>20, <1>21, <1>22, <1>23 DEF LegDealt

\* The order map before a leg, t, and with its answer, e.
LegRecorded(e, t, id, m, l) ==
  /\ e \in HandlerState /\ Listed(e.orders, id) /\ Len(e.orders) = Len(t.orders)
  /\ Terms(e.orders) = Terms(t.orders) /\ Grown(e.orders, t.orders, id)
  /\ TermsOf(e.orders[id]) = TermsOf(t.orders[id]) /\ e.orders[id].qty = t.orders[id].qty
  /\ e.orders[id].market = t.orders[id].market
  /\ DOMAIN e.orders[id].legs = DOMAIN t.orders[id].legs /\ e.orders[id].legs[m] = l
  /\ \A k \in DOMAIN t.orders[id].legs : k # m => e.orders[id].legs[k] = t.orders[id].legs[k]
  /\ omap_filled_qty(e.orders[id]) = omap_filled_qty(t.orders[id]) + l.filled
  /\ omap_notional(e.orders[id]) = omap_notional(t.orders[id]) + l.notional
  /\ Agree(e.orders, e.book[m], m, id, LegLeft(l))
  /\ \A k \in Markets \ {m}, p \in Nat :
       Agree(t.orders, t.book[k], k, id, p) => Agree(e.orders, e.book[k], k, id, p)

LEMMA LegRecords ==
  ASSUME NEW t \in HandlerState, NEW id, NEW m \in Markets, NEW q, Unsent(t.orders, id, m, q),
         NEW d, NEW r, Dealing(d, t, m, r, id), r.fills \in Seq(Fill),
         NEW e, NEW l, Answer(e, d, id, m, l, r)
  PROVE  LegRecorded(e, t, id, m, l)
<1>1. PICK ot, od, oe : ot = t.orders /\ od = d.orders /\ oe = e.orders
  OBVIOUS
<1>2. /\ ot \in OrderMaps /\ Listed(ot, id) /\ m \in DOMAIN ot[id].legs /\ id \in DOMAIN ot
      /\ ot[id].legs[m] = NewLeg(q) /\ q \in Nat \ {0}
  BY <1>1, StateFields DEF Unsent, Listed
<1>3. od \in OrderMaps /\ Served(od, ot, m, r.fills, DOMAIN r.fills, id)
  BY <1>1, StateFields DEF Dealing
<1>4. DOMAIN r.fills \in SUBSET (DOMAIN r.fills)
  OBVIOUS
<1>5. DOMAIN od = DOMAIN ot /\ Terms(od) = Terms(ot)
  BY <1>2, <1>3, <1>4, ServedFacts
<1>6. Len(od) = Len(ot) /\ od[id] = ot[id] /\ Listed(od, id) /\ m \in DOMAIN od[id].legs
  BY <1>2, <1>3, <1>5 DEF Served, Listed
<1>7. /\ e \in HandlerState /\ e.book = d.book /\ Relegged(oe, od, id, m, l) /\ oe \in OrderMaps
      /\ LegOK(l) /\ LegLeft(l) = (IF r.resting THEN r.left ELSE 0)
  BY <1>1, StateFields DEF Answer, Recorded
<1>8. Terms(oe) = Terms(od)
  BY <1>3, <1>6, <1>7, ReleggedElsewhere
<1>9. Grown(oe, od, id)
  BY <1>3, <1>6, <1>7, ReleggedGrown
<1>10. Grown(od, ot, id)
  BY <1>2, <1>3, ServedGrown
<1>11. Grown(oe, ot, id)
  BY <1>2, <1>9, <1>10, GrownMore
<1>12. SameOrders(oe, od)
  BY <1>3, <1>6, <1>7, ReleggedSame
<1>13. \A v, k : ~(v = id /\ k = m) => LeftOf(oe, v, k) = LeftOf(od, v, k)
  BY <1>3, <1>6, <1>7, ReleggedElsewhere
<1>14. Agree(oe, e.book[m], m, id, LegLeft(l))
  <2>1. PICK x : x = LegLeft(l)
    OBVIOUS
  <2>2. Agree(od, d.book[m], m, id, x)
    BY <1>1, <1>7, <2>1 DEF Dealing
  <2>3. \A u \in Nat \ {0} : u # id => LeftOf(oe, u, m) = LeftOf(od, u, m)
    BY <1>13
  <2>4. Agree(oe, d.book[m], m, id, x)
    BY <1>12, <2>2, <2>3, AgreeStill
  <2> QED
    BY <1>7, <2>1, <2>4
<1>15. ASSUME NEW k \in Markets \ {m}, NEW p \in Nat, Agree(ot, t.book[k], k, id, p)
       PROVE  Agree(oe, e.book[k], k, id, p)
  <2>1. Agree(od, d.book[k], k, id, p)
    BY <1>1, <1>15 DEF Dealing
  <2>2. \A u \in Nat \ {0} : u # id => LeftOf(oe, u, k) = LeftOf(od, u, k)
    BY <1>13
  <2>3. Agree(oe, d.book[k], k, id, p)
    BY <1>12, <2>1, <2>2, AgreeStill
  <2> QED
    BY <1>7, <2>3
<1>16. /\ Listed(oe, id) /\ Len(oe) = Len(ot)
       /\ TermsOf(oe[id]) = TermsOf(ot[id]) /\ oe[id].qty = ot[id].qty /\ oe[id].market = ot[id].market
       /\ DOMAIN oe[id].legs = DOMAIN ot[id].legs /\ oe[id].legs[m] = l
       /\ \A k \in DOMAIN ot[id].legs : k # m => oe[id].legs[k] = ot[id].legs[k]
  BY <1>6, <1>7 DEF Relegged
<1>17. /\ omap_filled_qty(oe[id]) = omap_filled_qty(ot[id]) + l.filled
       /\ omap_notional(oe[id]) = omap_notional(ot[id]) + l.notional
  <2>1. /\ omap_filled_qty(oe[id]) = omap_filled_qty(ot[id]) - ot[id].legs[m].filled + l.filled
        /\ omap_notional(oe[id]) = omap_notional(ot[id]) - ot[id].legs[m].notional + l.notional
    BY <1>6, <1>7 DEF Relegged
  <2>2. ot[id].legs[m].filled = 0 /\ ot[id].legs[m].notional = 0
    BY <1>2, NewLegFacts
  <2>3. omap_filled_qty(ot[id]) \in Nat /\ omap_notional(ot[id]) \in Nat
    <3>1. OrderOK(ot[id])
      BY <1>2, OrderMapFacts
    <3> QED
      BY <3>1, OrderTotals
  <2>4. \A a \in Nat : a - 0 = a
    OBVIOUS
  <2> QED
    BY <2>1, <2>2, <2>3, <2>4
<1> QED
  BY <1>1, <1>5, <1>7, <1>8, <1>11, <1>14, <1>15, <1>16, <1>17 DEF LegRecorded

\* One leg more.
LEMMA LegSent ==
  ASSUME NEW s, NEW plan, NEW id, Ready(s, plan, id), NEW J \in SUBSET (DOMAIN plan), NEW k \in J,
         NEW t, Sent(t, s, plan, id, J \ {k}), NEW type \in OrderType,
         NEW e, e = SendLeg(t, id, type, plan[k])
  PROVE  Sent(e, s, plan, id, J)
<1>1. PICK I, leg, m, q, qty : /\ I = J \ {k} /\ leg = plan[k] /\ m = leg.market /\ q = leg.qty
                               /\ qty = s.orders[id].qty
  OBVIOUS
<1>2. plan_validate(plan, qty) /\ Sent(t, s, plan, id, I) /\ k \in DOMAIN plan \ I /\ k \in DOMAIN plan
  BY <1>1 DEF Ready
<1>3. m \in Markets /\ q \in Nat \ {0} /\ \A i, j \in DOMAIN plan : i # j => plan[i].market # plan[j].market
  BY <1>1, <1>2, PlanIs
<1>4. /\ m \in Pending(plan, I) /\ Pending(plan, J) = Pending(plan, I) \ {m}
      /\ Cardinality(J) \in Nat /\ Cardinality(I) = Cardinality(J) - 1
  BY <1>1, <1>2, OneLessPending, ZenonT(60)
<1>5. t \in HandlerState /\ Unsent(t.orders, id, m, q) /\ Agree(t.orders, t.book[m], m, id, 0)
      /\ leg.market \in Markets
  <2>1. t \in HandlerState /\ Unsent(t.orders, id, m, q)
    BY <1>1, <1>2 DEF Sent
  <2>2. Agree(t.orders, t.book[m], m, id, IF m \in Pending(plan, I) THEN 0 ELSE LeftOf(t.orders, id, m))
    BY <1>2, <1>3 DEF Sent
  <2> QED
    BY <1>1, <1>3, <1>4, <2>1, <2>2
<1>6. PICK d, r : LegSteps(e, d, t, id, type, leg, r)
  BY <1>1, SendLegSteps
<1>7. /\ Dealing(d, t, m, r, id) /\ (\E l : Answer(e, d, id, m, l, r))
      /\ r.fills \in Seq(Fill) /\ r.left \in Nat /\ Taken(r.fills) \in Nat
      /\ (r.rc # "ok" => r.book = t.book[m] /\ r.fills = << >> /\ d.acct = t.acct)
      /\ Onward(r.book, t.book[m], id)
  <2>1. Unsent(t.orders, id, leg.market, leg.qty) /\ Agree(t.orders, t.book[leg.market], leg.market, id, 0)
    BY <1>1, <1>5
  <2>2. LegDealt(e, d, t, id, leg.market, leg.qty, r)
    BY <1>5, <1>6, <2>1, LegDeals
  <2> QED
    BY <1>1, <2>2 DEF LegDealt
<1>8. PICK l : Answer(e, d, id, m, l, r)
  BY <1>7
<1>9. LegOK(l) /\ l.filled = Taken(r.fills) /\ l.notional = Money(r.fills)
      /\ l.filled \in Nat /\ l.notional \in Nat /\ LegLeft(l) \in Nat
  <2>1. LegOK(l) /\ l.filled = Taken(r.fills) /\ l.notional = Money(r.fills)
    BY <1>8 DEF Answer
  <2> QED
    BY <2>1, LegTypes
<1>10. PICK ot, oe, os : ot = t.orders /\ oe = e.orders /\ os = s.orders
  OBVIOUS
<1>30. LegRecorded(e, t, id, m, l)
  BY <1>3, <1>5, <1>7, <1>8, LegRecords
<1>11. /\ e \in HandlerState /\ Listed(oe, id) /\ Len(oe) = Len(ot)
       /\ Terms(oe) = Terms(ot) /\ Grown(oe, ot, id)
       /\ TermsOf(oe[id]) = TermsOf(ot[id]) /\ oe[id].qty = ot[id].qty
       /\ oe[id].market = ot[id].market
       /\ DOMAIN oe[id].legs = DOMAIN ot[id].legs /\ oe[id].legs[m] = l
       /\ \A j \in DOMAIN ot[id].legs : j # m => oe[id].legs[j] = ot[id].legs[j]
  BY <1>10, <1>30 DEF LegRecorded
<1>12. /\ omap_filled_qty(oe[id]) = omap_filled_qty(ot[id]) + l.filled
       /\ omap_notional(oe[id]) = omap_notional(ot[id]) + l.notional
  BY <1>10, <1>30 DEF LegRecorded
<1>13. Agree(oe, e.book[m], m, id, LegLeft(l))
  BY <1>10, <1>30 DEF LegRecorded
<1>14. \A j \in Markets \ {m}, p \in Nat : Agree(ot, t.book[j], j, id, p) => Agree(oe, e.book[j], j, id, p)
  BY <1>10, <1>30 DEF LegRecorded
<1>15. /\ Listed(ot, id) /\ Len(ot) = Len(os) /\ Terms(ot) = Terms(os)
       /\ TermsOf(ot[id]) = TermsOf(os[id]) /\ ot[id].qty = os[id].qty /\ ot[id].market = os[id].market
       /\ DOMAIN ot[id].legs = DOMAIN os[id].legs /\ Grown(ot, os, id) /\ t.canceled = 0
       /\ t.filled = omap_filled_qty(ot[id]) /\ t.refused <= Cardinality(I)
  BY <1>2, <1>10 DEF Sent
<1>16. os \in OrderMaps /\ ot \in OrderMaps /\ oe \in OrderMaps /\ t.filled \in Nat /\ t.refused \in Nat
  BY <1>5, <1>10, <1>11, StateFields DEF Ready
<1>17. Grown(oe, os, id)
  BY <1>11, <1>15, <1>16, GrownMore
<1>18. ASSUME NEW i \in DOMAIN plan \ J PROVE Unsent(oe, id, plan[i].market, plan[i].qty)
  <2>1. Unsent(ot, id, plan[i].market, plan[i].qty)
    BY <1>1, <1>2, <1>10, <1>18 DEF Sent
  <2>2. plan[i].market # m
    BY <1>1, <1>2, <1>3, <1>18
  <2> QED
    BY <1>11, <2>1, <2>2 DEF Unsent
<1>19. m \in DOMAIN ot[id].legs /\ LeftOf(oe, id, m) = LegLeft(l)
  BY <1>5, <1>10, <1>11 DEF Unsent, LeftOf
<1>20. ASSUME NEW i \in J, LegLeft(oe[id].legs[plan[i].market]) > 0
       PROVE  oe[id].legs[plan[i].market].accepted
  <2>1. CASE i = k
    <3>1. oe[id].legs[plan[i].market] = l
      BY <1>1, <1>11, <2>1
    <3>2. LegLeft(l) > 0
      BY <1>20, <3>1
    <3>3. l.accepted
      BY <1>8, <3>2 DEF Answer
    <3> QED
      BY <3>1, <3>3
  <2>2. CASE i # k
    <3>1. PICK j : j = plan[i].market
      OBVIOUS
    <3>2. j # m /\ i \in I
      BY <1>1, <1>2, <1>3, <2>2, <3>1
    <3>3. j \in DOMAIN ot[id].legs
      <4>1. j \in Pending(plan, {})
        BY <3>1 DEF Pending
      <4> QED
        BY <1>10, <1>15, <4>1 DEF Ready
    <3>4. oe[id].legs[j] = ot[id].legs[j]
      BY <1>11, <3>2, <3>3
    <3>5. LegLeft(ot[id].legs[j]) > 0 => ot[id].legs[j].accepted
      BY <1>2, <1>10, <3>1, <3>2 DEF Sent
    <3> QED
      BY <1>20, <3>1, <3>4, <3>5
  <2> QED
    BY <2>1, <2>2
<1>21. ASSUME NEW j \in Markets
       PROVE  Agree(oe, e.book[j], j, id, IF j \in Pending(plan, J) THEN 0 ELSE LeftOf(oe, id, j))
  <2>1. CASE j = m
    BY <1>4, <1>13, <1>19, <2>1
  <2>2. CASE j # m
    <3>1. PICK p : p = IF j \in Pending(plan, J) THEN 0 ELSE LeftOf(ot, id, j)
      OBVIOUS
    <3>2. p \in Nat
      BY <1>16, <3>1, LeftOfType
    <3>3. Agree(ot, t.book[j], j, id, IF j \in Pending(plan, I) THEN 0 ELSE LeftOf(ot, id, j))
      BY <1>2, <1>10 DEF Sent
    <3>4. j \in Pending(plan, J) <=> j \in Pending(plan, I)
      BY <1>4, <2>2
    <3>5. Agree(ot, t.book[j], j, id, p)
      BY <3>1, <3>3, <3>4
    <3>6. Agree(oe, e.book[j], j, id, p)
      BY <1>14, <2>2, <3>2, <3>5
    <3>7. LeftOf(oe, id, j) = LeftOf(ot, id, j)
      BY <1>11, <1>15, <2>2 DEF LeftOf
    <3> QED
      BY <3>1, <3>6, <3>7
  <2> QED
    BY <2>1, <2>2
\* What the handler counts.
<1>22. /\ d.acct = e.acct /\ d.book = e.book /\ e.canceled = d.canceled
       /\ e.filled = d.filled + l.filled
       /\ (l.accepted => e.refused = d.refused + 0)
       /\ (~l.accepted => e.refused = d.refused + 1 /\ r.rc # "ok")
  <2>1. PICK x : x = IF l.accepted THEN 0 ELSE 1
    OBVIOUS
  <2>2. Recorded(e, d, id, m, l, Taken(r.fills), x) /\ (~l.accepted => r.rc # "ok")
    BY <1>8, <2>1 DEF Answer
  <2> QED
    BY <1>9, <2>1, <2>2 DEF Recorded
<1>23. d.refused = t.refused /\ d.filled = t.filled /\ d.canceled = t.canceled
  BY <1>7 DEF Dealing
<1>24. e.filled = omap_filled_qty(oe[id]) /\ e.canceled = 0
  BY <1>12, <1>15, <1>22, <1>23
<1>25. e.refused = (IF l.accepted THEN t.refused ELSE t.refused + 1)
  BY <1>16, <1>22, <1>23
<1>26. e.refused <= Cardinality(J) /\ e.refused \in Nat
  BY <1>4, <1>15, <1>16, <1>25
<1>27. ASSUME e.refused = Cardinality(J)
       PROVE  e.acct = s.acct /\ e.book = s.book /\ e.filled = 0 /\ omap_notional(oe[id]) = 0
  <2>1. ~l.accepted /\ t.refused = Cardinality(I)
    BY <1>4, <1>15, <1>16, <1>25, <1>27
  <2>2. t.acct = s.acct /\ t.book = s.book /\ t.filled = 0 /\ omap_notional(ot[id]) = 0
    BY <1>2, <1>10, <2>1 DEF Sent
  <2>3. r.fills = << >> /\ r.book = t.book[m]
    BY <1>7, <1>22, <2>1
  <2>4. d.acct = t.acct
    BY <1>7, <1>22, <2>1
  <2>5. d.book = t.book
    <3>1. d.book \in [Markets -> Seq(BookOrder)] /\ t.book \in [Markets -> Seq(BookOrder)]
      BY <1>5, <1>7, StateFields DEF Dealing
    <3>2. \A j \in Markets : d.book[j] = t.book[j]
      BY <1>7, <2>3 DEF Dealing
    <3> QED
      BY <3>1, <3>2
  <2>6. l.filled = 0 /\ l.notional = 0
    BY <1>7, <1>9, <2>3, MoneyFacts
  <2> QED
    BY <1>12, <1>22, <1>23, <2>2, <2>4, <2>5, <2>6
<1>28. ASSUME e.refused < Cardinality(J) PROVE \E i \in J : oe[id].legs[plan[i].market].accepted
  <2>1. CASE l.accepted
    <3>1. oe[id].legs[plan[k].market].accepted
      BY <1>1, <1>11, <2>1
    <3> QED
      BY <3>1
  <2>2. CASE ~l.accepted
    <3>1. t.refused < Cardinality(I)
      BY <1>4, <1>15, <1>16, <1>25, <1>28, <2>2
    <3>2. PICK i \in I : ot[id].legs[plan[i].market].accepted
      BY <1>2, <1>10, <3>1 DEF Sent
    <3>3. PICK j : j = plan[i].market
      OBVIOUS
    <3>4. j # m /\ i \in J
      BY <1>1, <1>2, <1>3, <3>2, <3>3
    <3>5. j \in DOMAIN ot[id].legs
      <4>1. j \in Pending(plan, {})
        BY <3>3, <3>4 DEF Pending
      <4> QED
        BY <1>10, <1>15, <4>1 DEF Ready
    <3>6. oe[id].legs[j].accepted
      BY <1>11, <3>2, <3>3, <3>4, <3>5
    <3> QED
      BY <3>3, <3>4, <3>6
  <2> QED
    BY <2>1, <2>2
<1>29. /\ e \in HandlerState /\ e.canceled = 0
       /\ Listed(oe, id) /\ Len(oe) = Len(os) /\ Terms(oe) = Terms(os)
       /\ TermsOf(oe[id]) = TermsOf(os[id]) /\ oe[id].qty = os[id].qty /\ oe[id].market = os[id].market
       /\ DOMAIN oe[id].legs = DOMAIN os[id].legs
  BY <1>11, <1>15, <1>24
<1>31. BooksOnward(e, s, id)
  <2>1. d.book[m] = r.book /\ \A j \in Markets : j # m => d.book[j] = t.book[j]
    BY <1>7 DEF Dealing
  <2>2. Onward(e.book[m], t.book[m], id) /\ \A j \in Markets : j # m => e.book[j] = t.book[j]
    BY <1>7, <1>22, <2>1
  <2>3. BooksOnward(e, t, id)
    BY <1>3, <1>5, <2>2, OneBookOnward
  <2>4. BooksOnward(t, s, id)
    BY <1>2 DEF Sent
  <2> QED
    BY <2>3, <2>4, BooksOnwardFurther
<1> QED
  BY <1>10, <1>17, <1>18, <1>20, <1>21, <1>24, <1>26, <1>27, <1>28, <1>29, <1>31 DEF Sent

LEMMA OwnOfType ==
  ASSUME NEW lo, OrderOK(lo)
  PROVE  /\ OwnOf(lo) \in Claim /\ OwnOf(lo).left = lo.qty - omap_filled_qty(lo)
         /\ OwnOf(lo).money = omap_notional(lo) /\ OwnOf(lo).shares = omap_filled_qty(lo)
         /\ \A m \in DOMAIN lo.legs : LegLeft(lo.legs[m]) <= OwnOf(lo).left
<1>1. PICK f, c, r, q, n : /\ f = omap_filled_qty(lo) /\ c = omap_canceled_qty(lo) /\ q = lo.qty
                           /\ r = omap_remaining(lo) /\ n = omap_notional(lo)
  OBVIOUS
<1>2. f \in Nat /\ c \in Nat /\ n \in Nat /\ r \in Nat /\ r = q - f - c
      /\ \A m \in DOMAIN lo.legs : LegLeft(lo.legs[m]) <= r
  BY <1>1, OrderTotals
<1>3. q \in Nat
  BY <1>1, OrderTypes DEF OrderOK
<1>4. q - f \in Nat /\ r <= q - f
  BY <1>2, <1>3
<1>5. OwnOf(lo) = [left |-> q - f, money |-> n, shares |-> f]
  BY <1>1 DEF OwnOf
<1>6. ASSUME NEW m \in DOMAIN lo.legs PROVE LegLeft(lo.legs[m]) <= q - f
  <2>1. LegOK(lo.legs[m])
    BY DEF OrderOK, LegsOK
  <2>2. LegLeft(lo.legs[m]) \in Nat
    BY <2>1, LegTypes
  <2> QED
    BY <1>2, <1>3, <1>4, <2>2
<1> QED
  BY <1>1, <1>2, <1>4, <1>5, <1>6 DEF Claim

\* One leg more is paid for.
LEMMA LegPaid ==
  ASSUME NEW s, NEW plan, NEW id, Ready(s, plan, id), NEW J \in SUBSET (DOMAIN plan), NEW k \in J,
         NEW t, Sent(t, s, plan, id, J \ {k}), NEW base, SentPaid(t, s, id, base),
         NEW type \in OrderType, NEW e, e = SendLeg(t, id, type, plan[k])
  PROVE  SentPaid(e, s, id, base)
<1>1. PICK I, leg, m, q : I = J \ {k} /\ leg = plan[k] /\ m = leg.market /\ q = leg.qty
  OBVIOUS
<1>2. plan_validate(plan, s.orders[id].qty) /\ Sent(t, s, plan, id, I) /\ k \in DOMAIN plan \ I /\ k \in DOMAIN plan
  BY <1>1 DEF Ready
<1>3. m \in Markets /\ q \in Nat \ {0}
  BY <1>1, <1>2, PlanIs
<1>4. m \in Pending(plan, I)
  BY <1>1, <1>2, OneLessPending
<1>5. t \in HandlerState /\ Unsent(t.orders, id, m, q) /\ Agree(t.orders, t.book[m], m, id, 0)
      /\ leg.market \in Markets
  <2>1. t \in HandlerState /\ Unsent(t.orders, id, m, q)
    BY <1>1, <1>2 DEF Sent
  <2>2. Agree(t.orders, t.book[m], m, id, IF m \in Pending(plan, I) THEN 0 ELSE LeftOf(t.orders, id, m))
    BY <1>2, <1>3 DEF Sent
  <2> QED
    BY <1>1, <1>3, <1>4, <2>1, <2>2
<1>6. PICK d, r : LegSteps(e, d, t, id, type, leg, r)
  BY <1>1, SendLegSteps
<1>7. LegDealt(e, d, t, id, m, q, r)
  <2>1. Unsent(t.orders, id, leg.market, leg.qty) /\ Agree(t.orders, t.book[leg.market], leg.market, id, 0)
    BY <1>1, <1>5
  <2>2. LegDealt(e, d, t, id, leg.market, leg.qty, r)
    BY <1>5, <1>6, <2>1, LegDeals
  <2> QED
    BY <1>1, <2>2
<1>8. PICK l : Answer(e, d, id, m, l, r)
  BY <1>7 DEF LegDealt
<1>9. PICK ot, od, oe, fills : ot = t.orders /\ od = d.orders /\ oe = e.orders /\ fills = r.fills
  OBVIOUS
<1>10. /\ Dealing(d, t, m, r, id) /\ (\A own : PaidFor(d, t, fills, id, own, base))
       /\ fills \in Seq(Fill) /\ Taken(fills) <= q /\ Taken(fills) \in Nat
  BY <1>7, <1>9 DEF LegDealt
<1>11. /\ ot \in OrderMaps /\ Listed(ot, id) /\ m \in DOMAIN ot[id].legs /\ id \in DOMAIN ot
       /\ OrderOK(ot[id]) /\ id \in Slots /\ ot[id].legs[m] = NewLeg(q)
  <2>1. /\ ot \in OrderMaps /\ Listed(ot, id) /\ m \in DOMAIN ot[id].legs /\ id \in DOMAIN ot
        /\ ot[id].legs[m] = NewLeg(q)
    BY <1>5, <1>9, StateFields DEF Unsent, Listed
  <2> QED
    BY <2>1, OrderMapFacts
<1>12. LegRecorded(e, t, id, m, l)
  <2>1. r.fills \in Seq(Fill) /\ Dealing(d, t, m, r, id)
    BY <1>9, <1>10
  <2> QED
    BY <1>3, <1>5, <1>8, <2>1, LegRecords
<1>13. PICK own, own2 : own = OwnOf(ot[id]) /\ own2 = After(own, fills, DOMAIN fills)
  OBVIOUS
<1>14. own \in Claim /\ q <= own.left
  <2>1. own \in Claim /\ LegLeft(ot[id].legs[m]) <= own.left
    BY <1>11, <1>13, OwnOfType
  <2>2. LegLeft(ot[id].legs[m]) = q
    BY <1>3, <1>11, NewLegFacts
  <2> QED
    BY <2>1, <2>2
<1>15. SUFFICES ASSUME base \in Base,
                       Posted(s.acct, Terms(s.orders), Claims(s.orders, id, OwnOf(s.orders[id])), base)
                PROVE  Paid(e, s, id, OwnOf(oe[id]), base)
  BY <1>9 DEF SentPaid
<1>16. Paid(t, s, id, own, base) /\ Terms(s.orders) = Terms(ot)
  BY <1>2, <1>9, <1>13, <1>15 DEF SentPaid, Sent
<1>17. MayPay(t, fills, id, own, base)
  <2>1. Sum(Qtys(fills)) <= own.left
    <3>1. Taken(fills) = Sum(Qtys(fills))
      BY <1>10, MoneyFacts
    <3>2. own.left \in Nat
      BY <1>14, ClaimTypes
    <3> QED
      BY <1>3, <1>10, <1>14, <3>1, <3>2
  <2> QED
    BY <1>9, <1>14, <1>15, <1>16, <2>1 DEF MayPay, Paid
<1>18. Paid(d, t, id, own2, base)
  BY <1>10, <1>13, <1>17 DEF PaidFor
<1>19. e.acct = d.acct /\ e.failed = d.failed /\ Relegged(oe, od, id, m, l)
       /\ l.filled = Taken(fills) /\ l.notional = Money(fills)
  BY <1>8, <1>9 DEF Answer, Recorded
<1>20. OwnOf(oe[id]) = own2
  <2>1. /\ oe[id].qty = ot[id].qty
        /\ omap_filled_qty(oe[id]) = omap_filled_qty(ot[id]) + l.filled
        /\ omap_notional(oe[id]) = omap_notional(ot[id]) + l.notional
    BY <1>9, <1>12 DEF LegRecorded
  <2>2. PICK a, f, n, x, y : /\ a = ot[id].qty /\ f = omap_filled_qty(ot[id]) /\ n = omap_notional(ot[id])
                             /\ x = Taken(fills) /\ y = Money(fills)
    OBVIOUS
  <2>3. x = Part(Qtys(fills), DOMAIN fills) /\ y = Part(Moneys(fills), DOMAIN fills)
    BY <1>10, <2>2, MoneyFacts
  <2>4. own2 = [left |-> own.left - x, money |-> own.money + y, shares |-> own.shares + x]
    BY <1>13, <2>3 DEF After
  <2>5. own.left = a - f /\ own.money = n /\ own.shares = f
    BY <1>11, <1>13, <2>2, OwnOfType
  <2>6. OwnOf(oe[id]) = [left |-> a - (f + x), money |-> n + y, shares |-> f + x]
    BY <1>19, <2>1, <2>2 DEF OwnOf
  <2>7. a \in Nat /\ f \in Nat /\ x \in Nat
    BY <1>10, <1>11, <2>2, OrderTotals, OrderTypes DEF OrderOK
  <2>8. a - (f + x) = (a - f) - x
    BY <2>7
  <2> QED
    BY <2>4, <2>5, <2>6, <2>8
<1>21. Claims(oe, id, own2) = Claims(od, id, own2)
  <2>1. od \in OrderMaps /\ Served(od, ot, m, fills, DOMAIN fills, id)
    BY <1>9, <1>10, StateFields DEF Dealing
  <2>2. DOMAIN fills \in SUBSET (DOMAIN fills)
    OBVIOUS
  <2>3. \A v : Listed(od, v) <=> Listed(ot, v)
    BY <1>10, <1>11, <2>1, <2>2, ServedFacts
  <2>4. \A v : Listed(ot, v) => DOMAIN od[v].legs = DOMAIN ot[v].legs
    BY <1>10, <1>11, <2>1, <2>2, ServedFacts
  <2>5. Listed(od, id) /\ m \in DOMAIN od[id].legs
    BY <1>11, <2>3, <2>4
  <2>6. \A v : Listed(oe, v) <=> Listed(od, v)
    BY <1>19, <2>1, <2>5, ReleggedElsewhere
  <2>7. \A v : v # id /\ Listed(od, v) => oe[v] = od[v]
    BY <1>19 DEF Relegged, Listed
  <2> QED
    BY <2>6, <2>7, Zenon DEF Claims
<1> QED
  BY <1>9, <1>16, <1>18, <1>19, <1>20, <1>21 DEF Paid

\* All legs.
LEMMA SubmitLegs ==
  ASSUME NEW s, NEW plan, NEW id, Ready(s, plan, id), NEW type \in OrderType, NEW base,
         NEW r, r = exec_submit(s, id, type, plan)
  PROVE  Sent(r, s, plan, id, DOMAIN plan) /\ SentPaid(r, s, id, base)
<1> DEFINE n == Len(plan)
           both(t, leg) == SendLeg(t, id, type, leg)
           Good(t, J) == Sent(t, s, plan, id, J) /\ SentPaid(t, s, id, base)
           St == HandlerState
           F == [k \in 1..n |-> [t \in St |-> both(t, plan[k])]]
           T == [J \in SUBSET (1..n) |-> {t \in St : Good(t, J)}]
           Runs(h) == h = [J \in SUBSET (1..n) |->
                             IF J = {} THEN s ELSE both(h[J \ {Max(J)}], plan[Max(J)])]
<1>0. n \in Nat /\ DOMAIN plan = 1..n /\ s \in HandlerState
  BY PlanIs DEF Ready
<1>1. s \in T[{}]
  <2>1. Good(s, {})
    BY NothingSent
  <2>2. {} \in SUBSET (1..n)
    OBVIOUS
  <2> HIDE DEF Good
  <2> QED
    BY <1>0, <2>1, <2>2
<1>2. ASSUME NEW J \in SUBSET (1..n), NEW k \in J, NEW t \in T[J \ {k}]
      PROVE  both(t, plan[k]) \in T[J] /\ F[k][t] = both(t, plan[k])
  <2>1. J \ {k} \in SUBSET (1..n) /\ k \in 1..n
    OBVIOUS
  <2>2. t \in St /\ Good(t, J \ {k})
    BY <2>1
  <2>3. PICK z : z = both(t, plan[k])
    OBVIOUS
  <2>4. Good(z, J)
    <3>1. Sent(z, s, plan, id, J)
      BY <1>0, <2>2, <2>3, LegSent
    <3>2. SentPaid(z, s, id, base)
      BY <1>0, <2>2, <2>3, LegPaid
    <3> QED
      BY <3>1, <3>2
  <2>5. z \in St
    BY <2>4 DEF Sent
  <2> HIDE DEF both, Good
  <2>6. z \in T[J]
    BY <2>4, <2>5
  <2> QED
    BY <2>1, <2>2, <2>3, <2>6
<1> HIDE DEF both, F, T, St, n, Good
<1>3. PICK g : /\ LeftFold(g, n, F, s)
               /\ \A J \in SUBSET (1..n) : J # {} => Max(J) \in J /\ g[J \ {Max(J)}] \in T[J \ {Max(J)}]
  <2>1. \A J \in SUBSET (1..n) : \A k \in J : \A t \in T[J \ {k}] : F[k][t] \in T[J]
    BY <1>2
  <2> QED
    BY <1>0, <1>1, <2>1, FoldLeftRuns
<1>5. Runs(g)
  <2>1. \A J \in SUBSET (1..n) : J # {} => F[Max(J)][g[J \ {Max(J)}]] = both(g[J \ {Max(J)}], plan[Max(J)])
    BY <1>2, <1>3
  <2> QED
    BY <1>3, <2>1 DEF LeftFold
<1> DEFINE w == CHOOSE h : Runs(h)
<1>6. Runs(w)
  <2> HIDE DEF Runs
  <2> QED
    BY <1>5
<1>7. r = w[1..n]
  BY <1>0 DEF exec_submit, FoldLeft, MapThenFoldSet, both
<1> HIDE DEF w
<1>8. \A J \in SUBSET (1..n) : w[J] \in T[J]
  <2>1. w[{}] \in T[{}]
    BY <1>1, <1>6
  <2>2. ASSUME NEW J \in SUBSET (1..n), J # {}, Max(J) \in J, w[J \ {Max(J)}] \in T[J \ {Max(J)}]
        PROVE  w[J] \in T[J]
    <3>1. w[J] = both(w[J \ {Max(J)}], plan[Max(J)])
      BY <1>6, <2>2
    <3> HIDE DEF Runs
    <3> QED
      BY <1>2, <2>2, <3>1
  <2> QED
    BY <1>0, <2>1, <2>2, FoldLeftTypes
<1>9. r \in T[1..n]
  BY <1>7, <1>8
<1>10. Good(r, 1..n)
  BY <1>9 DEF T
<1> QED
  BY <1>0, <1>10 DEF Good

-----------------------------------------------------------------------------
(* A new order.                                                             *)

\* The record of a new order: a leg per market of its plan, none of them sent.
NewOrderIs(lo, a, r, plan) ==
  /\ OrderOK(lo) /\ TermsOf(lo) = [acct |-> a, side |-> r.side, limit |-> r.price]
  /\ lo.qty = r.qty /\ lo.market = r.market
  /\ DOMAIN lo.legs = Pending(plan, {}) /\ Cardinality(DOMAIN lo.legs) = Cardinality(DOMAIN plan)
  /\ \A i \in DOMAIN plan : lo.legs[plan[i].market] = NewLeg(plan[i].qty)
  /\ omap_filled_qty(lo) = 0 /\ omap_notional(lo) = 0

LEMMA RequestTypes ==
  ASSUME NEW r \in Requests
  PROVE  /\ r.side \in Side /\ r.type \in OrderType /\ r.price \in Nat \ {0} /\ r.qty \in Nat \ {0}
         /\ r.market \in MarketNames
BY LedgerAssumption DEF MarketNames

LEMMA PlanLegs ==
  ASSUME NEW plan, NEW qty, plan_validate(plan, qty),
         NEW legs, legs = [m \in {plan[i].market : i \in DOMAIN plan} |->
                            NewLeg(plan[CHOOSE i \in DOMAIN plan : plan[i].market = m].qty)]
  PROVE  /\ LegsOK(legs) /\ legs \in [DOMAIN legs -> LegRec]
         /\ DOMAIN legs = {plan[i].market : i \in DOMAIN plan}
         /\ \A i \in DOMAIN plan : legs[plan[i].market] = NewLeg(plan[i].qty)
         /\ \A m \in DOMAIN legs : legs[m].filled = 0 /\ legs[m].notional = 0
<1>1. /\ plan \in Seq([market : Markets, qty : Nat \ {0}])
      /\ \A i \in DOMAIN plan : plan[i].market \in Markets /\ plan[i].qty \in Nat \ {0}
      /\ \A i, j \in DOMAIN plan : i # j => plan[i].market # plan[j].market
  BY PlanIs
<1>2. DOMAIN legs = {plan[i].market : i \in DOMAIN plan} /\ DOMAIN legs \in SUBSET Markets
  BY <1>1
<1>3. ASSUME NEW i \in DOMAIN plan PROVE legs[plan[i].market] = NewLeg(plan[i].qty)
  <2>1. PICK m : m = plan[i].market
    OBVIOUS
  <2>2. PICK j : j = CHOOSE i2 \in DOMAIN plan : plan[i2].market = m
    OBVIOUS
  <2>3. j \in DOMAIN plan /\ plan[j].market = m
    BY <2>1, <2>2
  <2>4. j = i
    BY <1>1, <2>1, <2>3
  <2>5. m \in {plan[k].market : k \in DOMAIN plan}
    BY <2>1
  <2>6. legs[m] = NewLeg(plan[j].qty)
    BY <2>2, <2>5
  <2> QED
    BY <2>1, <2>4, <2>6
<1>4. ASSUME NEW m \in DOMAIN legs
      PROVE  LegOK(legs[m]) /\ legs[m].filled = 0 /\ legs[m].notional = 0
  <2>1. PICK i \in DOMAIN plan : m = plan[i].market
    BY <1>2
  <2>2. PICK q : q = plan[i].qty
    OBVIOUS
  <2>3. q \in Nat \ {0} /\ legs[m] = NewLeg(q)
    BY <1>1, <1>3, <2>1, <2>2
  <2>4. LET l == NewLeg(q)
        IN  LegOK(l) /\ LegLeft(l) = q /\ l.sent = q /\ l.filled = 0 /\ l.canceled = 0
            /\ l.notional = 0 /\ ~l.accepted
    BY <2>3, NewLegFacts
  <2> QED
    BY <2>3, <2>4
<1>5. \A m \in DOMAIN legs : legs[m] \in LegRec
  BY <1>4 DEF LegOK
<1>6. legs \in [DOMAIN legs -> LegRec]
  BY <1>5
<1> QED
  BY <1>2, <1>3, <1>4, <1>6 DEF LegsOK

\* A plan has as many legs as markets.
LEMMA PlanMarkets ==
  ASSUME NEW plan, NEW qty, plan_validate(plan, qty)
  PROVE  /\ IsFiniteSet({plan[i].market : i \in DOMAIN plan})
         /\ Cardinality({plan[i].market : i \in DOMAIN plan}) = Cardinality(DOMAIN plan)
<1>1. /\ IsFiniteSet(DOMAIN plan)
      /\ \A i, j \in DOMAIN plan : i # j => plan[i].market # plan[j].market
  BY PlanIs
<1>2. PICK D, M, f : D = DOMAIN plan /\ M = {plan[i].market : i \in DOMAIN plan}
                     /\ f = [i \in D |-> plan[i].market]
  OBVIOUS
<1>3. f \in Bijection(D, M)
  <2>1. f \in [D -> M] /\ \A i \in D : f[i] = plan[i].market
    BY <1>2
  <2>2. \A i, j \in D : f[i] = f[j] => i = j
    BY <1>1, <1>2, <2>1
  <2>3. \A m \in M : \E i \in D : f[i] = m
    BY <1>2, <2>1
  <2> QED
    BY <2>1, <2>2, <2>3 DEF Bijection, Injection, Surjection, IsInjective
<1>4. IsFiniteSet(D) /\ ExistsBijection(D, M)
  BY <1>1, <1>2, <1>3 DEF ExistsBijection
<1>5. IsFiniteSet(M) /\ Cardinality(M) = Cardinality(D)
  BY <1>4, FS_Bijection
<1> QED
  BY <1>2, <1>5

LEMMA RegisteredIs ==
  ASSUME NEW a \in Accounts, NEW r \in Requests, NEW plan, plan_validate(plan, r.qty),
         NEW lo, lo = Registered(a, r, plan)
  PROVE  NewOrderIs(lo, a, r, plan) /\ lo \in OrderRec
<1>1. r.side \in Side /\ r.price \in Nat \ {0} /\ r.qty \in Nat \ {0} /\ r.market \in MarketNames
  BY RequestTypes
<1>2. PICK legs : legs = [m \in {plan[i].market : i \in DOMAIN plan} |->
                            NewLeg(plan[CHOOSE i \in DOMAIN plan : plan[i].market = m].qty)]
  OBVIOUS
<1>3. /\ LegsOK(legs) /\ legs \in [DOMAIN legs -> LegRec]
      /\ DOMAIN legs = {plan[i].market : i \in DOMAIN plan}
      /\ \A i \in DOMAIN plan : legs[plan[i].market] = NewLeg(plan[i].qty)
      /\ \A m \in DOMAIN legs : legs[m].filled = 0 /\ legs[m].notional = 0
  BY <1>2, PlanLegs
<1>4. lo = [acct |-> a, side |-> r.side, limit |-> r.price, qty |-> r.qty, market |-> r.market,
            legs |-> legs]
  BY <1>2 DEF Registered
<1>5. lo.legs = legs /\ lo.qty = r.qty /\ lo.market = r.market /\ lo.acct = a
      /\ lo.side = r.side /\ lo.limit = r.price
  BY <1>4
<1>6. lo \in OrderRec
  <2>1. DOMAIN legs \in SUBSET Markets
    BY <1>3 DEF LegsOK
  <2>2. legs \in UNION {[D -> LegRec] : D \in SUBSET Markets}
    BY <1>3, <2>1
  <2> QED
    BY <1>1, <1>4, <2>2 DEF OrderRec
<1>7. \A field \in {"filled", "notional"} : Over(legs, field) = 0
  <2>1. TAKE field \in {"filled", "notional"}
  <2>2. IsFiniteSet(DOMAIN legs) /\ Over(legs, field) = Part(Field(legs, field), DOMAIN legs)
    BY <1>3, Totals
  <2>3. \A m \in DOMAIN legs : Field(legs, field)[m] = 0
    BY <1>3 DEF Field
  <2>4. Part(Field(legs, field), DOMAIN legs) = 0
    BY <2>2, <2>3, PartZero
  <2> QED
    BY <2>2, <2>4
<1>8. Over(legs, "sent") = r.qty
  <2>1. /\ IsFiniteSet(DOMAIN plan)
        /\ \A i \in DOMAIN plan : plan[i].market \in Markets /\ plan[i].qty \in Nat \ {0}
        /\ \A i, j \in DOMAIN plan : i # j => plan[i].market # plan[j].market
    BY PlanIs
  <2>2. PICK D, Q, f, k, b : /\ D = DOMAIN plan /\ Q = DOMAIN legs
                             /\ f = [i \in D |-> plan[i].qty] /\ k = Field(legs, "sent")
                             /\ b = [i \in D |-> plan[i].market]
    OBVIOUS
  <2>3. IsFiniteSet(D) /\ IsFiniteSet(Q) /\ Over(legs, "sent") = Part(k, Q)
    BY <1>3, <2>1, <2>2, Totals
  <2>4. ASSUME NEW i \in D PROVE b[i] \in Q /\ f[i] \in Int /\ f[i] = k[b[i]]
    <3>1. PICK m, q : m = plan[i].market /\ q = plan[i].qty
      OBVIOUS
    <3>2. m \in Q /\ q \in Nat \ {0} /\ legs[m] = NewLeg(q) /\ b[i] = m /\ f[i] = q
      BY <1>3, <2>1, <2>2, <3>1
    <3>3. k[m] = legs[m].sent
      BY <2>2, <3>2 DEF Field
    <3>4. LET l == NewLeg(q)
          IN  LegOK(l) /\ LegLeft(l) = q /\ l.sent = q /\ l.filled = 0 /\ l.canceled = 0
              /\ l.notional = 0 /\ ~l.accepted
      BY <3>2, NewLegFacts
    <3> QED
      BY <3>2, <3>3, <3>4
  <2>5. \A i, j \in D : b[i] = b[j] => i = j
    BY <2>1, <2>2
  <2>6. \A m \in Q : \E i \in D : b[i] = m
    BY <1>3, <2>2
  <2>7. Part(f, D) = Part(k, Q)
    BY <2>3, <2>4, <2>5, <2>6, PartRenamed
  <2>8. Sum(f) = Part(f, DOMAIN f)
    BY SumIsPart
  <2>9. Sum([i \in DOMAIN plan |-> plan[i].qty]) = r.qty
    BY DEF plan_validate
  <2>10. Sum(f) = r.qty /\ DOMAIN f = D
    BY <2>2, <2>9
  <2> QED
    BY <2>3, <2>7, <2>8, <2>10
<1>9. OrderOK(lo)
  BY <1>3, <1>5, <1>6, <1>8 DEF OrderOK
<1>10. omap_filled_qty(lo) = 0 /\ omap_notional(lo) = 0
  BY <1>5, <1>7 DEF omap_filled_qty, omap_notional
<1>11. TermsOf(lo) = [acct |-> a, side |-> r.side, limit |-> r.price]
  BY <1>5 DEF TermsOf
<1>12. DOMAIN lo.legs = Pending(plan, {}) /\ Cardinality(DOMAIN lo.legs) = Cardinality(DOMAIN plan)
  <2>1. DOMAIN plan \ {} = DOMAIN plan
    OBVIOUS
  <2>2. Pending(plan, {}) = {plan[i].market : i \in DOMAIN plan}
    BY <2>1 DEF Pending
  <2>3. Cardinality({plan[i].market : i \in DOMAIN plan}) = Cardinality(DOMAIN plan)
    BY PlanMarkets
  <2> QED
    BY <1>3, <1>5, <2>2, <2>3
<1>13. \A i \in DOMAIN plan : lo.legs[plan[i].market] = NewLeg(plan[i].qty)
  BY <1>3, <1>5
<1> QED
  BY <1>5, <1>6, <1>9, <1>10, <1>11, <1>12, <1>13 DEF NewOrderIs

\* The map os with x as its last order, or with an id handed out to no order.
Appended(os2, os, x) ==
  /\ os2 \in OrderMaps /\ Len(os2) = Len(os) + 1 /\ os2[Len(os) + 1] = x
  /\ \A u \in DOMAIN os : os2[u] = os[u]

LEMMA AppendedIs ==
  ASSUME NEW os \in OrderMaps, Len(os) < OrderCap, NEW x \in OrderRec \cup {NoOrder},
         IsOrder(x) => OrderOK(x), NEW os2, os2 = Append(os, x)
  PROVE  Appended(os2, os, x)
<1>1. PICK X : X = OrderRec \cup {NoOrder}
  OBVIOUS
<1>2. os \in Seq(X) /\ DOMAIN os = 1..Len(os) /\ Len(os) \in Nat /\ x \in X /\ OrderCap \in Nat
      /\ \A u : Listed(os, u) => OrderOK(os[u])
  BY <1>1, OrderMapFacts, SlotsFinite
<1>3. PICK n : n = Len(os)
  OBVIOUS
<1>4. /\ os2 \in Seq(X) /\ Len(os2) = n + 1 /\ os2[n + 1] = x /\ DOMAIN os2 = 1..(n + 1)
      /\ \A u \in 1..n : os2[u] = os[u]
  BY <1>2, <1>3
<1>5. n \in Nat /\ n + 1 <= OrderCap /\ DOMAIN os = 1..n
  BY <1>2, <1>3
<1>6. ASSUME NEW u \in DOMAIN os2, IsOrder(os2[u]) PROVE OrderOK(os2[u])
  <2>1. CASE u \in 1..n
    <3>1. Listed(os, u) /\ os2[u] = os[u]
      BY <1>4, <1>5, <1>6, <2>1 DEF Listed
    <3> QED
      BY <1>2, <3>1
  <2>2. CASE u = n + 1
    BY <1>4, <1>6, <2>2
  <2>3. u \in 1..(n + 1)
    BY <1>4
  <2> QED
    BY <1>5, <2>1, <2>2, <2>3
<1>7. os2 \in OrderMaps
  BY <1>1, <1>4, <1>5, <1>6 DEF OrderMaps
<1> QED
  BY <1>3, <1>4, <1>5, <1>7 DEF Appended

LEMMA AppendedFacts ==
  ASSUME NEW os \in OrderMaps, NEW os2, NEW x, Appended(os2, os, x), NEW id, id = Len(os) + 1
  PROVE  /\ id \in Slots /\ id \in Nat \ {0} /\ ~Listed(os, id) /\ (Listed(os2, id) <=> IsOrder(x))
         /\ \A u : u # id => /\ Listed(os2, u) <=> Listed(os, u)
                             /\ Listed(os, u) => os2[u] = os[u]
         /\ SameOrders(os2, os) /\ Grown(os2, os, id) /\ Grown(os2, os, 0)
         /\ \A u, k : u # id => LeftOf(os2, u, k) = LeftOf(os, u, k)
         /\ \A k : LeftOf(os, id, k) = 0
<1>1. DOMAIN os = 1..Len(os) /\ Len(os) \in Nat
  BY OrderMapFacts
<1>2. /\ os2 \in OrderMaps /\ Len(os2) = id /\ os2[id] = x
      /\ \A u \in DOMAIN os : os2[u] = os[u]
  BY DEF Appended
<1>3. DOMAIN os2 = 1..Len(os2) /\ DOMAIN os2 \subseteq Slots
  BY <1>2, OrderMapFacts
<1>4. id \in Nat \ {0} /\ id \in DOMAIN os2 /\ id \notin DOMAIN os /\ id \in Slots
  <2>1. id \in Nat \ {0}
    BY <1>1
  <2>2. id \in 1..id
    BY <2>1
  <2> QED
    BY <1>1, <1>2, <1>3, <2>1, <2>2
<1>5. ASSUME NEW u, u # id PROVE u \in DOMAIN os2 <=> u \in DOMAIN os
  <2>1. u \in 1..id <=> u \in 1..Len(os)
    BY <1>1, <1>5
  <2> QED
    BY <1>1, <1>2, <1>3, <2>1
<1>6. ~Listed(os, id) /\ (Listed(os2, id) <=> IsOrder(x))
  BY <1>2, <1>4 DEF Listed
<1>7. ASSUME NEW u, u # id
      PROVE  (Listed(os2, u) <=> Listed(os, u)) /\ (Listed(os, u) => os2[u] = os[u])
  BY <1>2, <1>5, <1>7 DEF Listed
<1>8. SameOrders(os2, os)
  <2>1. ASSUME NEW u, Listed(os, u)
        PROVE  Listed(os2, u) /\ os2[u] = os[u]
    BY <1>6, <1>7, <2>1
  <2> QED
    BY <2>1 DEF SameOrders
<1>9. ASSUME NEW u \in DOMAIN os
      PROVE  /\ u \in DOMAIN os2
             /\ IF IsOrder(os[u]) THEN Grew(os2[u], os[u]) ELSE os2[u] = os[u]
  <2>1. u \in DOMAIN os2 /\ os2[u] = os[u]
    BY <1>2, <1>4, <1>5
  <2>2. ASSUME IsOrder(os[u]) PROVE Grew(os[u], os[u])
    <3>1. Listed(os, u)
      BY <2>2 DEF Listed
    <3>2. OrderOK(os[u])
      BY <3>1, OrderMapFacts
    <3> QED
      BY <3>2, GrewNothing
  <2> QED
    BY <2>1, <2>2
<1>10. Grown(os2, os, id) /\ Grown(os2, os, 0)
  BY <1>9 DEF Grown
<1>11. ASSUME NEW u, NEW k, u # id PROVE LeftOf(os2, u, k) = LeftOf(os, u, k)
  <2>1. (Listed(os2, u) <=> Listed(os, u)) /\ (Listed(os, u) => os2[u] = os[u])
    BY <1>7, <1>11
  <2> QED
    BY <2>1 DEF LeftOf
<1>12. \A k : LeftOf(os, id, k) = 0
  BY <1>6 DEF LeftOf
<1> QED
  BY <1>4, <1>6, <1>7, <1>8, <1>10, <1>11, <1>12

\* An order whose record says what it has resting is like any other.
LEMMA AgreeOwn ==
  ASSUME NEW os, NEW b, NEW m, NEW id, NEW q, Agree(os, b, m, id, q), NEW id2, NEW q2,
         \A u \in Nat \ {0} : (IF u = id2 THEN q2 ELSE LeftOf(os, u, m))
                              = (IF u = id THEN q ELSE LeftOf(os, u, m))
  PROVE  Agree(os, b, m, id2, q2)
<1>1. ASSUME NEW u \in Nat \ {0} PROVE Rests(b, u, IF u = id2 THEN q2 ELSE LeftOf(os, u, m))
  <2>1. Rests(b, u, IF u = id THEN q ELSE LeftOf(os, u, m))
    BY DEF Agree
  <2> QED
    BY <2>1
<1> QED
  BY <1>1 DEF Agree

LEMMA AppendedAgrees ==
  ASSUME NEW os \in OrderMaps, NEW os2, NEW x, Appended(os2, os, x), NEW id, id = Len(os) + 1,
         NEW b, NEW m, Agree(os, b, m, 0, 0)
  PROVE  Agree(os2, b, m, id, 0)
<1>1. /\ id \in Nat \ {0} /\ SameOrders(os2, os)
      /\ \A u, k : u # id => LeftOf(os2, u, k) = LeftOf(os, u, k)
      /\ \A k : LeftOf(os, id, k) = 0
  BY AppendedFacts
<1>2. Agree(os, b, m, id, 0)
  <2>1. \A u \in Nat \ {0} : (IF u = id THEN 0 ELSE LeftOf(os, u, m))
                             = (IF u = 0 THEN 0 ELSE LeftOf(os, u, m))
    BY <1>1
  <2> QED
    BY <2>1, AgreeOwn
<1>3. \A u \in Nat \ {0} : u # id => LeftOf(os2, u, m) = LeftOf(os, u, m)
  BY <1>1
<1> QED
  BY <1>1, <1>2, <1>3, AgreeStill

\* Nothing but the claim of the new order.
LEMMA AppendedClaims ==
  ASSUME NEW os \in OrderMaps, NEW os2, NEW x, Appended(os2, os, x), NEW id, id = Len(os) + 1,
         NEW own \in Claim
  PROVE  /\ Claims(os, 0, NoClaim)[id] = NoClaim
         /\ \A u \in Slots : Claims(os, 0, NoClaim)[u] = NoClaim \/ Terms(os2)[u] = Terms(os)[u]
         /\ Becomes(Claims(os2, id, own), Claims(os, 0, NoClaim), id, own)
<1>1. PICK C, D : C = Claims(os, 0, NoClaim) /\ D = Claims(os2, id, own)
  OBVIOUS
<1>2. /\ id \in Slots /\ id \in Nat \ {0} /\ ~Listed(os, id)
      /\ \A u : u # id => /\ Listed(os2, u) <=> Listed(os, u)
                          /\ Listed(os, u) => os2[u] = os[u]
  BY AppendedFacts
<1>3. os2 \in OrderMaps
  BY DEF Appended
<1>4. \A u \in Slots : C[u] = IF Listed(os, u) THEN ClaimOf(os[u]) ELSE NoClaim
  BY <1>1, SMTT(30) DEF Claims
<1>5. D \in [Slots -> Claim] /\ D[id] = own
  BY <1>1, <1>2, <1>3, ClaimsType
<1>6. C[id] = NoClaim
  BY <1>2, <1>4
<1>7. ASSUME NEW u \in Slots, u # id PROVE D[u] = C[u] /\ Terms(os2)[u] = Terms(os)[u]
  <2>1. (Listed(os2, u) <=> Listed(os, u)) /\ (Listed(os, u) => os2[u] = os[u])
    BY <1>2, <1>7
  <2>2. D[u] = IF Listed(os2, u) THEN ClaimOf(os2[u]) ELSE NoClaim
    BY <1>1, <1>7 DEF Claims
  <2>3. /\ Terms(os2)[u] = IF Listed(os2, u) THEN TermsOf(os2[u]) ELSE NoTerms
        /\ Terms(os)[u] = IF Listed(os, u) THEN TermsOf(os[u]) ELSE NoTerms
    BY <1>7 DEF Terms
  <2>4. C[u] = IF Listed(os, u) THEN ClaimOf(os[u]) ELSE NoClaim
    BY <1>4
  <2> QED
    BY <2>1, <2>2, <2>3, <2>4
<1>8. Becomes(D, C, id, own)
  BY <1>5, <1>7 DEF Becomes
<1>9. \A u \in Slots : C[u] = NoClaim \/ Terms(os2)[u] = Terms(os)[u]
  BY <1>6, <1>7
<1> QED
  BY <1>1, <1>6, <1>8, <1>9

\* A reservation that is accepted, whole as the state was before.
LEMMA ReservedIs ==
  ASSUME NEW s \in HandlerState, NEW a \in Accounts, NEW r \in Requests,
         Accepts(s.acct[a], Reservation(r)),
         NEW z, z = AcctCall(s, a, Reservation(r))
  PROVE  Accepted(z, s, a, Outcome(s.acct[a], Reservation(r)))
<1>1. PICK x : x = s.acct[a]
  OBVIOUS
<1>2. x \in Account
  BY <1>1, StateFields
<1>3. r.side \in Side /\ r.price \in Nat \ {0} /\ r.qty \in Nat \ {0}
  BY RequestTypes
<1>4. Outcome(x, Reservation(r)) \in Account
  <2>1. CASE r.side = "buy"
    <3>1. PICK w : w = r.price * r.qty
      OBVIOUS
    <3>2. w \in Int
      BY <1>3, <3>1, SMTT(20)
    <3>3. Reservation(r) = Ask("reserve", w)
      BY <2>1, <3>1 DEF Reservation
    <3>4. PICK y : y = Outcome(x, Ask("reserve", w))
      OBVIOUS
    <3>5. y \in Account
      BY <1>2, <3>2, <3>4, ReserveIs
    <3> QED
      BY <3>3, <3>4, <3>5
  <2>2. CASE r.side # "buy"
    <3>1. PICK n : n = r.qty
      OBVIOUS
    <3>2. n \in Int
      BY <1>3, <3>1
    <3>3. Reservation(r) = Ask("sell_reserve", n)
      BY <2>2, <3>1 DEF Reservation
    <3>4. PICK y : y = Outcome(x, Ask("sell_reserve", n))
      OBVIOUS
    <3>5. y \in Account
      BY <1>2, <3>2, <3>4, SellReserveIs
    <3> QED
      BY <3>3, <3>4, <3>5
  <2> QED
    BY <2>1, <2>2
<1>5. Accepts(s.acct[a], Reservation(r)) => Outcome(s.acct[a], Reservation(r)) \in Account
  BY <1>1, <1>4
<1> QED
  BY <1>5, AcctCallIs

\* An order of account a has been taken: the reservation made, the order in the
\* map, and no leg sent.
Placed(t, s, a, r, plan, id) ==
  /\ Ready(t, plan, id) /\ t.book = s.book /\ t.failed = s.failed
  /\ Appended(t.orders, s.orders, Registered(a, r, plan)) /\ id = Len(s.orders) + 1
  /\ NewOrderIs(t.orders[id], a, r, plan)
  /\ t.acct[a] = Outcome(s.acct[a], Reservation(r))
  /\ \A b \in Accounts : b # a => t.acct[b] = s.acct[b]
  /\ \A base : Settled(s.acct, s.orders, base) =>
       Posted(t.acct, Terms(t.orders), Claims(t.orders, id, OwnOf(t.orders[id])), base)

LEMMA OrderPlaced ==
  ASSUME NEW s, Whole(s), s.refused = 0, s.filled = 0, s.canceled = 0,
         NEW a \in Accounts, NEW r \in Requests, Len(s.orders) < OrderCap,
         Accepts(s.acct[a], Reservation(r)), NEW plan, plan_validate(plan, r.qty),
         NEW z, z = AcctCall(s, a, Reservation(r)),
         NEW t, t = [z EXCEPT !.orders = Append(@, Registered(a, r, plan))]
  PROVE  Placed(t, s, a, r, plan, Len(s.orders) + 1)
<1>1. PICK os, id, lo, os2 : os = s.orders /\ id = Len(os) + 1 /\ lo = Registered(a, r, plan)
                             /\ os2 = Append(os, lo)
  OBVIOUS
<1>2. s \in HandlerState /\ os \in OrderMaps
  BY <1>1, StateFields DEF Whole
<1>3. NewOrderIs(lo, a, r, plan) /\ lo \in OrderRec
  BY <1>1, RegisteredIs
<1>4. OrderOK(lo) /\ IsOrder(lo)
  BY <1>3, OrdersAreOrders DEF NewOrderIs
<1>5. Appended(os2, os, lo)
  BY <1>1, <1>2, <1>3, <1>4, AppendedIs
<1>6. Accepted(z, s, a, Outcome(s.acct[a], Reservation(r)))
  BY <1>2, ReservedIs
<1>7. /\ z \in HandlerState /\ z.orders = os /\ z.book = s.book /\ z.failed = s.failed
      /\ z.refused = 0 /\ z.filled = 0 /\ z.canceled = 0
      /\ z.acct[a] = Outcome(s.acct[a], Reservation(r))
      /\ \A b \in Accounts : b # a => z.acct[b] = s.acct[b]
  BY <1>1, <1>6 DEF Accepted, OnlyAcct
<1>8. t = [z EXCEPT !.orders = os2]
  BY <1>1, <1>7
<1>9. OnlyOrders(t, z) /\ t.orders = os2
  <2>1. os2 \in OrderMaps
    BY <1>5 DEF Appended
  <2>2. z \in HandlerState
    BY <1>7
  <2> QED
    BY <1>8, <2>1, <2>2, OrdersSet
<1>10. /\ t \in HandlerState /\ t.acct = z.acct /\ t.book = s.book /\ t.failed = s.failed
       /\ t.refused = 0 /\ t.filled = 0 /\ t.canceled = 0
  BY <1>7, <1>9 DEF OnlyOrders
<1>11. os2[id] = lo
  BY <1>1, <1>5 DEF Appended
<1>12. Listed(os2, id) /\ id \in Slots
  BY <1>1, <1>2, <1>4, <1>5, AppendedFacts
<1>13. lo.qty = r.qty /\ DOMAIN lo.legs = Pending(plan, {}) /\ omap_filled_qty(lo) = 0 /\ omap_notional(lo) = 0
       /\ TermsOf(lo) = [acct |-> a, side |-> r.side, limit |-> r.price]
       /\ \A i \in DOMAIN plan : lo.legs[plan[i].market] = NewLeg(plan[i].qty)
  BY <1>3 DEF NewOrderIs
<1>14. Ready(t, plan, id)
  <2>1. ASSUME NEW i \in DOMAIN plan PROVE Unsent(os2, id, plan[i].market, plan[i].qty)
    <3>1. plan[i].qty \in Nat \ {0}
      BY PlanIs
    <3>2. plan[i].market \in Pending(plan, {})
      BY DEF Pending
    <3> QED
      BY <1>11, <1>12, <1>13, <3>1, <3>2 DEF Unsent
  <2>2. ASSUME NEW k \in Markets PROVE Agree(os2, t.book[k], k, id, 0)
    <3>1. Agree(os, t.book[k], k, 0, 0)
      BY <1>1, <1>10 DEF Whole
    <3> QED
      BY <1>1, <1>2, <1>5, <3>1, AppendedAgrees
  <2>3. plan_validate(plan, lo.qty)
    BY <1>13
  <2> QED
    BY <1>9, <1>10, <1>11, <1>12, <1>13, <2>1, <2>2, <2>3 DEF Ready
<1>15. ASSUME NEW base, Settled(s.acct, os, base)
       PROVE  Posted(t.acct, Terms(os2), Claims(os2, id, OwnOf(lo)), base)
  <2>1. PICK K, K2, C : K = Terms(os) /\ K2 = Terms(os2) /\ C = Claims(os, 0, NoClaim)
    OBVIOUS
  <2>2. PICK D : D = Claims(os2, id, NewClaim(r.qty))
    OBVIOUS
  <2>3. r.side \in Side /\ r.price \in Nat \ {0} /\ r.qty \in Nat \ {0}
    BY RequestTypes
  <2>4. NewClaim(r.qty) \in Claim
    BY <2>3 DEF NewClaim, Claim
  <2>5. OwnOf(lo) = NewClaim(r.qty)
    BY <1>13, <2>3 DEF OwnOf, NewClaim
  <2>6. /\ C[id] = NoClaim /\ \A u \in Slots : C[u] = NoClaim \/ K2[u] = K[u]
        /\ Becomes(D, C, id, NewClaim(r.qty))
    BY <1>1, <1>2, <1>5, <2>1, <2>2, <2>4, AppendedClaims
  <2>7. K \in [Slots -> TermsRec] /\ K2 \in [Slots -> TermsRec] /\ K2[id] = TermsOf(lo)
    <3>1. os2 \in OrderMaps
      BY <1>5 DEF Appended
    <3> QED
      BY <1>2, <1>11, <1>12, <2>1, <3>1, TermsType
  <2>8. C \in [Slots -> Claim] /\ base \in Base /\ Posted(s.acct, K, C, base)
    <3>1. 0 \notin Slots
      BY DEF Slots
    <3>2. C \in [Slots -> Claim]
      BY <1>2, <2>1, <3>1, ClaimsType
    <3> QED
      BY <1>15, <2>1, <3>2 DEF Settled
  <2>9. Posted(s.acct, K2, C, base)
    BY <2>6, <2>7, <2>8, PostedAnyway
  <2>10. K2[id] = [acct |-> a, side |-> r.side, limit |-> r.price]
    BY <1>13, <2>7
  <2>11. Posted(z.acct, K2, D, base)
    BY <1>2, <1>12, <2>3, <2>6, <2>7, <2>8, <2>9, <2>10, ReservePosted
  <2> QED
    BY <1>10, <2>1, <2>2, <2>5, <2>11
<1> QED
  BY <1>1, <1>3, <1>5, <1>7, <1>9, <1>10, <1>11, <1>14, <1>15 DEF Placed

-----------------------------------------------------------------------------
(* The reply.                                                               *)

LEMMA SameAccount ==
  ASSUME NEW a \in Account, NEW b \in Account,
         b.cash = a.cash, b.reserved = a.reserved, b.qty = a.qty,
         b.cost = a.cost, b.held = a.held, b.realized = a.realized
  PROVE  b = a
<1>1. \A f \in Fields : b[f] = a[f]
  BY FieldNames
<1> QED
  BY <1>1 DEF Account

\* A reservation can be given back, and leaves the account as it was.
LEMMA GivenBack ==
  ASSUME NEW x, Balanced(x), NEW r \in Requests, Accepts(x, Reservation(r)),
         NEW y, y = Outcome(x, Reservation(r)),
         NEW lo, lo.side = r.side, lo.limit = r.price
  PROVE  Accepts(y, Return(lo, r.qty)) /\ Outcome(y, Return(lo, r.qty)) = x
<1>1. r.side \in Side /\ r.price \in Nat \ {0} /\ r.qty \in Nat \ {0}
  BY RequestTypes
<1>2. x \in Account /\ x.reserved \in Int /\ x.held \in Int
      /\ 0 <= x.reserved /\ 0 <= x.held
  <2>1. x \in Account /\ 0 <= x.reserved /\ 0 <= x.held
    BY BalancedIs
  <2> QED
    BY <2>1, FieldTypes
<1>3. CASE r.side = "buy"
  <2>1. PICK w : w = r.price * r.qty
    OBVIOUS
  <2>2. w \in Nat \ {0} /\ w \in Int
    BY <1>1, <2>1, SMTT(20)
  <2>3. Reservation(r) = Ask("reserve", w) /\ Return(lo, r.qty) = Ask("release", w)
    BY <1>3, <2>1 DEF Reservation, Return
  <2>4. Accepts(x, Ask("reserve", w)) /\ y = Outcome(x, Ask("reserve", w))
    BY <2>3
  <2>5. Balanced(y) /\ y.reserved = x.reserved + w
    BY <2>2, <2>4, MoneyReserved
  <2>6. w <= y.reserved
    BY <1>2, <2>2, <2>5
  <2>7. PICK z : z = Outcome(y, Ask("release", w))
    OBVIOUS
  <2>8. Accepts(y, Ask("release", w))
    BY <2>2, <2>5, <2>6, <2>7, MoneyReleased
  <2>9. y \in Account
    BY <2>5 DEF Balanced
  <2>10. /\ y.cash = x.cash /\ y.qty = x.qty /\ y.cost = x.cost /\ y.held = x.held
         /\ y.realized = x.realized
    BY <1>2, <2>2, <2>4, ReserveIs
  <2>11. /\ z \in Account /\ z.cash = y.cash /\ z.reserved = y.reserved - w
         /\ z.qty = y.qty /\ z.cost = y.cost /\ z.held = y.held /\ z.realized = y.realized
    BY <2>2, <2>7, <2>9, ReleaseIs
  <2>12. z.reserved = x.reserved
    BY <1>2, <2>2, <2>5, <2>11
  <2>13. z = x
    BY <1>2, <2>10, <2>11, <2>12, SameAccount
  <2> QED
    BY <2>3, <2>7, <2>8, <2>13
<1>4. CASE r.side # "buy"
  <2>1. PICK n : n = r.qty
    OBVIOUS
  <2>2. n \in Nat \ {0} /\ n \in Int
    BY <1>1, <2>1
  <2>3. Reservation(r) = Ask("sell_reserve", n) /\ Return(lo, r.qty) = Ask("sell_release", n)
    BY <1>4, <2>1 DEF Reservation, Return
  <2>4. Accepts(x, Ask("sell_reserve", n)) /\ y = Outcome(x, Ask("sell_reserve", n))
    BY <2>3
  <2>5. Balanced(y) /\ y.held = x.held + n
    BY <2>2, <2>4, SharesReserved
  <2>6. n <= y.held
    BY <1>2, <2>2, <2>5
  <2>7. PICK z : z = Outcome(y, Ask("sell_release", n))
    OBVIOUS
  <2>8. Accepts(y, Ask("sell_release", n))
    BY <2>2, <2>5, <2>6, <2>7, SharesReleased
  <2>9. y \in Account
    BY <2>5 DEF Balanced
  <2>10. /\ y.cash = x.cash /\ y.qty = x.qty /\ y.cost = x.cost /\ y.reserved = x.reserved
         /\ y.realized = x.realized
    BY <1>2, <2>2, <2>4, SellReserveIs
  <2>11. /\ z \in Account /\ z.cash = y.cash /\ z.reserved = y.reserved
         /\ z.qty = y.qty /\ z.cost = y.cost /\ z.held = y.held - n /\ z.realized = y.realized
    BY <2>2, <2>7, <2>9, SellReleaseIs
  <2>12. z.held = x.held
    BY <1>2, <2>2, <2>5, <2>11
  <2>13. z = x
    BY <1>2, <2>10, <2>11, <2>12, SameAccount
  <2> QED
    BY <2>3, <2>7, <2>8, <2>13
<1> QED
  BY <1>3, <1>4

\* The accounts after a reservation, before anything else.
JustReserved(ac2, ac, a, r) ==
  ac2[a] = Outcome(ac[a], Reservation(r)) /\ \A b \in Accounts : b # a => ac2[b] = ac[b]

LEMMA ReturnedAll ==
  ASSUME NEW ac \in [Accounts -> Account], NEW a \in Accounts, Balanced(ac[a]),
         NEW r \in Requests, Accepts(ac[a], Reservation(r)),
         NEW z \in HandlerState, JustReserved(z.acct, ac, a, r),
         NEW lo, lo.acct = a, lo.side = r.side, lo.limit = r.price,
         NEW t, t = release_unused(z, lo, r.qty)
  PROVE  OnlyAcct(t, z) /\ t.acct = ac /\ t.failed = z.failed
<1>1. r.qty \in Nat \ {0}
  BY RequestTypes
<1>2. PICK x, y, q : x = ac[a] /\ y = Outcome(x, Reservation(r)) /\ q = Return(lo, r.qty)
  OBVIOUS
<1>3. Accepts(y, q) /\ Outcome(y, q) = x
  BY <1>2, GivenBack
<1>4. z.acct[a] = y /\ \A b \in Accounts : b # a => z.acct[b] = ac[b]
  BY <1>2 DEF JustReserved
<1>5. t = AcctCall(z, a, q)
  <2>1. r.qty \in Int /\ r.qty > 0
    BY <1>1
  <2> QED
    BY <1>2, <2>1, ReleaseCalls
<1>6. Accepted(t, z, a, x)
  <2>1. x \in Account
    BY <1>2
  <2>2. Accepts(z.acct[a], q) /\ Outcome(z.acct[a], q) = x
    BY <1>3, <1>4
  <2>3. Accepts(z.acct[a], q) => Outcome(z.acct[a], q) \in Account
    BY <2>1, <2>2
  <2>4. Accepted(t, z, a, Outcome(z.acct[a], q))
    BY <1>5, <2>2, <2>3, AcctCallIs
  <2> QED
    BY <2>2, <2>4
<1>7. OnlyAcct(t, z) /\ t.failed = z.failed /\ t.acct[a] = x
      /\ \A b \in Accounts : b # a => t.acct[b] = z.acct[b]
  BY <1>6 DEF Accepted
<1>8. t.acct \in [Accounts -> Account]
  BY <1>7, StateFields DEF OnlyAcct
<1>9. \A b \in Accounts : t.acct[b] = ac[b]
  BY <1>2, <1>4, <1>7
<1>10. t.acct = ac
  BY <1>8, <1>9
<1> QED
  BY <1>7, <1>10

\* An order's own claim, once its record shows it.
LEMMA OwnClaims ==
  ASSUME NEW os, NEW id, Listed(os, id)
  PROVE  Claims(os, id, ClaimOf(os[id])) = Claims(os, 0, NoClaim)
<1>1. \A u \in Slots : u # 0
  BY DEF Slots
<1> QED
  BY <1>1 DEF Claims

LEMMA AllSent ==
  ASSUME NEW t, NEW plan, NEW id, Ready(t, plan, id), NEW e, Sent(e, t, plan, id, DOMAIN plan)
  PROVE  \A k \in Markets : Agree(e.orders, e.book[k], k, id, LeftOf(e.orders, id, k))
<1>1. DOMAIN plan \ DOMAIN plan = {}
  OBVIOUS
<1>2. Pending(plan, DOMAIN plan) = {}
  BY <1>1 DEF Pending
<1>3. ASSUME NEW k \in Markets PROVE Agree(e.orders, e.book[k], k, id, LeftOf(e.orders, id, k))
  <2>1. Agree(e.orders, e.book[k], k, id, IF k \in Pending(plan, DOMAIN plan) THEN 0 ELSE LeftOf(e.orders, id, k))
    BY DEF Sent
  <2> QED
    BY <1>2, <2>1
<1> QED
  BY <1>3

\* An order every leg of which was refused has nothing left.
LEMMA RefusedHasNothing ==
  ASSUME NEW t, NEW plan, NEW id, Ready(t, plan, id), NEW e, Sent(e, t, plan, id, DOMAIN plan),
         e.refused = Cardinality(DOMAIN plan)
  PROVE  omap_remaining(e.orders[id]) = 0
<1>1. PICK lo : lo = e.orders[id]
  OBVIOUS
<1>2. Listed(e.orders, id) /\ e.orders \in OrderMaps /\ e.book = t.book
  BY StateFields DEF Sent
<1>3. OrderOK(lo) /\ id \in Nat \ {0}
  BY <1>1, <1>2, OrderMapFacts
<1>4. ASSUME NEW m \in DOMAIN lo.legs PROVE LegLeft(lo.legs[m]) = 0
  <2>1. m \in Markets
    BY <1>3 DEF OrderOK, LegsOK
  <2>2. PICK b, q : b = e.book[m] /\ q = LeftOf(e.orders, id, m)
    OBVIOUS
  <2>3. q = LegLeft(lo.legs[m])
    BY <1>1, <1>2, <2>2 DEF LeftOf
  <2>4. Agree(e.orders, b, m, id, q)
    BY <2>1, <2>2, AllSent
  <2>5. Agree(t.orders, b, m, id, 0)
    BY <1>2, <2>1, <2>2 DEF Ready
  <2>6. Rests(b, id, q)
    BY <1>3, <2>4 DEF Agree
  <2>7. Rests(b, id, 0)
    BY <1>3, <2>5 DEF Agree
  <2>8. \A i \in DOMAIN b : b[i].owner # id
    BY <2>7 DEF Rests
  <2> QED
    BY <2>3, <2>6, <2>8 DEF Rests
<1> QED
  BY <1>1, <1>3, <1>4, OrderTotals

\* The reply releases what the order will never fill, all of it and no more.
LEMMA AnswerReleases ==
  ASSUME NEW t, NEW plan, NEW id, Ready(t, plan, id), NEW e, Sent(e, t, plan, id, DOMAIN plan),
         Cardinality(DOMAIN t.orders[id].legs) = Cardinality(DOMAIN plan),
         NEW lo, lo = e.orders[id], NEW x, x = Answered(e, id)
  PROVE  \E n \in Nat : /\ x = release_unused(e, lo, n)
                        /\ n <= OwnOf(lo).left /\ Freed(OwnOf(lo), n) = ClaimOf(lo)
                        /\ e.refused = Cardinality(DOMAIN plan) => n = lo.qty
<1>1. /\ Listed(e.orders, id) /\ e.orders \in OrderMaps /\ e.filled = omap_filled_qty(lo)
      /\ DOMAIN lo.legs = DOMAIN t.orders[id].legs
      /\ e.refused = Cardinality(DOMAIN plan) => e.filled = 0 /\ omap_notional(lo) = 0
  BY StateFields DEF Sent
<1>2. OrderOK(lo)
  BY <1>1, OrderMapFacts
<1>3. PICK f, c, r, q, w : /\ f = omap_filled_qty(lo) /\ c = omap_canceled_qty(lo) /\ q = lo.qty
                           /\ r = omap_remaining(lo) /\ w = omap_notional(lo)
  OBVIOUS
<1>4. f \in Nat /\ c \in Nat /\ w \in Nat /\ r \in Nat /\ r = q - f - c
  BY <1>2, <1>3, OrderTotals
<1>5. q \in Nat \ {0}
  BY <1>2, <1>3, OrderTypes DEF OrderOK
<1>6. OwnOf(lo) = [left |-> q - f, money |-> w, shares |-> f]
      /\ ClaimOf(lo) = [left |-> r, money |-> w, shares |-> f]
  BY <1>3 DEF OwnOf, ClaimOf
<1>7. \A n : Freed(OwnOf(lo), n) = [left |-> (q - f) - n, money |-> w, shares |-> f]
             /\ OwnOf(lo).left = q - f
  BY <1>6 DEF Freed
<1>8. PICK all : all = (e.refused = Cardinality(DOMAIN lo.legs))
  OBVIOUS
<1>9. x = IF e.refused = Cardinality(DOMAIN lo.legs) THEN release_unused(e, lo, q)
          ELSE release_unused(IF q - f - r < 0 THEN Fails(e, "never") ELSE e, lo, q - f - r)
  BY <1>1, <1>3 DEF Answered
<1>10. CASE e.refused = Cardinality(DOMAIN plan)
  <2>1. x = release_unused(e, lo, q)
    BY <1>1, <1>9, <1>10
  <2>2. r = 0 /\ f = 0
    BY <1>1, <1>3, <1>10, RefusedHasNothing
  <2>3. q <= q - f /\ (q - f) - q = r
    BY <1>4, <1>5, <2>2
  <2> QED
    BY <1>3, <1>5, <1>6, <1>7, <2>1, <2>3
<1>11. CASE e.refused # Cardinality(DOMAIN plan)
  <2>1. PICK n : n = q - f - r
    OBVIOUS
  <2>2. n = c /\ n \in Nat /\ ~(q - f - r < 0) /\ n <= q - f /\ (q - f) - n = r
    BY <1>4, <1>5, <2>1
  <2>3. x = release_unused(e, lo, n)
    BY <1>1, <1>9, <1>11, <2>1, <2>2
  <2> QED
    BY <1>6, <1>7, <1>11, <2>2, <2>3
<1> QED
  BY <1>10, <1>11

\* What the reply leaves: a whole state, and accounts that agree with the map.
LEMMA AnsweredIs ==
  ASSUME NEW t, NEW plan, NEW id, Ready(t, plan, id), NEW e, Sent(e, t, plan, id, DOMAIN plan),
         Cardinality(DOMAIN t.orders[id].legs) = Cardinality(DOMAIN plan),
         NEW x, x = Answered(e, id)
  PROVE  /\ OnlyAcct(x, e) /\ Whole(x)
         /\ \A base : SentPaid(e, t, id, base) /\ base \in Base
                      /\ Posted(t.acct, Terms(t.orders), Claims(t.orders, id, OwnOf(t.orders[id])), base)
                      => x.failed = t.failed /\ Settled(x.acct, x.orders, base)
<1>1. PICK lo : lo = e.orders[id]
  OBVIOUS
<1>2. PICK n \in Nat : /\ x = release_unused(e, lo, n)
                       /\ n <= OwnOf(lo).left /\ Freed(OwnOf(lo), n) = ClaimOf(lo)
  BY <1>1, AnswerReleases
<1>3. e \in HandlerState /\ Listed(e.orders, id) /\ e.orders \in OrderMaps
      /\ Terms(e.orders) = Terms(t.orders)
  BY StateFields DEF Sent
<1>4. OrderOK(lo) /\ id \in Slots
  BY <1>1, <1>3, OrderMapFacts
<1>5. /\ Terms(e.orders) \in [Slots -> TermsRec] /\ Terms(e.orders)[id] = TermsOf(lo)
  BY <1>1, <1>3, TermsType
<1>6. OnlyAcct(x, e)
  <2>1. TermsOf(lo) \in TermsRec
    BY <1>4, <1>5
  <2>2. n \in Int
    OBVIOUS
  <2> QED
    BY <1>2, <1>3, <2>1, <2>2, ReleaseFrame
<1>7. x \in HandlerState /\ x.orders = e.orders /\ x.book = e.book
  BY <1>6 DEF OnlyAcct
<1>8. Whole(x)
  <2>1. ASSUME NEW k \in Markets PROVE Agree(e.orders, e.book[k], k, 0, 0)
    <3>1. Agree(e.orders, e.book[k], k, id, LeftOf(e.orders, id, k))
      BY AllSent
    <3>2. \A u \in Nat \ {0} : (IF u = 0 THEN 0 ELSE LeftOf(e.orders, u, k))
                               = (IF u = id THEN LeftOf(e.orders, id, k) ELSE LeftOf(e.orders, u, k))
      OBVIOUS
    <3> QED
      BY <3>1, <3>2, AgreeOwn
  <2> QED
    BY <1>7, <2>1 DEF Whole
<1>9. ASSUME NEW base, SentPaid(e, t, id, base), base \in Base,
             Posted(t.acct, Terms(t.orders), Claims(t.orders, id, OwnOf(t.orders[id])), base)
      PROVE  x.failed = t.failed /\ Settled(x.acct, x.orders, base)
  <2>1. Paid(e, t, id, OwnOf(lo), base)
    BY <1>1, <1>9 DEF SentPaid
  <2>2. PICK K, C, D, c, d : /\ K = Terms(e.orders) /\ C = Claims(e.orders, id, OwnOf(lo))
                             /\ D = Claims(e.orders, id, ClaimOf(lo)) /\ c = OwnOf(lo) /\ d = ClaimOf(lo)
    OBVIOUS
  <2>3. e.failed = t.failed /\ Posted(e.acct, K, C, base)
    BY <1>3, <2>1, <2>2 DEF Paid
  <2>4. c \in Claim /\ d \in Claim
    BY <1>4, <2>2, OwnOfType, ClaimOfType
  <2>5. C \in [Slots -> Claim] /\ C[id] = c
    BY <1>3, <1>4, <2>2, <2>4, ClaimsType
  <2>6. Becomes(D, C, id, d)
    BY <1>3, <1>4, <2>2, <2>4, OwnBecomes
  <2>7. Becomes(D, C, id, Freed(C[id], n)) /\ n <= C[id].left
    BY <1>2, <2>2, <2>5, <2>6
  <2>8. K \in [Slots -> TermsRec] /\ K[id] = TermsOf(lo)
    BY <1>5, <2>2
  <2>9. x.failed = e.failed /\ Posted(x.acct, K, D, base)
    BY <1>2, <1>3, <1>4, <1>9, <2>3, <2>5, <2>7, <2>8, ReleasePosted
  <2>10. D = Claims(e.orders, 0, NoClaim)
    BY <1>1, <1>3, <2>2, OwnClaims
  <2> QED
    BY <1>7, <1>9, <2>2, <2>3, <2>9, <2>10 DEF Settled
<1> QED
  BY <1>6, <1>8, <1>9

\* Whatever works in a market was accepted there.
Live(os) ==
  \A u : Listed(os, u) => \A m \in DOMAIN os[u].legs :
    LegLeft(os[u].legs[m]) > 0 => os[u].legs[m].accepted

LEMMA GrownLive ==
  ASSUME NEW os \in OrderMaps, NEW os2 \in OrderMaps, NEW id, Grown(os2, os, id), Live(os),
         \A u \in DOMAIN os2 : u # id => u \in DOMAIN os,
         Listed(os2, id) => \A m \in DOMAIN os2[id].legs :
           LegLeft(os2[id].legs[m]) > 0 => os2[id].legs[m].accepted
  PROVE  Live(os2)
<1>1. ASSUME NEW u, Listed(os2, u), u # id, NEW m \in DOMAIN os2[u].legs, LegLeft(os2[u].legs[m]) > 0
      PROVE  os2[u].legs[m].accepted
  <2>1. u \in DOMAIN os /\ IsOrder(os2[u])
    BY <1>1 DEF Listed
  <2>2. IF IsOrder(os[u]) THEN Grew(os2[u], os[u]) ELSE os2[u] = os[u]
    BY <1>1, <2>1 DEF Grown
  <2>3. Listed(os, u) /\ Grew(os2[u], os[u])
    BY <2>1, <2>2 DEF Listed, IsOrder
  <2>4. PICK l, l2 : l = os[u].legs[m] /\ l2 = os2[u].legs[m]
    OBVIOUS
  <2>5. m \in DOMAIN os[u].legs /\ (l.accepted => l2.accepted) /\ LegLeft(l2) <= LegLeft(l)
    BY <1>1, <2>3, <2>4 DEF Grew
  <2>6. OrderOK(os[u]) /\ OrderOK(os2[u])
    BY <1>1, <2>3, OrderMapFacts
  <2>7. LegOK(l) /\ LegOK(l2)
    BY <1>1, <2>4, <2>5, <2>6 DEF OrderOK, LegsOK
  <2>8. LegLeft(l) \in Nat /\ LegLeft(l2) \in Nat
    BY <2>7, LegTypes
  <2>9. LegLeft(l) > 0
    BY <1>1, <2>4, <2>5, <2>8
  <2>10. l.accepted
    BY <2>3, <2>4, <2>5, <2>9 DEF Live
  <2> QED
    BY <2>4, <2>5, <2>10
<1> QED
  BY <1>1 DEF Live

\* What every handler makes of a whole state: the map has only grown, no order
\* that was there has lost its place in a book, and the accounts still agree
\* with the map, without an assertion failing.
Handled(t, s) ==
  /\ Whole(t) /\ Len(s.orders) <= Len(t.orders) /\ Grown(t.orders, s.orders, 0)
  /\ Live(s.orders) => Live(t.orders)
  /\ BooksOnward(t, s, Len(s.orders) + 1)
  /\ \A base : Settled(s.acct, s.orders, base) =>
                 t.failed = s.failed /\ Settled(t.acct, t.orders, base)

LEMMA FollowsHandled ==
  ASSUME NEW s, Whole(s), NEW t, Follows(t, s)
  PROVE  Handled(t, s) /\ Len(t.orders) = Len(s.orders)
<1>1. /\ Whole(t) /\ Len(t.orders) = Len(s.orders) /\ Grown(t.orders, s.orders, 0)
      /\ \A base : Settled(s.acct, s.orders, base) =>
                     t.failed = s.failed /\ Settled(t.acct, t.orders, base)
  BY DEF Follows
<1>2. s.orders \in OrderMaps /\ t.orders \in OrderMaps
  BY <1>1, StateFields DEF Whole
<1>3. /\ Len(s.orders) \in Nat /\ DOMAIN t.orders = DOMAIN s.orders /\ ~Listed(t.orders, 0)
  <2>1. DOMAIN t.orders = 1..Len(t.orders) /\ DOMAIN s.orders = 1..Len(s.orders) /\ Len(s.orders) \in Nat
    BY <1>2, OrderMapFacts
  <2> QED
    BY <1>1, <2>1 DEF Listed
<1>4. Live(s.orders) => Live(t.orders)
  BY <1>1, <1>2, <1>3, GrownLive
<1>5. BooksOnward(t, s, Len(s.orders) + 1)
  BY BooksOnwardFrom DEF Follows
<1> QED
  BY <1>1, <1>3, <1>4, <1>5 DEF Handled

\* A handler that takes an order. One that is refused has left nothing behind.
OrderTaken(t, s, a) ==
  /\ Handled(t, s) /\ Len(t.orders) = Len(s.orders) + 1
  /\ IsOrder(t.orders[Len(t.orders)]) => t.orders[Len(t.orders)].acct = a
  /\ IsOrder(t.orders[Len(t.orders)]) /\ exec_status(t.orders[Len(t.orders)]) = "rejected" =>
       /\ t.book = s.book
       /\ \A base : Settled(s.acct, s.orders, base) => t.acct = s.acct

\* The state before an order, with the order in it, with its legs sent, and
\* with the reply.
Submits(x, e, t, s, a, r, plan, id) ==
  /\ Placed(t, s, a, r, plan, id)
  /\ e = exec_submit(t, id, r.type, plan)
  /\ x = Answered(e, id)

LEMMA SubmitSent ==
  ASSUME NEW r \in Requests, NEW s, NEW a, NEW plan, NEW id, NEW x, NEW e, NEW t,
         Submits(x, e, t, s, a, r, plan, id)
  PROVE  /\ Sent(e, t, plan, id, DOMAIN plan) /\ \A base : SentPaid(e, t, id, base)
         /\ OnlyAcct(x, e) /\ Whole(x)
         /\ \A base : Settled(s.acct, s.orders, base) =>
              x.failed = s.failed /\ Settled(x.acct, x.orders, base)
<1>1. Placed(t, s, a, r, plan, id) /\ e = exec_submit(t, id, r.type, plan) /\ x = Answered(e, id)
  BY DEF Submits
<1>2. Ready(t, plan, id) /\ NewOrderIs(t.orders[id], a, r, plan) /\ t.failed = s.failed
  BY <1>1 DEF Placed
<1>3. PICK type \in OrderType : type = r.type
  BY RequestTypes
<1>4. ASSUME NEW base PROVE Sent(e, t, plan, id, DOMAIN plan) /\ SentPaid(e, t, id, base)
  BY <1>1, <1>2, <1>3, SubmitLegs
<1>5. Sent(e, t, plan, id, DOMAIN plan) /\ \A base : SentPaid(e, t, id, base)
  BY <1>4
<1>6. Cardinality(DOMAIN t.orders[id].legs) = Cardinality(DOMAIN plan)
  BY <1>2 DEF NewOrderIs
<1>7. /\ OnlyAcct(x, e) /\ Whole(x)
      /\ \A base : SentPaid(e, t, id, base) /\ base \in Base
                   /\ Posted(t.acct, Terms(t.orders), Claims(t.orders, id, OwnOf(t.orders[id])), base)
                   => x.failed = t.failed /\ Settled(x.acct, x.orders, base)
  BY <1>1, <1>2, <1>5, <1>6, AnsweredIs
<1>8. ASSUME NEW base, Settled(s.acct, s.orders, base)
      PROVE  x.failed = s.failed /\ Settled(x.acct, x.orders, base)
  <2>1. base \in Base
    BY <1>8 DEF Settled
  <2>2. Posted(t.acct, Terms(t.orders), Claims(t.orders, id, OwnOf(t.orders[id])), base)
    BY <1>1, <1>8 DEF Placed
  <2> QED
    BY <1>2, <1>5, <1>7, <2>1, <2>2
<1> QED
  BY <1>5, <1>7, <1>8

LEMMA SubmitGrows ==
  ASSUME NEW r \in Requests, NEW s, Whole(s), NEW a, NEW plan, NEW id, NEW x, NEW e, NEW t,
         Submits(x, e, t, s, a, r, plan, id)
  PROVE  /\ id = Len(s.orders) + 1 /\ Len(x.orders) = id /\ Listed(x.orders, id)
         /\ x.orders = e.orders /\ x.book = e.book
         /\ Grown(x.orders, s.orders, 0)
         /\ Live(s.orders) => Live(x.orders)
<1>1. /\ Placed(t, s, a, r, plan, id) /\ id = Len(s.orders) + 1
      /\ Ready(t, plan, id) /\ Appended(t.orders, s.orders, Registered(a, r, plan))
  BY DEF Submits, Placed
<1>2. Sent(e, t, plan, id, DOMAIN plan) /\ OnlyAcct(x, e)
  BY SubmitSent
<1>3. /\ e \in HandlerState /\ Listed(e.orders, id) /\ Len(e.orders) = Len(t.orders)
      /\ Grown(e.orders, t.orders, id) /\ DOMAIN e.orders[id].legs = DOMAIN t.orders[id].legs
      /\ \A i \in DOMAIN plan : LegLeft(e.orders[id].legs[plan[i].market]) > 0 =>
                    e.orders[id].legs[plan[i].market].accepted
  BY <1>2 DEF Sent
<1>4. x.orders = e.orders /\ x.book = e.book
  BY <1>2 DEF OnlyAcct
<1>5. PICK os, ot, oe : os = s.orders /\ ot = t.orders /\ oe = e.orders
  OBVIOUS
<1>6. os \in OrderMaps /\ ot \in OrderMaps /\ oe \in OrderMaps
  BY <1>1, <1>3, <1>5, StateFields DEF Whole, Ready
<1>7. Len(oe) = id /\ Len(ot) = id /\ id \in Nat \ {0} /\ Grown(ot, os, id)
  <2>1. Len(ot) = Len(os) + 1 /\ Appended(ot, os, Registered(a, r, plan))
    BY <1>1, <1>5 DEF Appended
  <2>2. id \in Nat \ {0} /\ Grown(ot, os, id)
    BY <1>1, <1>5, <1>6, <2>1, AppendedFacts
  <2> QED
    BY <1>1, <1>3, <1>5, <2>1, <2>2
<1>8. Grown(oe, os, id)
  BY <1>3, <1>5, <1>6, <1>7, GrownMore
<1>9. DOMAIN os = 1..Len(os) /\ Len(os) \in Nat /\ DOMAIN oe = 1..Len(oe)
  BY <1>6, OrderMapFacts
<1>10. Grown(oe, os, 0)
  <2>1. \A u \in DOMAIN os : u # id
    BY <1>1, <1>5, <1>9
  <2> QED
    BY <1>8, <2>1 DEF Grown
<1>11. ASSUME Live(os) PROVE Live(oe)
  <2>1. \A u \in DOMAIN oe : u # id => u \in DOMAIN os
    BY <1>1, <1>5, <1>7, <1>9
  <2>2. ASSUME NEW m \in DOMAIN oe[id].legs, LegLeft(oe[id].legs[m]) > 0 PROVE oe[id].legs[m].accepted
    <3>1. DOMAIN oe[id].legs = Pending(plan, {})
      BY <1>1, <1>3, <1>5 DEF Ready
    <3>2. PICK i \in DOMAIN plan : m = plan[i].market
      BY <3>1 DEF Pending
    <3> QED
      BY <1>3, <1>5, <2>2, <3>2
  <2> QED
    BY <1>6, <1>8, <1>11, <2>1, <2>2, GrownLive
<1> QED
  BY <1>1, <1>3, <1>4, <1>5, <1>7, <1>10, <1>11

\* An order answered as refused leaves the accounts as they were.
LEMMA SubmitRefused ==
  ASSUME NEW r \in Requests, NEW s, Whole(s), NEW a \in Accounts, Accepts(s.acct[a], Reservation(r)),
         NEW plan, NEW id, NEW x, NEW e, NEW t,
         Submits(x, e, t, s, a, r, plan, id), exec_status(x.orders[id]) = "rejected"
  PROVE  /\ x.book = s.book
         /\ \A base : Settled(s.acct, s.orders, base) => x.acct = s.acct
<1>1. /\ Placed(t, s, a, r, plan, id) /\ x = Answered(e, id)
      /\ Ready(t, plan, id) /\ t.book = s.book /\ NewOrderIs(t.orders[id], a, r, plan)
      /\ JustReserved(t.acct, s.acct, a, r)
  BY DEF Submits, Placed, JustReserved
<1>2. Sent(e, t, plan, id, DOMAIN plan) /\ OnlyAcct(x, e)
  BY SubmitSent
<1>3. PICK lo, n : lo = e.orders[id] /\ n = Cardinality(DOMAIN plan)
  OBVIOUS
<1>4. /\ e \in HandlerState /\ Listed(e.orders, id) /\ lo.qty = t.orders[id].qty
      /\ TermsOf(lo) = TermsOf(t.orders[id]) /\ DOMAIN lo.legs = DOMAIN t.orders[id].legs
      /\ e.refused <= n /\ (e.refused = n => e.acct = t.acct /\ e.book = t.book)
      /\ (e.refused < n => \E i \in DOMAIN plan : lo.legs[plan[i].market].accepted)
  BY <1>2, <1>3 DEF Sent
<1>5. x.orders = e.orders /\ x.book = e.book
  BY <1>2 DEF OnlyAcct
<1>6. DOMAIN lo.legs = Pending(plan, {})
  BY <1>1, <1>4 DEF Ready
<1>7. e.refused = n
  <2>1. ~\E m \in DOMAIN lo.legs : lo.legs[m].accepted
    BY <1>3, <1>5 DEF exec_status
  <2>2. \A i \in DOMAIN plan : plan[i].market \in DOMAIN lo.legs
    BY <1>6 DEF Pending
  <2>3. ~(e.refused < n)
    BY <1>4, <2>1, <2>2
  <2>4. e.refused \in Nat /\ n \in Nat
    <3>1. IsFiniteSet(DOMAIN plan)
      BY <1>1, PlanIs DEF Ready
    <3> QED
      BY <1>3, <1>4, <3>1, StateFields, FS_CardinalityType
  <2> QED
    BY <1>4, <2>3, <2>4
<1>8. x.book = s.book /\ e.acct = t.acct
  BY <1>1, <1>4, <1>5, <1>7
<1>9. /\ TermsOf(t.orders[id]) = [acct |-> a, side |-> r.side, limit |-> r.price]
      /\ t.orders[id].qty = r.qty /\ Cardinality(DOMAIN t.orders[id].legs) = n
  BY <1>1, <1>3 DEF NewOrderIs
<1>10. lo.acct = a /\ lo.side = r.side /\ lo.limit = r.price /\ lo.qty = r.qty
  <2>1. PICK k : k = TermsOf(lo)
    OBVIOUS
  <2>2. k.acct = lo.acct /\ k.side = lo.side /\ k.limit = lo.limit
    BY <2>1 DEF TermsOf
  <2>3. k.acct = a /\ k.side = r.side /\ k.limit = r.price
    BY <1>4, <1>9, <2>1
  <2> QED
    BY <1>4, <1>9, <2>2, <2>3
<1>11. x = release_unused(e, lo, r.qty)
  <2>1. \E k \in Nat : /\ x = release_unused(e, lo, k)
                       /\ k <= OwnOf(lo).left /\ Freed(OwnOf(lo), k) = ClaimOf(lo)
                       /\ e.refused = Cardinality(DOMAIN plan) => k = lo.qty
    BY <1>1, <1>2, <1>3, <1>9, AnswerReleases
  <2> QED
    BY <1>3, <1>7, <1>10, <2>1
<1>12. ASSUME NEW base, Settled(s.acct, s.orders, base) PROVE x.acct = s.acct
  <2>1. Balanced(s.acct[a])
    BY <1>12 DEF Settled, Posted
  <2>2. s.acct \in [Accounts -> Account]
    BY StateFields DEF Whole
  <2>3. JustReserved(e.acct, s.acct, a, r)
    BY <1>1, <1>8
  <2> QED
    BY <1>4, <1>10, <1>11, <2>1, <2>2, <2>3, ReturnedAll
<1> QED
  BY <1>8, <1>12

LEMMA SubmitsTakes ==
  ASSUME NEW r \in Requests, NEW s, Whole(s), NEW a \in Accounts, Accepts(s.acct[a], Reservation(r)),
         NEW plan, NEW id, NEW x, NEW e, NEW t, Submits(x, e, t, s, a, r, plan, id),
         id = Len(s.orders) + 1
  PROVE  OrderTaken(x, s, a)
<1>3. /\ Len(x.orders) = id /\ Listed(x.orders, id) /\ Grown(x.orders, s.orders, 0)
      /\ Live(s.orders) => Live(x.orders)
  BY SubmitGrows
<1>4. /\ Whole(x)
      /\ \A base : Settled(s.acct, s.orders, base) =>
           x.failed = s.failed /\ Settled(x.acct, x.orders, base)
  BY SubmitSent
<1>5. Len(s.orders) <= id
  <2>1. s.orders \in OrderMaps
    BY StateFields DEF Whole
  <2>2. Len(s.orders) \in Nat
    BY <2>1, OrderMapFacts
  <2> QED
    BY <2>2
<1>9. BooksOnward(x, s, Len(s.orders) + 1)
  <2>1. BooksOnward(e, t, id) /\ x.book = e.book /\ t.book = s.book
    BY SubmitSent, SubmitGrows DEF Sent, Submits, Placed
  <2> QED
    BY <2>1 DEF BooksOnward
<1>6. Handled(x, s)
  BY <1>3, <1>4, <1>5, <1>9 DEF Handled
<1>7. ASSUME exec_status(x.orders[id]) = "rejected"
      PROVE  /\ x.book = s.book
             /\ \A base : Settled(s.acct, s.orders, base) => x.acct = s.acct
  BY <1>7, SubmitRefused
<1>8. x.orders[id].acct = a
  <2>1. Placed(t, s, a, r, plan, id) /\ Sent(e, t, plan, id, DOMAIN plan) /\ x.orders = e.orders
    BY SubmitGrows, SubmitSent DEF Submits
  <2>2. PICK lt, le : lt = t.orders[id] /\ le = e.orders[id]
    OBVIOUS
  <2>3. TermsOf(le) = TermsOf(lt) /\ NewOrderIs(lt, a, r, plan)
    BY <2>1, <2>2 DEF Placed, Sent
  <2>4. TermsOf(le) = [acct |-> a, side |-> r.side, limit |-> r.price]
    BY <2>3 DEF NewOrderIs
  <2>5. le.acct = a
    BY <2>4 DEF TermsOf
  <2> QED
    BY <2>1, <2>2, <2>5
<1> QED
  BY <1>3, <1>6, <1>7, <1>8 DEF OrderTaken

\* ORDER_REQ.
LEMMA SubmitTaken ==
  ASSUME NEW s, Whole(s), s.refused = 0, s.filled = 0, s.canceled = 0,
         NEW a \in Accounts, NEW r \in Requests, Len(s.orders) < OrderCap,
         Accepts(s.acct[a], Reservation(r)), NEW plan, plan_validate(plan, r.qty),
         NEW z, z = AcctCall(s, a, Reservation(r)),
         NEW t, t = [z EXCEPT !.orders = Append(@, Registered(a, r, plan))],
         NEW id, id = Len(s.orders) + 1,
         NEW x, x = Answered(exec_submit(t, id, r.type, plan), id)
  PROVE  OrderTaken(x, s, a)
<1>1. PICK e : e = exec_submit(t, id, r.type, plan)
  OBVIOUS
<1>2. Submits(x, e, t, s, a, r, plan, id)
  BY <1>1, OrderPlaced DEF Submits
<1> QED
  BY <1>2, SubmitsTakes

\* An id handed out to no order changes nothing that counts.
LEMMA NoOrderAgrees ==
  ASSUME NEW os \in OrderMaps, NEW os2, Appended(os2, os, NoOrder),
         NEW b, NEW m, Agree(os, b, m, 0, 0)
  PROVE  Agree(os2, b, m, 0, 0)
<1>1. PICK id : id = Len(os) + 1
  OBVIOUS
<1>2. ~Listed(os2, id)
  BY <1>1, AppendedFacts DEF IsOrder
<1>3. Agree(os2, b, m, id, 0)
  BY <1>1, AppendedAgrees
<1>4. LeftOf(os2, id, m) = 0
  BY <1>2 DEF LeftOf
<1>5. \A u \in Nat \ {0} : (IF u = 0 THEN 0 ELSE LeftOf(os2, u, m))
                           = (IF u = id THEN 0 ELSE LeftOf(os2, u, m))
  BY <1>4
<1> QED
  BY <1>3, <1>5, AgreeOwn

LEMMA NoOrderSettled ==
  ASSUME NEW os \in OrderMaps, NEW os2, Appended(os2, os, NoOrder),
         NEW ac, NEW base, Settled(ac, os, base)
  PROVE  Settled(ac, os2, base)
<1>1. PICK id : id = Len(os) + 1
  OBVIOUS
<1>2. ~Listed(os2, id) /\ id \in Slots
  BY <1>1, AppendedFacts DEF IsOrder
<1>3. PICK C, D : C = Claims(os, 0, NoClaim) /\ D = Claims(os2, id, NoClaim)
  OBVIOUS
<1>4. NoClaim \in Claim
  BY DEF NoClaim, Claim
<1>5. /\ C[id] = NoClaim /\ \A u \in Slots : C[u] = NoClaim \/ Terms(os2)[u] = Terms(os)[u]
      /\ Becomes(D, C, id, NoClaim)
  BY <1>1, <1>3, <1>4, AppendedClaims
<1>6. C \in [Slots -> Claim]
  <2>1. 0 \notin Slots
    BY DEF Slots
  <2> QED
    BY <1>3, <2>1, ClaimsType
<1>7. D = C
  <2>1. Becomes(D, C, id, C[id])
    BY <1>5
  <2> QED
    BY <1>2, <1>6, <2>1, SameClaims
<1>8. D = Claims(os2, 0, NoClaim)
  <2>1. \A u \in Slots : u # 0
    BY DEF Slots
  <2> QED
    BY <1>2, <1>3, <2>1 DEF Claims
<1>9. base \in Base /\ Posted(ac, Terms(os), C, base)
  BY <1>3 DEF Settled
<1>10. Terms(os) \in [Slots -> TermsRec] /\ Terms(os2) \in [Slots -> TermsRec]
  <2>1. os2 \in OrderMaps
    BY DEF Appended
  <2> QED
    BY <2>1, TermsType
<1>11. Posted(ac, Terms(os2), C, base)
  BY <1>5, <1>6, <1>9, <1>10, PostedAnyway
<1> QED
  BY <1>7, <1>8, <1>9, <1>11 DEF Settled

\* The state with the reservation made and the id handed out.
NowhereTo(t, s, a, r) ==
  /\ t \in HandlerState /\ t.book = s.book /\ t.failed = s.failed
  /\ Appended(t.orders, s.orders, NoOrder) /\ JustReserved(t.acct, s.acct, a, r)

LEMMA NowherePlaced ==
  ASSUME NEW s, Whole(s), NEW a \in Accounts, NEW r \in Requests, Len(s.orders) < OrderCap,
         Accepts(s.acct[a], Reservation(r)),
         NEW z, z = AcctCall(s, a, Reservation(r)),
         NEW t, t = [z EXCEPT !.orders = Append(@, NoOrder)]
  PROVE  NowhereTo(t, s, a, r)
<1>1. PICK os, os2 : os = s.orders /\ os2 = Append(os, NoOrder)
  OBVIOUS
<1>2. s \in HandlerState /\ os \in OrderMaps
  BY <1>1, StateFields DEF Whole
<1>3. PICK x : x = NoOrder
  OBVIOUS
<1>4. Appended(os2, os, x)
  <2>1. x \in OrderRec \cup {NoOrder} /\ ~IsOrder(x)
    BY <1>3 DEF IsOrder
  <2> QED
    BY <1>1, <1>2, <1>3, <2>1, AppendedIs
<1>5. Accepted(z, s, a, Outcome(s.acct[a], Reservation(r)))
  BY <1>2, ReservedIs
<1>6. /\ z \in HandlerState /\ z.orders = os /\ z.book = s.book /\ z.failed = s.failed
      /\ z.acct[a] = Outcome(s.acct[a], Reservation(r))
      /\ \A b \in Accounts : b # a => z.acct[b] = s.acct[b]
  BY <1>1, <1>5 DEF Accepted, OnlyAcct
<1>7. t = [z EXCEPT !.orders = os2]
  BY <1>1, <1>6
<1>8. z \in HandlerState /\ os2 \in OrderMaps
  BY <1>4, <1>6 DEF Appended
<1>9. OnlyOrders(t, z) /\ t.orders = os2
  BY <1>7, <1>8, OrdersSet
<1> QED
  BY <1>1, <1>3, <1>4, <1>6, <1>9 DEF NowhereTo, OnlyOrders, JustReserved

LEMMA NowhereTakes ==
  ASSUME NEW s, Whole(s), NEW a \in Accounts, NEW r \in Requests, Accepts(s.acct[a], Reservation(r)),
         NEW t, NowhereTo(t, s, a, r),
         NEW x, x = release_unused(t, [acct |-> a, side |-> r.side, limit |-> r.price], r.qty)
  PROVE  OrderTaken(x, s, a)
<1>1. PICK os, os2, lo : os = s.orders /\ os2 = t.orders
                         /\ lo = [acct |-> a, side |-> r.side, limit |-> r.price]
  OBVIOUS
<1>2. /\ s \in HandlerState /\ os \in OrderMaps /\ s.acct \in [Accounts -> Account]
      /\ \A k \in Markets : Agree(os, s.book[k], k, 0, 0)
  BY <1>1, StateFields DEF Whole
<1>3. /\ t \in HandlerState /\ t.book = s.book /\ t.failed = s.failed
      /\ Appended(os2, os, NoOrder) /\ JustReserved(t.acct, s.acct, a, r)
  BY <1>1 DEF NowhereTo
<1>4. r.side \in Side /\ r.price \in Nat \ {0} /\ r.qty \in Nat \ {0}
  BY RequestTypes
<1>5. lo.acct = a /\ lo.side = r.side /\ lo.limit = r.price /\ x = release_unused(t, lo, r.qty)
  BY <1>1
<1>6. OnlyAcct(x, t)
  <2>1. TermsOf(lo) \in TermsRec /\ r.qty \in Int
    BY <1>4, <1>5 DEF TermsOf, TermsRec
  <2> QED
    BY <1>3, <1>5, <2>1, ReleaseFrame
<1>7. x \in HandlerState /\ x.orders = os2 /\ x.book = s.book
  BY <1>1, <1>3, <1>6 DEF OnlyAcct
<1>8. Whole(x)
  <2>1. \A k \in Markets : Agree(os2, x.book[k], k, 0, 0)
    BY <1>2, <1>3, <1>7, NoOrderAgrees
  <2> QED
    BY <1>7, <2>1 DEF Whole
<1>9. /\ Len(os2) = Len(os) + 1 /\ os2[Len(os) + 1] = NoOrder /\ Len(os) \in Nat
      /\ DOMAIN os = 1..Len(os) /\ DOMAIN os2 = 1..Len(os2) /\ os2 \in OrderMaps
      /\ \A u \in DOMAIN os : os2[u] = os[u]
  <2>1. os2 \in OrderMaps /\ Len(os2) = Len(os) + 1 /\ os2[Len(os) + 1] = NoOrder
        /\ \A u \in DOMAIN os : os2[u] = os[u]
    BY <1>3 DEF Appended
  <2> QED
    BY <1>2, <2>1, OrderMapFacts
<1>10. Grown(os2, os, 0)
  <2>1. PICK id : id = Len(os) + 1
    OBVIOUS
  <2> QED
    BY <1>2, <1>3, <2>1, AppendedFacts
<1>11. ASSUME Live(os) PROVE Live(os2)
  <2>1. PICK id : id = Len(os) + 1
    OBVIOUS
  <2>2. ~Listed(os2, id) /\ Grown(os2, os, id)
    BY <1>2, <1>3, <2>1, AppendedFacts DEF IsOrder
  <2>3. \A u \in DOMAIN os2 : u # id => u \in DOMAIN os
    BY <1>9, <2>1
  <2> QED
    BY <1>2, <1>9, <1>11, <2>2, <2>3, GrownLive
<1>12. ASSUME NEW base, Settled(s.acct, os, base)
       PROVE  x.failed = s.failed /\ x.acct = s.acct /\ Settled(x.acct, x.orders, base)
  <2>1. Balanced(s.acct[a])
    BY <1>12 DEF Settled, Posted
  <2>2. x.acct = s.acct /\ x.failed = t.failed
    BY <1>2, <1>3, <1>5, <2>1, ReturnedAll
  <2>3. Settled(s.acct, os2, base)
    BY <1>2, <1>3, <1>12, NoOrderSettled
  <2> QED
    BY <1>3, <1>7, <2>2, <2>3
<1>13. Len(os) <= Len(os2)
  BY <1>9
<1>16. BooksOnward(x, s, Len(s.orders) + 1)
  BY <1>2, <1>7, SameBooksOnward
<1>14. Handled(x, s)
  BY <1>1, <1>7, <1>8, <1>10, <1>11, <1>12, <1>13, <1>16 DEF Handled
<1>15. ~IsOrder(x.orders[Len(x.orders)])
  BY <1>7, <1>9 DEF IsOrder
<1> QED
  BY <1>1, <1>7, <1>9, <1>14, <1>15 DEF OrderTaken

LEMMA NowhereTaken ==
  ASSUME NEW s, Whole(s), NEW a \in Accounts, NEW r \in Requests, Len(s.orders) < OrderCap,
         Accepts(s.acct[a], Reservation(r)),
         NEW z, z = AcctCall(s, a, Reservation(r)),
         NEW t, t = [z EXCEPT !.orders = Append(@, NoOrder)],
         NEW x, x = release_unused(t, [acct |-> a, side |-> r.side, limit |-> r.price], r.qty)
  PROVE  OrderTaken(x, s, a)
<1>1. NowhereTo(t, s, a, r)
  BY NowherePlaced
<1> QED
  BY <1>1, NowhereTakes

-----------------------------------------------------------------------------
(* CANCEL_REQ.                                                              *)

LEMMA RestsOnce ==
  ASSUME NEW b, BookOK(b), NEW u \in Nat \ {0}, NEW p \in Nat, NEW q \in Nat, Rests(b, u, p), Rests(b, u, q)
  PROVE  p = q
BY DEF Rests, BookOK

\* Order lo with n shares taken back.
Withdrew(lo2, lo, n) ==
  /\ n \in Nat /\ Grew(lo2, lo)
  /\ omap_filled_qty(lo2) = omap_filled_qty(lo) /\ omap_notional(lo2) = omap_notional(lo)
  /\ omap_canceled_qty(lo2) = omap_canceled_qty(lo) + n

LEMMA WithdrewMore ==
  ASSUME NEW lo, OrderOK(lo), NEW lo2, NEW lo3, NEW n, NEW k, Withdrew(lo2, lo, n), Withdrew(lo3, lo2, k)
  PROVE  Withdrew(lo3, lo, n + k)
<1>1. Grew(lo3, lo)
  BY GrewMore DEF Withdrew
<1>2. PICK c, c2, c3 : c = omap_canceled_qty(lo) /\ c2 = omap_canceled_qty(lo2) /\ c3 = omap_canceled_qty(lo3)
  OBVIOUS
<1>3. c \in Nat
  BY <1>2, OrderTotals
<1>4. n \in Nat /\ k \in Nat /\ c2 = c + n /\ c3 = c2 + k
  BY <1>2 DEF Withdrew
<1>5. c3 = c + (n + k) /\ n + k \in Nat
  BY <1>3, <1>4
<1> QED
  BY <1>1, <1>2, <1>5 DEF Withdrew

\* A leg with nothing left of what it had takes that much off its order.
LEMMA LegWithdrew ==
  ASSUME NEW os \in OrderMaps, NEW u, Listed(os, u), NEW m \in DOMAIN os[u].legs,
         NEW q \in Nat \ {0}, Takes(os[u].legs[m], q),
         NEW l, l = omap_on_cancel(os[u].legs[m], q), NEW os2, Relegged(os2, os, u, m, l)
  PROVE  Withdrew(os2[u], os[u], q)
<1>1. PICK lo, lo2, k : lo = os[u] /\ lo2 = os2[u] /\ k = os[u].legs[m]
  OBVIOUS
<1>2. OrderOK(lo) /\ OrderOK(lo2)
  BY <1>1, OrderMapFacts DEF Relegged
<1>3. LegOK(k)
  BY <1>1, <1>2 DEF OrderOK, LegsOK
<1>4. /\ LegOK(l) /\ LegLeft(l) = LegLeft(k) - q
      /\ l.sent = k.sent /\ l.filled = k.filled /\ l.accepted = k.accepted
      /\ l.canceled = k.canceled + q /\ l.notional = k.notional
  <2>1. LegOK(k) /\ q \in Nat /\ Takes(k, q) /\ l = omap_on_cancel(k, q)
    BY <1>1, <1>3
  <2> QED
    BY <2>1, CanceledLeg
<1>5. LegLeft(k) \in Nat /\ k.filled \in Nat /\ k.canceled \in Nat /\ k.notional \in Nat
  BY <1>3, LegTypes
<1>6. /\ TermsOf(lo2) = TermsOf(lo) /\ lo2.qty = lo.qty /\ lo2.market = lo.market
      /\ DOMAIN lo2.legs = DOMAIN lo.legs /\ lo2.legs[m] = l /\ m \in DOMAIN lo.legs /\ lo.legs[m] = k
      /\ \A j \in DOMAIN lo.legs : j # m => lo2.legs[j] = lo.legs[j]
  BY <1>1 DEF Relegged
<1>7. PICK f, f2, c, c2, n, n2 :
        /\ f = omap_filled_qty(lo) /\ f2 = omap_filled_qty(lo2)
        /\ c = omap_canceled_qty(lo) /\ c2 = omap_canceled_qty(lo2)
        /\ n = omap_notional(lo) /\ n2 = omap_notional(lo2)
  OBVIOUS
<1>8. f2 = f - k.filled + l.filled /\ c2 = c - k.canceled + l.canceled /\ n2 = n - k.notional + l.notional
  BY <1>1, <1>7 DEF Relegged
<1>9. f \in Nat /\ c \in Nat /\ n \in Nat
  BY <1>2, <1>7, OrderTotals
<1>10. f2 = f /\ c2 = c + q /\ n2 = n
  BY <1>4, <1>5, <1>8, <1>9
<1>11. ASSUME NEW j \in DOMAIN lo.legs
       PROVE  /\ lo.legs[j].accepted => lo2.legs[j].accepted
              /\ LegLeft(lo2.legs[j]) <= LegLeft(lo.legs[j])
  <2>1. CASE j = m
    BY <1>4, <1>5, <1>6, <2>1
  <2>2. CASE j # m
    <3>1. lo2.legs[j] = lo.legs[j] /\ LegOK(lo.legs[j])
      BY <1>2, <1>6, <2>2 DEF OrderOK, LegsOK
    <3>2. LegLeft(lo.legs[j]) \in Nat
      BY <3>1, LegTypes
    <3> QED
      BY <3>1, <3>2
  <2> QED
    BY <2>1, <2>2
<1>12. omap_remaining(lo) # 0
  <2>1. LegLeft(lo.legs[m]) # 0
    BY <1>1, <1>5, <1>6 DEF Takes
  <2> QED
    BY <1>2, <1>6, <2>1, OrderTotals
<1>13. Grew(lo2, lo)
  <2>1. omap_filled_qty(lo) <= omap_filled_qty(lo2)
    BY <1>7, <1>9, <1>10
  <2> QED
    BY <1>2, <1>6, <1>11, <1>12, <2>1 DEF Grew
<1> QED
  BY <1>1, <1>4, <1>7, <1>10, <1>13 DEF Withdrew

\* State t after shares of order id have been taken back out of the books: n
\* more than in s. No account has changed yet.
Cancels(t, s, id, n) ==
  /\ Whole(t) /\ t.acct = s.acct /\ t.failed = s.failed /\ t.canceled = s.canceled + n
  /\ Len(t.orders) = Len(s.orders) /\ Terms(t.orders) = Terms(s.orders) /\ Listed(t.orders, id)
  /\ \A u \in DOMAIN s.orders : u # id => t.orders[u] = s.orders[u]
  /\ Withdrew(t.orders[id], s.orders[id], n) /\ BooksOnward(t, s, 0)

LEMMA CancelsNothing ==
  ASSUME NEW s, Whole(s), NEW id, Listed(s.orders, id)
  PROVE  Cancels(s, s, id, 0)
<1>1. s.orders \in OrderMaps /\ s.canceled \in Nat
  BY StateFields DEF Whole
<1>2. OrderOK(s.orders[id])
  BY <1>1, OrderMapFacts
<1>3. Grew(s.orders[id], s.orders[id])
  BY <1>2, GrewNothing
<1>4. PICK c : c = omap_canceled_qty(s.orders[id])
  OBVIOUS
<1>5. c \in Nat
  BY <1>2, <1>4, OrderTotals
<1>6. c = c + 0
  BY <1>5
<1>7. Withdrew(s.orders[id], s.orders[id], 0)
  BY <1>3, <1>4, <1>6 DEF Withdrew
<1>8. s.canceled = s.canceled + 0
  BY <1>1
<1>9. BooksOnward(s, s, 0)
  BY SameBooksOnward DEF Whole
<1> QED
  BY <1>7, <1>8, <1>9 DEF Cancels

LEMMA CancelsMore ==
  ASSUME NEW s, Whole(s), NEW id, Listed(s.orders, id), NEW t, NEW n, Cancels(t, s, id, n),
         NEW e, NEW k, Cancels(e, t, id, k)
  PROVE  Cancels(e, s, id, n + k)
<1>1. s.orders \in OrderMaps /\ t.orders \in OrderMaps /\ s.canceled \in Nat
  BY StateFields DEF Whole, Cancels
<1>2. OrderOK(s.orders[id]) /\ DOMAIN t.orders = DOMAIN s.orders
  <2>1. Len(t.orders) = Len(s.orders)
    BY DEF Cancels
  <2> QED
    BY <1>1, <2>1, OrderMapFacts
<1>3. Withdrew(e.orders[id], s.orders[id], n + k)
  BY <1>2, WithdrewMore DEF Cancels
<1>4. e.canceled = s.canceled + (n + k)
  <2>1. n \in Nat /\ k \in Nat
    BY DEF Cancels, Withdrew
  <2>2. t.canceled = s.canceled + n /\ e.canceled = t.canceled + k
    BY DEF Cancels
  <2> QED
    BY <1>1, <2>1, <2>2
<1>5. \A u \in DOMAIN s.orders : u # id => e.orders[u] = s.orders[u]
  BY <1>2 DEF Cancels
<1>6. BooksOnward(e, s, 0)
  BY BooksOnwardFurther DEF Cancels
<1> QED
  BY <1>3, <1>4, <1>5, <1>6 DEF Cancels

\* The book without the order, and the leg with nothing left.
LEMMA LegWithdrawn ==
  ASSUME NEW t, Whole(t), NEW id, Listed(t.orders, id), NEW m \in DOMAIN t.orders[id].legs,
         NEW r, Withdrawn(r, t.book[m], id), r.rc = "ok",
         NEW z, OnlyBook(z, t, m, r.book), NEW y, y = LegCancel(z, id, m, r.left),
         NEW e, e = [y EXCEPT !.canceled = @ + r.left]
  PROVE  Cancels(e, t, id, r.left)
<1>1. PICK os, b, q : os = t.orders /\ b = t.book[m] /\ q = r.left
  OBVIOUS
<1>2. t \in HandlerState /\ os \in OrderMaps /\ \A k \in Markets : Agree(os, t.book[k], k, 0, 0)
  BY <1>1, StateFields DEF Whole
<1>3. OrderOK(os[id]) /\ id \in Nat \ {0} /\ Listed(os, id) /\ m \in DOMAIN os[id].legs
  BY <1>1, <1>2, OrderMapFacts
<1>4. m \in Markets /\ LegOK(os[id].legs[m])
  BY <1>3 DEF OrderOK, LegsOK
<1>5. Agree(os, b, m, 0, 0) /\ BookOK(b) /\ Len(b) <= PoolCap
  BY <1>1, <1>2, <1>4 DEF Agree
<1>6. /\ BookOK(r.book) /\ Len(r.book) <= Len(b) /\ ComesFrom(r.book, b)
      /\ \A u \in Int, p \in Int : u # id /\ Rests(b, u, p) => Rests(r.book, u, p)
      /\ q \in Nat \ {0} /\ Rests(b, id, q) /\ Rests(r.book, id, 0)
  BY <1>1, <1>3 DEF Withdrawn
<1>7. q = LegLeft(os[id].legs[m])
  <2>1. LeftOf(os, id, m) = LegLeft(os[id].legs[m])
    BY <1>3 DEF LeftOf
  <2>2. Rests(b, id, LeftOf(os, id, m))
    BY <1>3, <1>5 DEF Agree
  <2>3. LeftOf(os, id, m) \in Nat
    BY <1>2, LeftOfType
  <2> QED
    BY <1>3, <1>5, <1>6, <2>1, <2>2, <2>3, RestsOnce
<1>8. Takes(os[id].legs[m], q)
  BY <1>6, <1>7 DEF Takes
<1>9. /\ z \in HandlerState /\ z.acct = t.acct /\ z.orders = os /\ z.failed = t.failed
      /\ z.canceled = t.canceled /\ z.book[m] = r.book /\ \A k \in Markets : k # m => z.book[k] = t.book[k]
  BY <1>1 DEF OnlyBook
<1>10. PICK l : /\ LegOK(l) /\ l = omap_on_cancel(os[id].legs[m], q)
                /\ OnlyOrders(y, z) /\ Relegged(y.orders, os, id, m, l)
  BY <1>1, <1>3, <1>6, <1>8, <1>9, LegCancelIs
<1>11. /\ y \in HandlerState /\ y.acct = t.acct /\ y.book = z.book /\ y.failed = t.failed
       /\ y.canceled = t.canceled
  BY <1>9, <1>10 DEF OnlyOrders
<1>12. /\ e \in HandlerState /\ e.acct = t.acct /\ e.book = z.book /\ e.failed = t.failed
       /\ e.canceled = t.canceled + q /\ e.orders = y.orders
  <2>1. t.canceled \in Nat /\ q \in Nat
    BY <1>2, <1>6, StateFields
  <2>2. PICK c : c = y.canceled + q
    OBVIOUS
  <2>3. c \in Nat /\ e = [y EXCEPT !.canceled = c]
    BY <1>1, <1>11, <2>1, <2>2
  <2>4. e \in HandlerState /\ e.acct = y.acct /\ e.book = y.book /\ e.failed = y.failed
        /\ e.canceled = c /\ e.orders = y.orders
    BY <1>11, <2>3 DEF HandlerState
  <2> QED
    BY <1>11, <2>2, <2>4
<1>13. PICK oe : oe = e.orders
  OBVIOUS
<1>14. Relegged(oe, os, id, m, l) /\ oe \in OrderMaps
  BY <1>10, <1>12, <1>13 DEF Relegged
<1>15. Withdrew(oe[id], os[id], q) /\ LegLeft(l) = LegLeft(os[id].legs[m]) - q
  <2>1. /\ os \in OrderMaps /\ Listed(os, id) /\ m \in DOMAIN os[id].legs /\ q \in Nat \ {0}
        /\ Takes(os[id].legs[m], q) /\ l = omap_on_cancel(os[id].legs[m], q)
        /\ Relegged(oe, os, id, m, l)
    BY <1>2, <1>3, <1>6, <1>8, <1>10, <1>14
  <2>2. Withdrew(oe[id], os[id], q)
    BY <2>1, LegWithdrew
  <2>3. PICK k : k = os[id].legs[m]
    OBVIOUS
  <2>4. LegOK(k) /\ q \in Nat /\ Takes(k, q) /\ l = omap_on_cancel(k, q)
    BY <1>4, <2>1, <2>3
  <2>5. LegLeft(l) = LegLeft(k) - q
    BY <2>4, CanceledLeg
  <2> QED
    BY <2>2, <2>3, <2>5
<1>16. LegLeft(l) = 0
  BY <1>6, <1>7, <1>15
<1>17. /\ Terms(oe) = Terms(os) /\ LeftOf(oe, id, m) = 0 /\ SameOrders(oe, os)
       /\ \A v, k : ~(v = id /\ k = m) => LeftOf(oe, v, k) = LeftOf(os, v, k)
  <2>1. /\ Terms(oe) = Terms(os) /\ LeftOf(oe, id, m) = LegLeft(l)
        /\ \A v, k : ~(v = id /\ k = m) => LeftOf(oe, v, k) = LeftOf(os, v, k)
    BY <1>2, <1>3, <1>14, ReleggedElsewhere
  <2>2. SameOrders(oe, os)
    BY <1>2, <1>3, <1>14, ReleggedSame
  <2> QED
    BY <1>16, <2>1, <2>2
<1>18. Agree(oe, r.book, m, 0, 0)
  <2>1. ASSUME NEW u \in Nat \ {0} PROVE Rests(r.book, u, IF u = 0 THEN 0 ELSE LeftOf(oe, u, m))
    <3>1. CASE u = id
      BY <1>6, <1>17, <3>1
    <3>2. CASE u # id
      <4>1. Rests(b, u, LeftOf(os, u, m)) /\ LeftOf(os, u, m) \in Int /\ u \in Int
        <5>1. LeftOf(os, u, m) \in Nat
          BY <1>2, LeftOfType
        <5> QED
          BY <1>5, <5>1 DEF Agree
      <4>2. LeftOf(oe, u, m) = LeftOf(os, u, m)
        BY <1>17, <3>2
      <4> QED
        BY <1>6, <3>2, <4>1, <4>2
    <3> QED
      BY <3>1, <3>2
  <2>2. ASSUME NEW i \in DOMAIN r.book, r.book[i].owner > 0
        PROVE  /\ Listed(oe, r.book[i].owner) /\ m \in DOMAIN oe[r.book[i].owner].legs
               /\ r.book[i].side = oe[r.book[i].owner].side /\ r.book[i].price = oe[r.book[i].owner].limit
    <3>1. PICK j \in DOMAIN b : /\ r.book[i].owner = b[j].owner /\ r.book[i].side = b[j].side
                                /\ r.book[i].price = b[j].price
      BY <1>6 DEF ComesFrom, Stood
    <3>2. PICK u : u = b[j].owner
      OBVIOUS
    <3>3. /\ Listed(os, u) /\ m \in DOMAIN os[u].legs
          /\ b[j].side = os[u].side /\ b[j].price = os[u].limit
      BY <1>5, <2>2, <3>1, <3>2 DEF Agree
    <3>4. Listed(oe, u) /\ TermsOf(oe[u]) = TermsOf(os[u]) /\ DOMAIN oe[u].legs = DOMAIN os[u].legs
      BY <1>17, <3>3 DEF SameOrders
    <3>5. oe[u].side = os[u].side /\ oe[u].limit = os[u].limit
      BY <3>4, TermsFields
    <3> QED
      BY <3>1, <3>2, <3>3, <3>4, <3>5
  <2>3. Len(r.book) <= PoolCap
    <3>1. Len(r.book) \in Nat /\ Len(b) \in Nat /\ PoolCap \in Nat
      BY <1>5, <1>6, LedgerAssumption DEF BookOK
    <3> QED
      BY <1>5, <1>6, <3>1
  <2> QED
    BY <1>6, <2>1, <2>2, <2>3 DEF Agree
<1>19. Whole(e)
  <2>1. ASSUME NEW k \in Markets PROVE Agree(oe, e.book[k], k, 0, 0)
    <3>1. CASE k = m
      BY <1>9, <1>12, <1>18, <3>1
    <3>2. CASE k # m
      <4>1. Agree(os, t.book[k], k, 0, 0) /\ e.book[k] = t.book[k]
        BY <1>2, <1>9, <1>12, <3>2
      <4>2. \A u \in Nat \ {0} : u # 0 => LeftOf(oe, u, k) = LeftOf(os, u, k)
        BY <1>17, <3>2
      <4> QED
        BY <1>17, <4>1, <4>2, AgreeStill
    <3> QED
      BY <3>1, <3>2
  <2> QED
    BY <1>12, <1>13, <2>1 DEF Whole
<1>20. /\ Len(oe) = Len(os) /\ Listed(oe, id)
       /\ \A u \in DOMAIN os : u # id => oe[u] = os[u]
  BY <1>14 DEF Relegged
<1>21. BooksOnward(e, t, 0)
  <2>1. Onward(r.book, b, 0)
    BY <1>6, OnwardFrom
  <2>2. Onward(e.book[m], t.book[m], 0) /\ \A k \in Markets : k # m => e.book[k] = t.book[k]
    BY <1>1, <1>9, <1>12, <2>1
  <2> QED
    BY <1>2, <1>4, <2>2, OneBookOnward
<1> QED
  BY <1>1, <1>12, <1>13, <1>15, <1>17, <1>19, <1>20, <1>21 DEF Cancels

LEMMA CancelLegIs ==
  ASSUME NEW t, Whole(t), NEW id, Listed(t.orders, id), NEW m, NEW e, e = CancelLeg(t, id, m)
  PROVE  \E n : Cancels(e, t, id, n)
<1>1. CASE e = t
  BY <1>1, CancelsNothing
<1>2. CASE e # t
  <2>1. PICK r : r = match_cancel(t.book[m], id)
    OBVIOUS
  <2>2. PICK z : z = [t EXCEPT !.book[m] = r.book]
    OBVIOUS
  <2>3. PICK y : y = LegCancel(z, id, m, r.left)
    OBVIOUS
  <2>4. m \in DOMAIN t.orders[id].legs /\ r.rc = "ok" /\ e = [y EXCEPT !.canceled = @ + r.left]
    BY <1>2, <2>1, <2>2, <2>3 DEF CancelLeg
  <2>5. t \in HandlerState /\ t.orders \in OrderMaps
    BY StateFields DEF Whole
  <2>6. OrderOK(t.orders[id]) /\ id \in Nat \ {0}
    BY <2>5, OrderMapFacts
  <2>7. m \in Markets
    BY <2>4, <2>6 DEF OrderOK, LegsOK
  <2>8. BookOK(t.book[m]) /\ id \in Int
    BY <2>6, <2>7 DEF Whole, Agree
  <2>9. Withdrawn(r, t.book[m], id)
    BY <2>1, <2>8, CancelContract
  <2>10. PICK c : c = r.book
    OBVIOUS
  <2>11. c \in Seq(BookOrder) /\ z = [t EXCEPT !.book[m] = c]
    BY <2>2, <2>9, <2>10 DEF Withdrawn, BookOK
  <2>12. OnlyBook(z, t, m, r.book)
    BY <2>5, <2>7, <2>10, <2>11, BookSet
  <2> QED
    BY <2>3, <2>4, <2>9, <2>12, LegWithdrawn
<1> QED
  BY <1>1, <1>2

\* All markets.
LEMMA CancelLegs ==
  ASSUME NEW s, Whole(s), NEW id, Listed(s.orders, id), NEW r, r = exec_cancel(s, id)
  PROVE  \E n : Cancels(r, s, id, n)
<1> DEFINE n == Len(Venues)
           both(t, m) == CancelLeg(t, id, m)
           St == {t \in HandlerState : \E k : Cancels(t, s, id, k)}
           F == [k \in 1..n |-> [t \in St |-> both(t, Venues[k])]]
           T == [J \in SUBSET (1..n) |-> St]
           Runs(h) == h = [J \in SUBSET (1..n) |->
                             IF J = {} THEN s ELSE both(h[J \ {Max(J)}], Venues[Max(J)])]
<1>0. n \in Nat /\ DOMAIN Venues = 1..n /\ s \in HandlerState
  BY VenuesAssumption DEF Whole
<1>1. s \in T[{}]
  <2>1. Cancels(s, s, id, 0)
    BY CancelsNothing
  <2>2. {} \in SUBSET (1..n)
    OBVIOUS
  <2> QED
    BY <1>0, <2>1, <2>2
<1>2. ASSUME NEW J \in SUBSET (1..n), NEW k \in J, NEW t \in T[J \ {k}]
      PROVE  both(t, Venues[k]) \in T[J] /\ F[k][t] = both(t, Venues[k])
  <2>1. J \ {k} \in SUBSET (1..n) /\ k \in 1..n
    OBVIOUS
  <2>2. t \in St
    BY <2>1
  <2>3. PICK p : Cancels(t, s, id, p)
    BY <2>2
  <2>4. PICK z, m : m = Venues[k] /\ z = both(t, m)
    OBVIOUS
  <2>5. Whole(t) /\ Listed(t.orders, id)
    BY <2>3 DEF Cancels
  <2>6. PICK q : Cancels(z, t, id, q)
    BY <2>4, <2>5, CancelLegIs
  <2>7. Cancels(z, s, id, p + q)
    BY <2>3, <2>6, CancelsMore
  <2>8. z \in St
    BY <2>7 DEF Cancels, Whole
  <2> HIDE DEF both, St
  <2>9. z \in T[J]
    BY <2>8
  <2> QED
    BY <2>1, <2>2, <2>4, <2>9
<1> HIDE DEF both, F, T, St, n
<1>3. PICK g : /\ LeftFold(g, n, F, s)
               /\ \A J \in SUBSET (1..n) : J # {} => Max(J) \in J /\ g[J \ {Max(J)}] \in T[J \ {Max(J)}]
  <2>1. \A J \in SUBSET (1..n) : \A k \in J : \A t \in T[J \ {k}] : F[k][t] \in T[J]
    BY <1>2
  <2> QED
    BY <1>0, <1>1, <2>1, FoldLeftRuns
<1>5. Runs(g)
  <2>1. \A J \in SUBSET (1..n) : J # {} => F[Max(J)][g[J \ {Max(J)}]] = both(g[J \ {Max(J)}], Venues[Max(J)])
    BY <1>2, <1>3
  <2> QED
    BY <1>3, <2>1 DEF LeftFold
<1> DEFINE w == CHOOSE h : Runs(h)
<1>6. Runs(w)
  <2> HIDE DEF Runs
  <2> QED
    BY <1>5
<1>7. r = w[1..n]
  BY <1>0 DEF exec_cancel, FoldLeft, MapThenFoldSet, both
<1> HIDE DEF w
<1>8. \A J \in SUBSET (1..n) : w[J] \in T[J]
  <2>1. w[{}] \in T[{}]
    BY <1>1, <1>6
  <2>2. ASSUME NEW J \in SUBSET (1..n), J # {}, Max(J) \in J, w[J \ {Max(J)}] \in T[J \ {Max(J)}]
        PROVE  w[J] \in T[J]
    <3>1. w[J] = both(w[J \ {Max(J)}], Venues[Max(J)])
      BY <1>6, <2>2
    <3> HIDE DEF Runs
    <3> QED
      BY <1>2, <2>2, <3>1
  <2> QED
    BY <1>0, <2>1, <2>2, FoldLeftTypes
<1>9. r \in T[1..n]
  BY <1>7, <1>8
<1>10. r \in St
  BY <1>9 DEF T
<1> QED
  BY <1>10 DEF St

\* What was taken back is released.
LEMMA CancelReleased ==
  ASSUME NEW s, Whole(s), NEW id, Listed(s.orders, id), s.canceled = 0,
         NEW e, NEW n, Cancels(e, s, id, n),
         NEW x, x = release_unused(e, s.orders[id], e.canceled)
  PROVE  Handled(x, s) /\ Len(x.orders) = Len(s.orders)
<1>1. PICK os, oe, lo, lo2 : os = s.orders /\ oe = e.orders /\ lo = os[id] /\ lo2 = oe[id]
  OBVIOUS
<1>2. /\ Whole(e) /\ e.acct = s.acct /\ e.failed = s.failed /\ e.canceled = s.canceled + n
      /\ Len(oe) = Len(os) /\ Terms(oe) = Terms(os) /\ Listed(oe, id) /\ Listed(os, id)
      /\ \A u \in DOMAIN os : u # id => oe[u] = os[u]
      /\ Withdrew(lo2, lo, n)
  BY <1>1 DEF Cancels
<1>3. s \in HandlerState /\ os \in OrderMaps /\ e \in HandlerState /\ oe \in OrderMaps
  BY <1>1, <1>2, StateFields DEF Whole
<1>4. OrderOK(lo) /\ OrderOK(lo2) /\ id \in Slots /\ DOMAIN oe = DOMAIN os /\ id \in Nat \ {0}
  BY <1>1, <1>2, <1>3, OrderMapFacts
<1>5. /\ n \in Nat /\ Grew(lo2, lo) /\ e.canceled = n
      /\ omap_filled_qty(lo2) = omap_filled_qty(lo) /\ omap_notional(lo2) = omap_notional(lo)
      /\ omap_canceled_qty(lo2) = omap_canceled_qty(lo) + n
  <2>1. n \in Nat
    BY <1>2 DEF Withdrew
  <2>2. e.canceled = n
    BY <1>2, <2>1
  <2> QED
    BY <1>2, <2>1, <2>2 DEF Withdrew
<1>6. PICK f, c, r, r2, q, w : /\ f = omap_filled_qty(lo) /\ c = omap_canceled_qty(lo) /\ q = lo.qty
                               /\ r = omap_remaining(lo) /\ w = omap_notional(lo)
                               /\ r2 = omap_remaining(lo2)
  OBVIOUS
<1>7. lo2.qty = q
  BY <1>5, <1>6 DEF Grew
<1>8. r \in Nat /\ r2 \in Nat /\ r2 = r - n /\ n <= r
  <2>1. f \in Nat /\ c \in Nat /\ w \in Nat /\ r \in Nat /\ r = q - f - c
    BY <1>4, <1>6, OrderTotals
  <2>2. r2 \in Nat /\ r2 = q - f - (c + n)
    BY <1>4, <1>5, <1>6, <1>7, OrderTotals
  <2>3. q \in Nat
    BY <1>4, <1>6, OrderTypes DEF OrderOK
  <2> QED
    BY <1>5, <2>1, <2>2, <2>3
<1>9. /\ ClaimOf(lo).left = r /\ Freed(ClaimOf(lo), n) = ClaimOf(lo2)
  <2>1. ClaimOf(lo) = [left |-> r, money |-> w, shares |-> f]
    BY <1>6 DEF ClaimOf
  <2>2. ClaimOf(lo2) = [left |-> r - n, money |-> w, shares |-> f]
    BY <1>5, <1>6, <1>8 DEF ClaimOf
  <2> QED
    BY <2>1, <2>2 DEF Freed
<1>10. x = release_unused(e, lo, n)
  BY <1>1, <1>5
<1>11. OnlyAcct(x, e)
  <2>1. TermsOf(lo) \in TermsRec
    BY <1>1, <1>2, <1>3, <1>4, TermsType
  <2>2. n \in Int
    BY <1>5
  <2> QED
    BY <1>3, <1>10, <2>1, <2>2, ReleaseFrame
<1>12. x \in HandlerState /\ x.orders = oe /\ x.book = e.book
  BY <1>1, <1>11 DEF OnlyAcct
<1>13. Whole(x)
  BY <1>1, <1>2, <1>12 DEF Whole
<1>14. Grown(oe, os, 0)
  <2>1. ASSUME NEW u \in DOMAIN os
        PROVE  /\ u \in DOMAIN oe
               /\ IF IsOrder(os[u]) THEN Grew(oe[u], os[u]) ELSE oe[u] = os[u]
    <3>1. CASE u = id
      BY <1>1, <1>2, <1>4, <1>5, <3>1 DEF Listed
    <3>2. CASE u # id
      <4>1. oe[u] = os[u] /\ u \in DOMAIN oe
        BY <1>2, <1>4, <3>2
      <4>2. ASSUME IsOrder(os[u]) PROVE Grew(os[u], os[u])
        <5>1. Listed(os, u)
          BY <4>2 DEF Listed
        <5>2. OrderOK(os[u])
          BY <1>3, <5>1, OrderMapFacts
        <5> QED
          BY <5>2, GrewNothing
      <4> QED
        BY <4>1, <4>2
    <3> QED
      BY <3>1, <3>2
  <2> QED
    BY <2>1 DEF Grown
<1>15. ASSUME Live(os) PROVE Live(oe)
  <2>1. ~Listed(oe, 0)
    <3>1. DOMAIN oe = 1..Len(oe)
      BY <1>3, OrderMapFacts
    <3> QED
      BY <3>1 DEF Listed
  <2> QED
    BY <1>3, <1>4, <1>14, <1>15, <2>1, GrownLive
<1>16. ASSUME NEW base, Settled(s.acct, os, base)
       PROVE  x.failed = s.failed /\ Settled(x.acct, oe, base)
  <2>1. PICK K, C, D : K = Terms(oe) /\ C = Claims(os, 0, NoClaim) /\ D = Claims(oe, 0, NoClaim)
    OBVIOUS
  <2>2. base \in Base /\ Posted(e.acct, K, C, base)
    BY <1>2, <1>16, <2>1 DEF Settled
  <2>3. 0 \notin Slots /\ 0 # id
    BY <1>4 DEF Slots
  <2>4. C \in [Slots -> Claim] /\ C[id] = ClaimOf(lo)
    BY <1>1, <1>2, <1>3, <2>1, <2>3, ClaimsType
  <2>5. K \in [Slots -> TermsRec] /\ K[id] = TermsOf(lo)
    <3>1. Terms(os) \in [Slots -> TermsRec] /\ Terms(os)[id] = TermsOf(os[id])
      BY <1>2, <1>3, TermsType
    <3> QED
      BY <1>1, <1>2, <2>1, <3>1
  <2>6. Becomes(D, C, id, ClaimOf(lo2))
    <3>1. D \in [Slots -> Claim] /\ D[id] = ClaimOf(lo2)
      BY <1>1, <1>2, <1>3, <2>1, <2>3, ClaimsType
    <3>2. ASSUME NEW u \in Slots, u # id PROVE D[u] = C[u]
      <4>1. D[u] = (IF Listed(oe, u) THEN ClaimOf(oe[u]) ELSE NoClaim)
            /\ C[u] = (IF Listed(os, u) THEN ClaimOf(os[u]) ELSE NoClaim)
        BY <2>1, <2>3 DEF Claims
      <4>2. (Listed(oe, u) <=> Listed(os, u)) /\ (Listed(os, u) => oe[u] = os[u])
        BY <1>2, <1>4, <3>2 DEF Listed
      <4> QED
        BY <4>1, <4>2
    <3> QED
      BY <3>1, <3>2 DEF Becomes
  <2>7. Becomes(D, C, id, Freed(C[id], n)) /\ n <= C[id].left
    BY <1>8, <1>9, <2>4, <2>6
  <2>8. PICK y : y = lo
    OBVIOUS
  <2>9. /\ e \in HandlerState /\ id \in Slots /\ n \in Nat /\ base \in Base
        /\ K \in [Slots -> TermsRec] /\ K[id] = TermsOf(y) /\ C \in [Slots -> Claim]
        /\ Posted(e.acct, K, C, base) /\ n <= C[id].left /\ Becomes(D, C, id, Freed(C[id], n))
        /\ x = release_unused(e, y, n)
    BY <1>3, <1>4, <1>5, <1>10, <2>2, <2>4, <2>5, <2>7, <2>8
  <2>10. x.failed = e.failed /\ Posted(x.acct, K, D, base)
    BY <2>9, ReleasePosted
  <2> QED
    BY <1>2, <2>1, <2>2, <2>10 DEF Settled
<1>17. Len(os) <= Len(oe)
  <2>1. Len(os) \in Nat
    BY <1>3, OrderMapFacts
  <2> QED
    BY <1>2, <2>1
<1>18. BooksOnward(x, s, Len(s.orders) + 1)
  <2>1. BooksOnward(e, s, 0)
    BY DEF Cancels
  <2>2. BooksOnward(e, s, Len(s.orders) + 1)
    BY <2>1, BooksOnwardFrom
  <2> QED
    BY <1>12, <2>2 DEF BooksOnward
<1> QED
  BY <1>1, <1>2, <1>12, <1>13, <1>14, <1>15, <1>16, <1>17, <1>18 DEF Handled

LEMMA CancelHandled ==
  ASSUME NEW s, Whole(s), NEW id, Listed(s.orders, id), s.canceled = 0,
         NEW e, e = exec_cancel(s, id),
         NEW x, x = release_unused(e, s.orders[id], e.canceled)
  PROVE  Handled(x, s) /\ Len(x.orders) = Len(s.orders)
<1>1. PICK n : Cancels(e, s, id, n)
  BY CancelLegs
<1> QED
  BY <1>1, CancelReleased

-----------------------------------------------------------------------------
(* ACCOUNT_OPEN.                                                            *)

LEMMA EmptyIs == EmptyAccount \in Account /\ Balanced(EmptyAccount)
                 /\ EmptyAccount.reserved = 0 /\ EmptyAccount.held = 0
<1>1. PICK x : x = EmptyAccount
  OBVIOUS
<1>2. x \in Account
  BY <1>1 DEF EmptyAccount, Account
<1>3. x.cash = 0 /\ x.reserved = 0 /\ x.qty = 0 /\ x.cost = 0 /\ x.held = 0
  BY <1>1, FieldNames DEF EmptyAccount
<1>4. Balanced(x)
  BY <1>2, <1>3, BalancedIs
<1> QED
  BY <1>1, <1>2, <1>3, <1>4

\* What seeding a position and setting the cash make of an account.
SeededIs(b, a, q, c) ==
  /\ b \in Account /\ b.cash = a.cash /\ b.reserved = a.reserved
  /\ b.qty = q /\ b.cost = c /\ b.held = 0 /\ b.realized = 0

LEMMA SeedIs ==
  ASSUME NEW a \in Account, NEW q \in Int, NEW c \in Int
  PROVE  SeededIs(Outcome(a, AskAt("seed", q, c)), a, q, c)
<1>1. PICK b : b = Outcome(a, AskAt("seed", q, c))
  OBVIOUS
<1>2. b = [a EXCEPT !.qty = q, !.cost = c, !.held = 0, !.realized = 0]
  BY <1>1 DEF Outcome, AskAt
<1>3. b \in Account /\ b.cash = a.cash /\ b.reserved = a.reserved
      /\ b.qty = q /\ b.cost = c /\ b.held = 0 /\ b.realized = 0
  <2>1. PICK x : x = [a EXCEPT !.qty = q]
    OBVIOUS
  <2>2. PICK y : y = [x EXCEPT !.cost = c]
    OBVIOUS
  <2>3. PICK z : z = [y EXCEPT !.held = 0]
    OBVIOUS
  <2>4. b = [z EXCEPT !.realized = 0]
    BY <1>2, <2>1, <2>2, <2>3
  <2>5. /\ x \in Account /\ x.qty = q /\ x.cash = a.cash /\ x.reserved = a.reserved
    BY <2>1, FieldNames, OneField
  <2>6. /\ y \in Account /\ y.qty = q /\ y.cash = a.cash /\ y.reserved = a.reserved /\ y.cost = c
    BY <2>2, <2>5, FieldNames, OneField
  <2>7. /\ z \in Account /\ z.qty = q /\ z.cash = a.cash /\ z.reserved = a.reserved /\ z.cost = c
        /\ z.held = 0
    BY <2>3, <2>6, FieldNames, OneField
  <2> QED
    BY <2>4, <2>7, FieldNames, OneField
<1> QED
  BY <1>1, <1>3 DEF SeededIs

LEMMA SetCashIs ==
  ASSUME NEW a \in Account, NEW n \in Int, NEW b, b = Outcome(a, Ask("set_cash", n))
  PROVE  /\ b \in Account /\ b.cash = n /\ b.reserved = a.reserved
         /\ b.qty = a.qty /\ b.cost = a.cost /\ b.held = a.held /\ b.realized = a.realized
<1>1. b = [a EXCEPT !.cash = n]
  BY DEF Outcome, Ask
<1> QED
  BY <1>1, FieldNames DEF Account

LEMMA OpeningTypes ==
  ASSUME NEW o \in Opening
  PROVE  o.cash \in Int /\ o.qty \in Int /\ o.cost \in Int /\ (o.qty = 0 => o.cost = 0)
BY LedgerAssumption

\* An account after the deposit that opens it.
LEMMA DepositedIs ==
  ASSUME NEW n \in Int, NEW b, b = Do(EmptyAccount, Ask("deposit", n))
  PROVE  b \in Account /\ Balanced(b) /\ b.reserved = 0 /\ b.held = 0
<1>1. PICK x : x = EmptyAccount
  OBVIOUS
<1>2. x \in Account /\ Balanced(x) /\ x.reserved = 0 /\ x.held = 0
  BY <1>1, EmptyIs
<1>3. CASE ~Accepts(x, Ask("deposit", n))
  BY <1>1, <1>2, <1>3 DEF Do
<1>4. CASE Accepts(x, Ask("deposit", n))
  <2>1. PICK y : y = Outcome(x, Ask("deposit", n))
    OBVIOUS
  <2>2. b = y
    BY <1>1, <1>4, <2>1 DEF Do
  <2>3. /\ y \in Account /\ y.cash = x.cash + n /\ y.reserved = x.reserved
        /\ y.qty = x.qty /\ y.cost = x.cost /\ y.held = x.held
    BY <1>2, <2>1, DepositIs
  <2>4. n > 0
    BY <1>4 DEF Accepts, Ask, CashOps
  <2>5. /\ 0 <= x.cash /\ 0 <= x.reserved /\ x.reserved <= x.cash /\ 0 <= x.qty /\ 0 <= x.cost
        /\ 0 <= x.held /\ x.held <= x.qty /\ (x.qty = 0 => x.cost = 0)
    BY <1>2, BalancedIs
  <2>6. x.cash \in Int /\ x.reserved \in Int
    BY <1>2, FieldTypes
  <2>7. Balanced(y)
    BY <2>3, <2>4, <2>5, <2>6, BalancedIs
  <2> QED
    BY <1>2, <2>2, <2>3, <2>7
<1> QED
  BY <1>3, <1>4

\* The account ACCOUNT_OPEN leaves, from an account x.
OpenedAs(x, o) == Do(Do(x, AskAt("seed", o.qty, o.cost)), Ask("set_cash", o.cash))

LEMMA OpenedIs ==
  ASSUME NEW x \in Account, NEW o \in Opening, NEW z, z = OpenedAs(x, o)
  PROVE  /\ z \in Account
         /\ Balanced(x) /\ x.reserved = 0 /\ x.held = 0
            => Balanced(z) /\ z.reserved = 0 /\ z.held = 0
<1>1. PICK cash, q, c : cash = o.cash /\ q = o.qty /\ c = o.cost
  OBVIOUS
<1>2. cash \in Int /\ q \in Int /\ c \in Int /\ (q = 0 => c = 0)
  BY <1>1, OpeningTypes
<1>3. PICK y : y = Do(x, AskAt("seed", q, c))
  OBVIOUS
<1>4. z = Do(y, Ask("set_cash", cash))
  BY <1>1, <1>3 DEF OpenedAs
<1>5. PICK x2 : x2 = Outcome(x, AskAt("seed", q, c))
  OBVIOUS
<1>6. /\ x2 \in Account /\ x2.cash = x.cash /\ x2.reserved = x.reserved
      /\ x2.qty = q /\ x2.cost = c /\ x2.held = 0
  <2>1. SeededIs(x2, x, q, c)
    BY <1>2, <1>5, SeedIs
  <2> QED
    BY <2>1 DEF SeededIs
<1>7. y = x \/ (y = x2 /\ q >= 0 /\ c >= 0)
  <2>1. CASE Accepts(x, AskAt("seed", q, c))
    <3>1. q >= 0 /\ c >= 0
      BY <2>1 DEF Accepts, AskAt, CashOps
    <3> QED
      BY <1>3, <1>5, <2>1, <3>1 DEF Do
  <2>2. CASE ~Accepts(x, AskAt("seed", q, c))
    BY <1>3, <2>2 DEF Do
  <2> QED
    BY <2>1, <2>2
<1>8. y \in Account
  BY <1>6, <1>7
<1>9. PICK y2 : y2 = Outcome(y, Ask("set_cash", cash))
  OBVIOUS
<1>10. /\ y2 \in Account /\ y2.cash = cash /\ y2.reserved = y.reserved
       /\ y2.qty = y.qty /\ y2.cost = y.cost /\ y2.held = y.held
  BY <1>2, <1>8, <1>9, SetCashIs
<1>11. z = y \/ (z = y2 /\ cash >= 0 /\ cash >= y.reserved)
  <2>1. CASE Accepts(y, Ask("set_cash", cash))
    <3>1. cash >= 0 /\ cash >= y.reserved
      BY <2>1 DEF Accepts, Ask
    <3> QED
      BY <1>4, <1>9, <2>1, <3>1 DEF Do
  <2>2. CASE ~Accepts(y, Ask("set_cash", cash))
    BY <1>4, <2>2 DEF Do
  <2> QED
    BY <2>1, <2>2
<1>12. z \in Account
  BY <1>8, <1>10, <1>11
<1>13. ASSUME Balanced(x), x.reserved = 0, x.held = 0
       PROVE  Balanced(z) /\ z.reserved = 0 /\ z.held = 0
  <2>1. /\ 0 <= x.cash /\ 0 <= x.reserved /\ x.reserved <= x.cash /\ 0 <= x.qty /\ 0 <= x.cost
        /\ 0 <= x.held /\ x.held <= x.qty /\ (x.qty = 0 => x.cost = 0)
    BY <1>13, BalancedIs
  <2>2. x.cash \in Int /\ x.qty \in Int /\ x.cost \in Int
    BY FieldTypes
  <2>3. /\ 0 <= y.cash /\ 0 = y.reserved /\ 0 <= y.qty /\ 0 <= y.cost
        /\ 0 = y.held /\ (y.qty = 0 => y.cost = 0)
    BY <1>2, <1>6, <1>7, <1>13, <2>1, <2>2
  <2>4. y.cash \in Int /\ y.qty \in Int /\ y.cost \in Int
    BY <1>8, FieldTypes
  <2>5. /\ 0 <= z.cash /\ 0 = z.reserved /\ 0 <= z.qty /\ 0 <= z.cost
        /\ 0 = z.held /\ (z.qty = 0 => z.cost = 0)
    BY <1>2, <1>10, <1>11, <2>3, <2>4
  <2>6. z.cash \in Int /\ z.qty \in Int /\ z.cost \in Int
    BY <1>12, FieldTypes
  <2>7. Balanced(z)
    BY <1>12, <2>5, <2>6, BalancedIs
  <2> QED
    BY <2>5, <2>7
<1> QED
  BY <1>12, <1>13

\* Accounts that are balanced, and keep back what the orders account for, have
\* a base: whatever else they hold.
KeepsBack(ac, K, C) ==
  \A a \in Accounts : /\ Balanced(ac[a])
                      /\ ac[a].reserved = Part(Due(K, C, a, "reserved"), Slots)
                      /\ ac[a].held = Part(Due(K, C, a, "held"), Slots)

LEMMA DueSums ==
  ASSUME NEW K \in [Slots -> TermsRec], NEW C \in [Slots -> Claim], NEW a, NEW f \in Kept
  PROVE  Part(Due(K, C, a, f), Slots) \in Int
<1>1. \A u \in Slots : Due(K, C, a, f)[u] \in Int
  BY DueTypes
<1>2. IsFiniteSet(Slots)
  BY SlotsFinite
<1> QED
  BY <1>1, <1>2, PartType

LEMMA BaseExists ==
  ASSUME NEW ac, NEW K \in [Slots -> TermsRec], NEW C \in [Slots -> Claim], KeepsBack(ac, K, C)
  PROVE  \E base \in Base : Posted(ac, K, C, base)
<1>1. PICK P : P = [a \in Accounts |-> [f \in Kept |-> Part(Due(K, C, a, f), Slots)]]
  OBVIOUS
<1>2. \A a \in Accounts, f \in Kept : P[a][f] \in Int /\ P[a][f] = Part(Due(K, C, a, f), Slots)
  BY <1>1, DueSums
<1>3. \A a \in Accounts : /\ Balanced(ac[a]) /\ ac[a] \in Account
                          /\ ac[a].reserved = P[a]["reserved"] /\ ac[a].held = P[a]["held"]
  BY <1>2 DEF KeepsBack, Kept, Balanced
<1>4. \A a \in Accounts : /\ ac[a].cash \in Int /\ ac[a].qty \in Int /\ ac[a].cost \in Int
                          /\ ac[a].realized \in Int /\ ac[a].reserved \in Int /\ ac[a].held \in Int
  BY <1>3, FieldTypes
<1>5. PICK base : base = [a \in Accounts |->
        [reserved |-> 0, held |-> 0, cash |-> ac[a].cash - P[a]["cash"],
         qty |-> ac[a].qty - P[a]["qty"], worth |-> WorthOf(ac[a])]]
  OBVIOUS
<1>6. ASSUME NEW a \in Accounts
      PROVE  /\ base[a].reserved = 0 /\ base[a].held = 0 /\ base[a].cash = ac[a].cash - P[a]["cash"]
             /\ base[a].qty = ac[a].qty - P[a]["qty"] /\ base[a].worth = WorthOf(ac[a])
             /\ base[a] \in [reserved : {0}, held : {0}, cash : Int, qty : Int, worth : Int]
  <2>1. P[a]["cash"] \in Int /\ P[a]["qty"] \in Int
    BY <1>2 DEF Kept
  <2>2. ac[a].cash - P[a]["cash"] \in Int /\ ac[a].qty - P[a]["qty"] \in Int
    BY <1>4, <2>1
  <2>3. WorthOf(ac[a]) \in Int
    BY <1>4 DEF WorthOf
  <2> QED
    BY <1>5, <2>2, <2>3
<1>7. base \in Base
  <2>1. base = [a \in Accounts |-> base[a]]
    BY <1>5
  <2> QED
    BY <1>6, <2>1 DEF Base
<1>8. ASSUME NEW a \in Accounts, NEW f \in Kept
      PROVE  ac[a][f] = base[a][f] + Part(Due(K, C, a, f), Slots)
  <2>1. P[a][f] \in Int /\ P[a][f] = Part(Due(K, C, a, f), Slots)
    BY <1>2
  <2>2. PICK x : x = ac[a]
    OBVIOUS
  <2>3. CASE f = "reserved"
    <3>1. base[a][f] = 0 /\ ac[a][f] = P[a][f]
      BY <1>3, <1>6, <2>3
    <3> QED
      BY <2>1, <3>1
  <2>4. CASE f = "held"
    <3>1. base[a][f] = 0 /\ ac[a][f] = P[a][f]
      BY <1>3, <1>6, <2>4
    <3> QED
      BY <2>1, <3>1
  <2>5. CASE f = "cash"
    <3>1. base[a][f] = ac[a][f] - P[a][f] /\ ac[a][f] \in Int
      BY <1>4, <1>6, <2>5
    <3> QED
      BY <2>1, <3>1
  <2>6. CASE f = "qty"
    <3>1. base[a][f] = ac[a][f] - P[a][f] /\ ac[a][f] \in Int
      BY <1>4, <1>6, <2>6
    <3> QED
      BY <2>1, <3>1
  <2> QED
    BY <2>3, <2>4, <2>5, <2>6 DEF Kept
<1>9. Posted(ac, K, C, base)
  BY <1>3, <1>6, <1>8 DEF Posted
<1> QED
  BY <1>7, <1>9

\* And they keep it back in every state that agrees with the map.
LEMMA SettledKeepsBack ==
  ASSUME NEW ac, NEW os \in OrderMaps, NEW base, Settled(ac, os, base)
  PROVE  KeepsBack(ac, Terms(os), Claims(os, 0, NoClaim))
<1>1. PICK K, C : K = Terms(os) /\ C = Claims(os, 0, NoClaim)
  OBVIOUS
<1>2. K \in [Slots -> TermsRec]
  BY <1>1, TermsType
<1>3. C \in [Slots -> Claim]
  <2>1. 0 \notin Slots
    BY DEF Slots
  <2> QED
    BY <1>1, <2>1, ClaimsType
<1>4. base \in Base /\ Posted(ac, K, C, base)
  BY <1>1 DEF Settled
<1>5. ASSUME NEW a \in Accounts
      PROVE  /\ Balanced(ac[a])
             /\ ac[a].reserved = Part(Due(K, C, a, "reserved"), Slots)
             /\ ac[a].held = Part(Due(K, C, a, "held"), Slots)
  <2>1. base[a].reserved = 0 /\ base[a].held = 0
    BY <1>4 DEF Base
  <2>2. PICK n, h : n = Part(Due(K, C, a, "reserved"), Slots) /\ h = Part(Due(K, C, a, "held"), Slots)
    OBVIOUS
  <2>3. n \in Int /\ h \in Int
    BY <1>2, <1>3, <2>2, DueSums DEF Kept
  <2>4. ac[a]["reserved"] = base[a]["reserved"] + n /\ ac[a]["held"] = base[a]["held"] + h
    BY <1>4, <2>2 DEF Posted, Kept
  <2>5. Balanced(ac[a])
    BY <1>4 DEF Posted
  <2> QED
    BY <2>1, <2>2, <2>3, <2>4, <2>5
<1> QED
  BY <1>1, <1>5 DEF KeepsBack

\* An account none of whose orders has anything left.
Flat(os, a) == \A u : Listed(os, u) /\ os[u].acct = a => omap_remaining(os[u]) = 0

LEMMA FlatOwesNothing ==
  ASSUME NEW os \in OrderMaps, NEW a, Flat(os, a), NEW f \in {"reserved", "held"}
  PROVE  Part(Due(Terms(os), Claims(os, 0, NoClaim), a, f), Slots) = 0
<1>1. PICK K, C : K = Terms(os) /\ C = Claims(os, 0, NoClaim)
  OBVIOUS
<1>2. 0 \notin Slots
  BY DEF Slots
<1>3. K \in [Slots -> TermsRec]
  BY <1>1, TermsType
<1>4. C \in [Slots -> Claim]
  BY <1>1, <1>2, ClaimsType
<1>5. \A u \in Slots : Due(K, C, a, f)[u] = IF K[u].acct = a THEN Stake(K[u], C[u], f) ELSE 0
  BY <1>3, <1>4, DueTypes DEF Kept
<1>6. ASSUME NEW u \in Slots PROVE Due(K, C, a, f)[u] = 0
  <2>1. CASE K[u].acct # a
    BY <1>5, <2>1
  <2>2. CASE K[u].acct = a
    <3>1. C[u].left = 0
      <4>1. CASE Listed(os, u)
        <5>1. TermsOf(os[u]) = K[u] /\ u # 0
          BY <1>1, <1>2, <4>1, TermsType
        <5>2. os[u].acct = a
          BY <2>2, <5>1 DEF TermsOf
        <5>3. omap_remaining(os[u]) = 0
          BY <4>1, <5>2 DEF Flat
        <5>4. OrderOK(os[u])
          BY <4>1, OrderMapFacts
        <5>5. C[u] = ClaimOf(os[u])
          BY <1>1, <1>2, <4>1, <5>1, ClaimsType
        <5>6. ClaimOf(os[u]).left = omap_remaining(os[u])
          BY <5>4, ClaimOfType
        <5> QED
          BY <5>3, <5>5, <5>6
      <4>2. CASE ~Listed(os, u)
        <5>1. C[u] = NoClaim
          BY <1>1, <1>2, <4>2, ClaimsType
        <5> QED
          BY <5>1 DEF NoClaim
      <4> QED
        BY <4>1, <4>2
    <3>2. PICK k, c : k = K[u] /\ c = C[u]
      OBVIOUS
    <3>3. k \in TermsRec
      BY <1>3, <3>2
    <3>4. k.limit \in Nat
      BY <3>3, TermTypes
    <3>5. k.limit * 0 = 0
      BY <3>4
    <3>6. Stake(k, c, f) = 0
      BY <3>1, <3>2, <3>5 DEF Stake
    <3> QED
      BY <1>5, <2>2, <3>2, <3>6
  <2> QED
    BY <2>1, <2>2
<1>7. IsFiniteSet(Slots)
  BY SlotsFinite
<1>8. Part(Due(K, C, a, f), Slots) = 0
  BY <1>6, <1>7, PartZero
<1> QED
  BY <1>1, <1>8

\* An account with nothing at work can be opened again.
LEMMA OpenSettles ==
  ASSUME NEW ac, NEW os \in OrderMaps, NEW base, Settled(ac, os, base), NEW a \in Accounts,
         Flat(os, a), NEW z, Balanced(z), z.reserved = 0, z.held = 0,
         NEW ac2, OneAccount(ac2, ac, a, z)
  PROVE  \E base2 : Settled(ac2, os, base2)
<1>1. PICK K, C : K = Terms(os) /\ C = Claims(os, 0, NoClaim)
  OBVIOUS
<1>2. K \in [Slots -> TermsRec]
  BY <1>1, TermsType
<1>3. C \in [Slots -> Claim]
  <2>1. 0 \notin Slots
    BY DEF Slots
  <2> QED
    BY <1>1, <2>1, ClaimsType
<1>4. KeepsBack(ac, K, C)
  BY <1>1, SettledKeepsBack
<1>5. /\ Part(Due(K, C, a, "reserved"), Slots) = 0
      /\ Part(Due(K, C, a, "held"), Slots) = 0
  BY <1>1, FlatOwesNothing
<1>6. KeepsBack(ac2, K, C)
  BY <1>4, <1>5 DEF KeepsBack, OneAccount
<1>7. \E base2 \in Base : Posted(ac2, K, C, base2)
  BY <1>2, <1>3, <1>6, BaseExists
<1> QED
  BY <1>1, <1>7 DEF Settled

-----------------------------------------------------------------------------
(* The ledger between two messages.                                         *)

\* The inductive invariant, whatever the constants: the map is sound, every
\* book agrees with it, what works in a market was accepted there, and orders
\* are those of open accounts.
LedgerInv ==
  /\ acct \in [Accounts -> Account] /\ orders \in OrderMaps
  /\ book \in [Markets -> Seq(BookOrder)] /\ failed \in SUBSET Assertions
  /\ \A m \in Markets : Agree(orders, book[m], m, 0, 0)
  /\ Live(orders)
  /\ open \in SUBSET Accounts /\ \A u : Listed(orders, u) => orders[u].acct \in open
  /\ fed \in [Markets -> BOOLEAN] /\ issued \in [Markets -> 0..MaxSynth]
  /\ \A m \in Markets : Len(Seeds[m]) <= issued[m]
  /\ strategy \in Strategies /\ opens \in Nat

\* And where accounts are only opened with no order at work: the accounts agree
\* with the map, over some base, and no assertion has failed.
MoneyInv == failed = {} /\ \E base : Settled(acct, orders, base)

LEMMA NowIs ==
  /\ Now.acct = acct /\ Now.orders = orders /\ Now.book = book /\ Now.failed = failed
  /\ Now.refused = 0 /\ Now.filled = 0 /\ Now.canceled = 0
BY DEF Now

LEMMA NowWhole ==
  ASSUME LedgerInv
  PROVE  Whole(Now)
<1>1. Now \in HandlerState
  BY DEF LedgerInv, Now, HandlerState
<1>2. Now.orders = orders /\ Now.book = book
  BY NowIs
<1> QED
  BY <1>1, <1>2 DEF LedgerInv, Whole

\* What a step does that opens no account: a handler runs, and takes an order of
\* an open account or none.
Handles(t) ==
  /\ Become(t) /\ Handled(t, Now)
  /\ \/ Len(t.orders) = Len(orders)
     \/ \E a \in open : OrderTaken(t, Now, a)
HandledStep == open' = open /\ opens' = opens /\ \E t : Handles(t)

LEMMA SubmitStep ==
  ASSUME LedgerInv, NEW a \in Accounts, SubmitOrder(a)
  PROVE  HandledStep
<1>0. PICK r \in Requests : \E plan :
        /\ Admitted(a, r) /\ plan_validate(plan, r.qty)
        /\ Become(Answered(exec_submit([Reserved(a, r) EXCEPT !.orders = Append(@, Registered(a, r, plan))],
                                       Len(orders) + 1, r.type, plan),
                           Len(orders) + 1))
        /\ open' = open /\ opens' = opens
  BY DEF SubmitOrder
<1>1. PICK plan :
        /\ Admitted(a, r) /\ plan_validate(plan, r.qty)
        /\ Become(Answered(exec_submit([Reserved(a, r) EXCEPT !.orders = Append(@, Registered(a, r, plan))],
                                       Len(orders) + 1, r.type, plan),
                           Len(orders) + 1))
        /\ open' = open /\ opens' = opens
  BY <1>0
<1>2. PICK z, t, id, x :
        /\ z = Reserved(a, r) /\ t = [z EXCEPT !.orders = Append(@, Registered(a, r, plan))]
        /\ id = Len(orders) + 1 /\ x = Answered(exec_submit(t, id, r.type, plan), id)
  OBVIOUS
<1>3. Become(x)
  BY <1>1, <1>2
<1>4. PICK s : s = Now
  OBVIOUS
<1>5. /\ Whole(s) /\ s.refused = 0 /\ s.filled = 0 /\ s.canceled = 0
      /\ s.acct = acct /\ s.orders = orders
  BY <1>4, NowWhole, NowIs
<1>6. /\ a \in open /\ Len(s.orders) < OrderCap /\ Accepts(s.acct[a], Reservation(r))
      /\ z = AcctCall(s, a, Reservation(r)) /\ id = Len(s.orders) + 1
  BY <1>1, <1>2, <1>4, <1>5 DEF Admitted, Reserved
<1>7. OrderTaken(x, s, a)
  BY <1>1, <1>2, <1>5, <1>6, SubmitTaken
<1>8. Handled(x, s)
  BY <1>7 DEF OrderTaken
<1>9. Handles(x)
  BY <1>3, <1>4, <1>6, <1>7, <1>8 DEF Handles
<1> QED
  BY <1>1, <1>9 DEF HandledStep

LEMMA NowhereStep ==
  ASSUME LedgerInv, NEW a \in Accounts, SubmitNowhere(a)
  PROVE  HandledStep
<1>1. PICK r \in Requests :
        /\ Admitted(a, r)
        /\ Become(release_unused([Reserved(a, r) EXCEPT !.orders = Append(@, NoOrder)],
                                 [acct |-> a, side |-> r.side, limit |-> r.price], r.qty))
        /\ open' = open /\ opens' = opens
  BY DEF SubmitNowhere
<1>2. PICK z, t, x :
        /\ z = Reserved(a, r) /\ t = [z EXCEPT !.orders = Append(@, NoOrder)]
        /\ x = release_unused(t, [acct |-> a, side |-> r.side, limit |-> r.price], r.qty)
  OBVIOUS
<1>3. Become(x)
  BY <1>1, <1>2
<1>4. PICK s : s = Now
  OBVIOUS
<1>5. Whole(s) /\ s.acct = acct /\ s.orders = orders
  BY <1>4, NowWhole, NowIs
<1>6. /\ a \in open /\ Len(s.orders) < OrderCap /\ Accepts(s.acct[a], Reservation(r))
      /\ z = AcctCall(s, a, Reservation(r))
  BY <1>1, <1>2, <1>4, <1>5 DEF Admitted, Reserved
<1>7. OrderTaken(x, s, a)
  BY <1>2, <1>5, <1>6, NowhereTaken
<1>8. Handled(x, s)
  BY <1>7 DEF OrderTaken
<1>9. Handles(x)
  BY <1>3, <1>4, <1>6, <1>7, <1>8 DEF Handles
<1> QED
  BY <1>1, <1>9 DEF HandledStep

LEMMA CancelStep ==
  ASSUME LedgerInv, NEW id \in Ids, CancelOrder(id)
  PROVE  HandledStep
<1>1. /\ IsOrder(orders[id]) /\ open' = open /\ opens' = opens
      /\ Become(release_unused(exec_cancel(Now, id), orders[id], exec_cancel(Now, id).canceled))
  BY DEF CancelOrder
<1>2. PICK s : s = Now
  OBVIOUS
<1>3. Whole(s) /\ s.orders = orders /\ s.canceled = 0
  BY <1>2, NowWhole, NowIs
<1>4. PICK e, x : e = exec_cancel(s, id) /\ x = release_unused(e, s.orders[id], e.canceled)
  OBVIOUS
<1>5. Become(x)
  BY <1>1, <1>2, <1>3, <1>4
<1>6. Listed(s.orders, id)
  BY <1>1, <1>3 DEF Listed, Ids
<1>7. Handled(x, s) /\ Len(x.orders) = Len(s.orders)
  BY <1>3, <1>4, <1>6, CancelHandled
<1>8. Handles(x)
  BY <1>2, <1>3, <1>5, <1>7 DEF Handles
<1> QED
  BY <1>1, <1>8 DEF HandledStep

\* A step that only follows.
LEMMA FollowsHandles ==
  ASSUME LedgerInv, NEW t, Follows(t, Now), Become(t), open' = open, opens' = opens
  PROVE  HandledStep
<1>1. PICK s : s = Now
  OBVIOUS
<1>2. Whole(s) /\ s.orders = orders /\ Follows(t, s)
  BY <1>1, NowWhole, NowIs
<1>3. Handled(t, s) /\ Len(t.orders) = Len(s.orders)
  BY <1>2, FollowsHandled
<1>4. Handles(t)
  BY <1>1, <1>2, <1>3 DEF Handles
<1> QED
  BY <1>4 DEF HandledStep

LEMMA TickStep ==
  ASSUME LedgerInv, NEW m \in Markets, Tick(m)
  PROVE  HandledStep
<1>1. PICK n, k, s, z : n = issued[m] + 1 /\ k = Len(Seeds[m]) /\ s = Now
                        /\ z = [s EXCEPT !.book[m] = match_cancel(@, -(n - k)).book]
  OBVIOUS
<1>2. PICK side \in Side, price \in Band[m], qty \in SynthSizes :
        /\ Become(Foreign(z, m, -n, side, price, qty)) /\ open' = open /\ opens' = opens
  BY <1>1 DEF Tick
<1>3. n \in Nat /\ k \in Nat /\ k <= n
  <2>1. issued[m] \in Nat /\ Len(Seeds[m]) <= issued[m]
    BY DEF LedgerInv
  <2>2. Seeds[m] \in Seq(BookOrder)
    BY LedgerAssumption
  <2>3. Len(Seeds[m]) \in Nat
    BY <2>2
  <2> QED
    BY <1>1, <2>1, <2>3
<1>4. PICK old, owner : old = -(n - k) /\ owner = -n
  OBVIOUS
<1>5. old \in Int /\ old <= 0 /\ owner \in Int /\ owner <= 0
  BY <1>3, <1>4
<1>6. PICK t : t = Foreign(z, m, owner, side, price, qty)
  OBVIOUS
<1>7. Whole(s)
  BY <1>1, NowWhole
<1>8. qty \in Nat
  BY LedgerAssumption
<1>9. z = [s EXCEPT !.book[m] = match_cancel(s.book[m], old).book]
  BY <1>1, <1>4
<1>10. Follows(t, s)
  BY <1>5, <1>6, <1>7, <1>8, <1>9, TickFollows
<1>11. Become(t)
  BY <1>2, <1>4, <1>6
<1> QED
  BY <1>1, <1>2, <1>10, <1>11, FollowsHandles

LEMMA FeedStep ==
  ASSUME LedgerInv, NEW m \in Markets, NEW feed \in Feeds, ApplyFeed(m, feed)
  PROVE  HandledStep
<1>1. PICK s, z, t : /\ s = Now /\ z = [s EXCEPT !.book[m] = Shrunk(@, feed)]
                     /\ t = Insert(Insert(z, m, "buy", feed.buy), m, "sell", feed.sell)
  OBVIOUS
<1>2. Become(t) /\ open' = open /\ opens' = opens
  BY <1>1 DEF ApplyFeed
<1>3. Whole(s)
  BY <1>1, NowWhole
<1>4. z = [s EXCEPT !.book[m] = Shrunk(s.book[m], feed)]
  BY <1>1
<1>5. Follows(t, s)
  BY <1>1, <1>3, <1>4, FeedFollows
<1> QED
  BY <1>1, <1>2, <1>5, FollowsHandles

LEMMA EndFeedStep ==
  ASSUME LedgerInv, NEW m \in Markets, EndFeed(m)
  PROVE  HandledStep
<1>1. PICK s : s = Now
  OBVIOUS
<1>2. Follows(s, s)
  BY <1>1, NowWhole, FollowsItself
<1>3. Become(s) /\ open' = open /\ opens' = opens
  BY <1>1, NowIs DEF EndFeed, Become
<1> QED
  BY <1>1, <1>2, <1>3, FollowsHandles

LEMMA IdleStep ==
  ASSUME LedgerInv, UNCHANGED vars
  PROVE  HandledStep
<1>1. PICK s : s = Now
  OBVIOUS
<1>2. Follows(s, s)
  BY <1>1, NowWhole, FollowsItself
<1>3. Become(s) /\ open' = open /\ opens' = opens
  BY <1>1, NowIs DEF vars, Become
<1> QED
  BY <1>1, <1>2, <1>3, FollowsHandles

\* Every step but ACCOUNT_OPEN.
LEMMA EveryStep ==
  ASSUME LedgerInv, [Next]_vars
  PROVE  HandledStep \/ \E a \in Accounts : OpenAccount(a)
<1>1. CASE UNCHANGED vars
  BY <1>1, IdleStep
<1>2. ASSUME NEW a \in Accounts, SubmitOrder(a) PROVE HandledStep
  BY <1>2, SubmitStep
<1>3. ASSUME NEW a \in Accounts, SubmitNowhere(a) PROVE HandledStep
  BY <1>3, NowhereStep
<1>4. ASSUME NEW id \in Ids, CancelOrder(id) PROVE HandledStep
  BY <1>4, CancelStep
<1>5. ASSUME NEW m \in Markets, Tick(m) PROVE HandledStep
  BY <1>5, TickStep
<1>6. ASSUME NEW m \in Markets, EndFeed(m) PROVE HandledStep
  BY <1>6, EndFeedStep
<1>7. ASSUME NEW m \in Markets, NEW f \in Feeds, ApplyFeed(m, f) PROVE HandledStep
  BY <1>7, FeedStep
<1> QED
  BY <1>1, <1>2, <1>3, <1>4, <1>5, <1>6, <1>7 DEF Next

\* What a handler leaves is as sound as what it found.
LEMMA HandledKeeps ==
  ASSUME LedgerInv, NEW t, Handles(t), open' = open
  PROVE  /\ acct' \in [Accounts -> Account] /\ orders' \in OrderMaps
         /\ book' \in [Markets -> Seq(BookOrder)] /\ failed' \in SUBSET Assertions
         /\ \A m \in Markets : Agree(orders', book'[m], m, 0, 0)
         /\ Live(orders') /\ Grown(orders', orders, 0)
         /\ \A u : Listed(orders', u) => orders'[u].acct \in open'
         /\ Len(orders) <= Len(orders')
<1>1. PICK s : s = Now
  OBVIOUS
<1>2. Whole(s) /\ s.orders = orders
  BY <1>1, NowWhole, NowIs
<1>3. /\ Whole(t) /\ Grown(t.orders, orders, 0) /\ Live(t.orders) /\ Len(orders) <= Len(t.orders)
  BY <1>1, <1>2 DEF Handles, Handled, LedgerInv
<1>4. acct' = t.acct /\ orders' = t.orders /\ book' = t.book /\ failed' = t.failed
  BY DEF Handles, Become
<1>5. /\ t.acct \in [Accounts -> Account] /\ t.orders \in OrderMaps
      /\ t.book \in [Markets -> Seq(BookOrder)] /\ t.failed \in SUBSET Assertions
      /\ \A m \in Markets : Agree(t.orders, t.book[m], m, 0, 0)
  BY <1>3, StateFields DEF Whole
<1>6. PICK os, os2 : os = orders /\ os2 = t.orders
  OBVIOUS
<1>7. os \in OrderMaps /\ os2 \in OrderMaps /\ Grown(os2, os, 0)
  BY <1>3, <1>5, <1>6 DEF LedgerInv
<1>8. /\ DOMAIN os = 1..Len(os) /\ DOMAIN os2 = 1..Len(os2) /\ Len(os) \in Nat /\ Len(os2) \in Nat
  BY <1>7, OrderMapFacts
<1>9. ASSUME NEW u, Listed(os2, u) PROVE os2[u].acct \in open
  <2>1. CASE u \in DOMAIN os
    <3>1. u # 0
      BY <1>8, <2>1
    <3>2. IsOrder(os[u]) /\ Grew(os2[u], os[u])
      BY <1>7, <1>9, <2>1, <3>1 DEF Grown, Listed
    <3>3. TermsOf(os2[u]) = TermsOf(os[u])
      BY <3>2 DEF Grew
    <3>4. os2[u].acct = os[u].acct
      BY <3>3, TermsFields
    <3>5. os[u].acct \in open
      BY <1>6, <2>1, <3>2 DEF LedgerInv, Listed
    <3> QED
      BY <3>4, <3>5
  <2>2. CASE u \notin DOMAIN os
    <3>1. Len(os2) # Len(os)
      BY <1>8, <1>9, <2>2 DEF Listed
    <3>2. PICK a \in open : OrderTaken(t, s, a)
      BY <1>1, <1>6, <3>1 DEF Handles
    <3>3. Len(os2) = Len(os) + 1 /\ (IsOrder(os2[Len(os2)]) => os2[Len(os2)].acct = a)
      BY <1>2, <1>6, <3>2 DEF OrderTaken
    <3>4. u = Len(os2)
      BY <1>8, <1>9, <2>2, <3>3 DEF Listed
    <3> QED
      BY <1>9, <3>3, <3>4 DEF Listed
  <2> QED
    BY <2>1, <2>2
<1> QED
  BY <1>3, <1>4, <1>5, <1>6, <1>9

\* The counters of the synthetic traders, and the strategy.
LEMMA MarketVars ==
  ASSUME LedgerInv, [Next]_vars
  PROVE  /\ fed' \in [Markets -> BOOLEAN] /\ issued' \in [Markets -> 0..MaxSynth]
         /\ \A m \in Markets : Len(Seeds[m]) <= issued'[m]
         /\ strategy' \in Strategies
<1>1. /\ fed \in [Markets -> BOOLEAN] /\ issued \in [Markets -> 0..MaxSynth]
      /\ \A m \in Markets : Len(Seeds[m]) <= issued[m] /\ Len(Seeds[m]) \in Nat
      /\ strategy \in Strategies /\ MaxSynth \in Nat
  <2>1. ASSUME NEW m \in Markets PROVE Len(Seeds[m]) \in Nat
    <3>1. Seeds[m] \in Seq(BookOrder)
      BY LedgerAssumption
    <3> QED
      BY <3>1
  <2> QED
    BY <2>1, LedgerAssumption DEF LedgerInv
<1>2. strategy' = strategy
  BY DEF Next, vars
<1>3. CASE fed' = fed /\ issued' = issued
  BY <1>1, <1>2, <1>3
<1>4. ASSUME NEW m \in Markets, Tick(m)
      PROVE  fed' = fed /\ \A k \in Markets : Len(Seeds[k]) <= issued'[k]
             /\ issued' \in [Markets -> 0..MaxSynth]
  <2>1. issued' = [issued EXCEPT ![m] = @ + 1] /\ issued[m] < MaxSynth /\ fed' = fed
    BY <1>4 DEF Tick
  <2>2. issued[m] \in 0..MaxSynth
    BY <1>1
  <2>3. issued[m] + 1 \in 0..MaxSynth
    BY <1>1, <2>1, <2>2
  <2>4. issued' \in [Markets -> 0..MaxSynth]
    BY <1>1, <2>1, <2>3
  <2>5. ASSUME NEW k \in Markets PROVE Len(Seeds[k]) <= issued'[k]
    <3>1. CASE k = m
      <4>1. issued'[k] = issued[k] + 1
        BY <1>1, <2>1, <3>1
      <4>2. issued[k] \in 0..MaxSynth /\ Len(Seeds[k]) <= issued[k] /\ Len(Seeds[k]) \in Nat
        BY <1>1
      <4> QED
        BY <1>1, <4>1, <4>2
    <3>2. CASE k # m
      BY <1>1, <2>1, <3>2
    <3> QED
      BY <3>1, <3>2
  <2> QED
    BY <2>1, <2>4, <2>5
<1>5. ASSUME NEW m \in Markets, EndFeed(m) PROVE fed' \in [Markets -> BOOLEAN] /\ issued' = issued
  BY <1>1, <1>5 DEF EndFeed
<1>6. ASSUME NEW m \in Markets, NEW f \in Feeds, ApplyFeed(m, f)
      PROVE  fed' \in [Markets -> BOOLEAN] /\ issued' = issued
  BY <1>1, <1>6 DEF ApplyFeed
<1>7. ASSUME NEW a \in Accounts, SubmitOrder(a) \/ SubmitNowhere(a) \/ OpenAccount(a)
      PROVE  fed' = fed /\ issued' = issued
  BY <1>7 DEF SubmitOrder, SubmitNowhere, OpenAccount
<1>8. ASSUME NEW id \in Ids, CancelOrder(id) PROVE fed' = fed /\ issued' = issued
  BY <1>8 DEF CancelOrder
<1> QED
  BY <1>1, <1>2, <1>3, <1>4, <1>5, <1>6, <1>7, <1>8 DEF Next, vars

\* The account that ACCOUNT_OPEN leaves.
OpensAs(a, x, o) ==
  /\ x = IF a \in open THEN acct[a] ELSE Do(EmptyAccount, Ask("deposit", o.cash))
  /\ acct' = [acct EXCEPT ![a] = OpenedAs(x, o)]

LEMMA OpenStep ==
  ASSUME LedgerInv, NEW a \in Accounts, OpenAccount(a)
  PROVE  /\ \E x, o : /\ o \in Opening /\ x \in Account /\ OpensAs(a, x, o)
                      /\ a \notin open => Balanced(x) /\ x.reserved = 0 /\ x.held = 0
         /\ acct' \in [Accounts -> Account]
         /\ open' = open \cup {a} /\ opens' = opens + 1
         /\ orders' = orders /\ book' = book /\ failed' = failed
<1>1. PICK o \in Opening :
        acct' = [acct EXCEPT ![a] = OpenedAs(IF a \in open THEN acct[a]
                                             ELSE Do(EmptyAccount, Ask("deposit", o.cash)), o)]
  BY DEF OpenAccount, OpenedAs
<1>2. PICK x : x = IF a \in open THEN acct[a] ELSE Do(EmptyAccount, Ask("deposit", o.cash))
  OBVIOUS
<1>3. OpensAs(a, x, o)
  BY <1>1, <1>2 DEF OpensAs
<1>4. o.cash \in Int
  BY OpeningTypes
<1>5. ASSUME a \notin open PROVE x \in Account /\ Balanced(x) /\ x.reserved = 0 /\ x.held = 0
  <2>1. PICK n : n = o.cash
    OBVIOUS
  <2>2. x = Do(EmptyAccount, Ask("deposit", n)) /\ n \in Int
    BY <1>2, <1>4, <1>5, <2>1
  <2> QED
    BY <2>2, DepositedIs
<1>6. x \in Account
  BY <1>2, <1>5 DEF LedgerInv
<1>7. PICK z : z = OpenedAs(x, o)
  OBVIOUS
<1>8. z \in Account
  BY <1>6, <1>7, OpenedIs
<1>9. acct' \in [Accounts -> Account]
  BY <1>3, <1>7, <1>8 DEF OpensAs, LedgerInv
<1> QED
  BY <1>3, <1>5, <1>6, <1>9 DEF OpenAccount

-----------------------------------------------------------------------------
(* The invariants.                                                          *)

LEMMA NoOrders ==
  /\ << >> \in OrderMaps /\ Live(<< >>) /\ \A u : ~Listed(<< >>, u)
  /\ \A u, m : LeftOf(<< >>, u, m) = 0
<1>1. OrderCap \in Nat
  BY LedgerAssumption
<1>2. << >> \in Seq(OrderRec \cup {NoOrder}) /\ Len(<< >>) = 0 /\ DOMAIN << >> = {}
  OBVIOUS
<1>3. \A u : ~Listed(<< >>, u)
  BY <1>2 DEF Listed
<1>4. << >> \in OrderMaps
  BY <1>1, <1>2 DEF OrderMaps
<1> QED
  BY <1>3, <1>4 DEF Live, LeftOf

\* A market starts with a book that no order of the map has a part in.
LEMMA SeedsAgree ==
  ASSUME NEW m \in Markets
  PROVE  Agree(<< >>, Seeds[m], m, 0, 0)
<1>1. PICK b : b = Seeds[m]
  OBVIOUS
<1>2. /\ b \in Seq(BookOrder) /\ Len(b) <= PoolCap /\ NeverCrossed(b)
      /\ \A i \in DOMAIN b : b[i].owner <= 0 /\ Rem(b[i]) > 0
  BY <1>1, LedgerAssumption DEF SeedsOK
<1>3. \A i \in DOMAIN b : ~(b[i].owner > 0) /\ b[i].owner \in Int
  <2>1. ASSUME NEW i \in DOMAIN b PROVE b[i].owner \in Int
    <3>1. PICK S : S = BookOrder
      OBVIOUS
    <3>2. b[i] \in S
      BY <1>2, <3>1
    <3> QED
      BY <3>1, <3>2 DEF BookOrder
  <2> QED
    BY <1>2, <2>1
<1>4. BookOK(b)
  BY <1>2, <1>3 DEF BookOK
<1>5. ASSUME NEW u \in Nat \ {0} PROVE Rests(b, u, 0)
  BY <1>3 DEF Rests
<1>6. \A u \in Nat \ {0} : (IF u = 0 THEN 0 ELSE LeftOf(<< >>, u, m)) = 0
  BY NoOrders
<1>7. Agree(<< >>, b, m, 0, 0)
  BY <1>2, <1>3, <1>4, <1>5, <1>6 DEF Agree
<1> QED
  BY <1>1, <1>7

LEMMA FirstDeposit ==
  ASSUME NEW z, z = Do(EmptyAccount, Ask("deposit", FirstCash))
  PROVE  z \in Account /\ Balanced(z) /\ z.reserved = 0 /\ z.held = 0
<1>1. FirstCash \in Int
  BY LedgerAssumption
<1> QED
  BY <1>1, DepositedIs

LEMMA InitInv == Init => LedgerInv
<1> SUFFICES ASSUME Init PROVE LedgerInv
  OBVIOUS
<1>1. orders = << >> /\ book = Seeds /\ failed = {} /\ opens = 0 /\ open = {FirstAccount}
  BY DEF Init
<1>2. acct \in [Accounts -> Account]
  <2>1. PICK z : z = Do(EmptyAccount, Ask("deposit", FirstCash))
    OBVIOUS
  <2>2. acct = [a \in Accounts |-> IF a = FirstAccount THEN z ELSE EmptyAccount]
    BY <2>1 DEF Init
  <2>3. z \in Account /\ EmptyAccount \in Account
    BY <2>1, FirstDeposit, EmptyIs
  <2> QED
    BY <2>2, <2>3
<1>3. book \in [Markets -> Seq(BookOrder)]
  <2>1. Seeds \in [Markets -> Seq(BookOrder)]
    BY LedgerAssumption
  <2> QED
    BY <1>1, <2>1
<1>4. open \in SUBSET Accounts
  BY <1>1, LedgerAssumption
<1>5. fed \in [Markets -> BOOLEAN]
  BY DEF Init
<1>6. /\ issued \in [Markets -> 0..MaxSynth] /\ \A m \in Markets : Len(Seeds[m]) <= issued[m]
  <2>1. ASSUME NEW m \in Markets PROVE Len(Seeds[m]) \in 0..MaxSynth
    <3>1. Seeds[m] \in Seq(BookOrder) /\ Len(Seeds[m]) <= MaxSynth /\ MaxSynth \in Nat
      BY LedgerAssumption DEF SeedsOK
    <3>2. Len(Seeds[m]) \in Nat
      BY <3>1
    <3> QED
      BY <3>1, <3>2
  <2>2. issued = [m \in Markets |-> Len(Seeds[m])]
    BY DEF Init
  <2>3. ASSUME NEW m \in Markets PROVE Len(Seeds[m]) <= issued[m]
    BY <2>1, <2>2
  <2> QED
    BY <2>1, <2>2, <2>3
<1>7. strategy \in Strategies
  BY DEF Init
<1> QED
  BY <1>1, <1>2, <1>3, <1>4, <1>5, <1>6, <1>7, NoOrders, SeedsAgree DEF LedgerInv

LEMMA InvStep ==
  ASSUME LedgerInv, [Next]_vars
  PROVE  LedgerInv'
<1>1. /\ fed' \in [Markets -> BOOLEAN] /\ issued' \in [Markets -> 0..MaxSynth]
      /\ \A m \in Markets : Len(Seeds[m]) <= issued'[m]
      /\ strategy' \in Strategies
  BY MarketVars
<1>2. CASE HandledStep
  <2>1. PICK t : Handles(t) /\ open' = open /\ opens' = opens
    BY <1>2 DEF HandledStep
  <2>2. /\ acct' \in [Accounts -> Account] /\ orders' \in OrderMaps
        /\ book' \in [Markets -> Seq(BookOrder)] /\ failed' \in SUBSET Assertions
        /\ \A m \in Markets : Agree(orders', book'[m], m, 0, 0)
        /\ Live(orders') /\ \A u : Listed(orders', u) => orders'[u].acct \in open'
    BY <2>1, HandledKeeps
  <2>3. open' \in SUBSET Accounts /\ opens' \in Nat
    BY <2>1 DEF LedgerInv
  <2> QED
    BY <1>1, <2>2, <2>3 DEF LedgerInv
<1>3. ASSUME NEW a \in Accounts, OpenAccount(a) PROVE LedgerInv'
  <2>1. /\ acct' \in [Accounts -> Account] /\ open' = open \cup {a} /\ opens' = opens + 1
        /\ orders' = orders /\ book' = book /\ failed' = failed
    BY <1>3, OpenStep
  <2>2. open' \in SUBSET Accounts /\ opens' \in Nat
    BY <2>1 DEF LedgerInv
  <2>3. \A u : Listed(orders', u) => orders'[u].acct \in open'
    BY <2>1 DEF LedgerInv
  <2> QED
    BY <1>1, <2>1, <2>2, <2>3 DEF LedgerInv
<1> QED
  BY <1>2, <1>3, EveryStep

LEMMA Invariant == Spec => []LedgerInv
<1>1. LedgerInv /\ [Next]_vars => LedgerInv'
  BY InvStep
<1> QED
  BY <1>1, InitInv, PTL DEF Spec

\* A live leg is one with something left.
LEMMA NotLive ==
  ASSUME LedgerInv, NEW a, ~LiveOrderOf(a)
  PROVE  Flat(orders, a)
<1>1. PICK os : os = orders
  OBVIOUS
<1>2. os \in OrderMaps
  BY <1>1 DEF LedgerInv
<1>3. ASSUME NEW u, Listed(os, u), os[u].acct = a PROVE omap_remaining(os[u]) = 0
  <2>1. OrderOK(os[u])
    BY <1>2, <1>3, OrderMapFacts
  <2>2. ASSUME NEW m \in DOMAIN os[u].legs PROVE LegLeft(os[u].legs[m]) = 0
    <3>1. ~os[u].legs[m].live
      BY <1>1, <1>3 DEF LiveOrderOf, Ids, Listed
    <3>2. LegOK(os[u].legs[m])
      BY <2>1 DEF OrderOK, LegsOK
    <3>3. LegLeft(os[u].legs[m]) \in Nat
      BY <3>2, LegTypes
    <3>4. ~(LegLeft(os[u].legs[m]) > 0)
      BY <3>1, <3>2 DEF LegOK
    <3> QED
      BY <3>3, <3>4
  <2> QED
    BY <2>1, <2>2, OrderTotals
<1> QED
  BY <1>1, <1>3 DEF Flat

LEMMA MoneyInit == Init => MoneyInv
<1> SUFFICES ASSUME Init PROVE MoneyInv
  OBVIOUS
<1>1. orders = << >> /\ failed = {}
  BY DEF Init
<1>2. PICK z, ac : /\ z = Do(EmptyAccount, Ask("deposit", FirstCash))
                   /\ ac = [a \in Accounts |-> IF a = FirstAccount THEN z ELSE EmptyAccount]
  OBVIOUS
<1>3. acct = ac
  BY <1>2 DEF Init
<1>4. \A a \in Accounts : Balanced(ac[a]) /\ ac[a].reserved = 0 /\ ac[a].held = 0
  <2>1. Balanced(z) /\ z.reserved = 0 /\ z.held = 0
    BY <1>2, FirstDeposit
  <2>2. PICK y : y = EmptyAccount
    OBVIOUS
  <2>3. Balanced(y) /\ y.reserved = 0 /\ y.held = 0
    BY <2>2, EmptyIs
  <2> QED
    BY <1>2, <2>1, <2>2, <2>3
<1>5. PICK os, K, C : os = << >> /\ K = Terms(os) /\ C = Claims(os, 0, NoClaim)
  OBVIOUS
<1>6. os \in OrderMaps /\ \A a : Flat(os, a)
  BY <1>5, NoOrders DEF Flat
<1>7. K \in [Slots -> TermsRec]
  BY <1>5, <1>6, TermsType
<1>8. C \in [Slots -> Claim]
  <2>1. 0 \notin Slots
    BY DEF Slots
  <2> QED
    BY <1>5, <1>6, <2>1, ClaimsType
<1>9. ASSUME NEW a \in Accounts
      PROVE  /\ Part(Due(K, C, a, "reserved"), Slots) = 0
             /\ Part(Due(K, C, a, "held"), Slots) = 0
  <2>1. Flat(os, a)
    BY <1>6
  <2> QED
    BY <1>5, <1>6, <2>1, FlatOwesNothing
<1>10. KeepsBack(ac, K, C)
  BY <1>4, <1>9 DEF KeepsBack
<1>11. \E base \in Base : Posted(ac, K, C, base)
  BY <1>7, <1>8, <1>10, BaseExists
<1>12. \E base : Settled(ac, os, base)
  BY <1>5, <1>11 DEF Settled
<1> QED
  BY <1>1, <1>3, <1>5, <1>12 DEF MoneyInv

\* A handler moves money only as the map records it, over the base there was.
LEMMA HandledSettles ==
  ASSUME LedgerInv, NEW t, Handles(t), NEW base, Settled(acct, orders, base)
  PROVE  failed' = failed /\ Settled(acct', orders', base)
<1>1. PICK s : s = Now
  OBVIOUS
<1>2. s.acct = acct /\ s.orders = orders /\ s.failed = failed
  BY <1>1, NowIs
<1>3. Handled(t, s)
  BY <1>1 DEF Handles
<1>4. t.failed = s.failed /\ Settled(t.acct, t.orders, base)
  BY <1>2, <1>3 DEF Handled
<1> QED
  BY <1>2, <1>4 DEF Handles, Become

LEMMA MoneyStep ==
  ASSUME LedgerInv, MoneyInv, OpenWhenFlat, [Next]_vars
  PROVE  MoneyInv'
<1>1. PICK base : Settled(acct, orders, base)
  BY DEF MoneyInv
<1>2. CASE HandledStep
  <2>1. PICK t : Handles(t)
    BY <1>2 DEF HandledStep
  <2>2. failed' = failed /\ Settled(acct', orders', base)
    BY <1>1, <2>1, HandledSettles
  <2> QED
    BY <2>2 DEF MoneyInv
<1>3. ASSUME NEW a \in Accounts, OpenAccount(a) PROVE MoneyInv'
  <2>1. PICK x, o : /\ o \in Opening /\ x \in Account /\ OpensAs(a, x, o)
                    /\ (a \notin open => Balanced(x) /\ x.reserved = 0 /\ x.held = 0)
    BY <1>3, OpenStep
  <2>2. failed' = failed /\ orders' = orders
    BY <1>3, OpenStep
  <2>3. PICK os, ac, z : os = orders /\ ac = acct /\ z = OpenedAs(x, o)
    OBVIOUS
  <2>4. os \in OrderMaps /\ ac \in [Accounts -> Account] /\ Settled(ac, os, base)
    BY <1>1, <2>3 DEF LedgerInv
  <2>5. Flat(os, a)
    <3>1. ~LiveOrderOf(a)
      BY <1>3 DEF OpenAccount
    <3> QED
      BY <2>3, <3>1, NotLive
  <2>6. Balanced(x) /\ x.reserved = 0 /\ x.held = 0
    <3>1. CASE a \in open
      <4>1. x = ac[a]
        BY <2>1, <2>3, <3>1 DEF OpensAs
      <4>2. KeepsBack(ac, Terms(os), Claims(os, 0, NoClaim))
        BY <2>4, SettledKeepsBack
      <4>3. /\ Part(Due(Terms(os), Claims(os, 0, NoClaim), a, "reserved"), Slots) = 0
            /\ Part(Due(Terms(os), Claims(os, 0, NoClaim), a, "held"), Slots) = 0
        BY <2>4, <2>5, FlatOwesNothing
      <4> QED
        BY <4>1, <4>2, <4>3 DEF KeepsBack
    <3>2. CASE a \notin open
      BY <2>1, <3>2
    <3> QED
      BY <3>1, <3>2
  <2>7. Balanced(z) /\ z.reserved = 0 /\ z.held = 0
    BY <2>1, <2>3, <2>6, OpenedIs
  <2>8. PICK ac2 : ac2 = acct'
    OBVIOUS
  <2>9. OneAccount(ac2, ac, a, z)
    <3>1. ac2 = [ac EXCEPT ![a] = z]
      BY <2>1, <2>3, <2>8 DEF OpensAs
    <3> QED
      BY <2>4, <3>1 DEF OneAccount
  <2>10. \E base2 : Settled(ac2, os, base2)
    BY <2>4, <2>5, <2>7, <2>9, OpenSettles
  <2> QED
    BY <2>2, <2>3, <2>8, <2>10 DEF MoneyInv
<1> QED
  BY <1>2, <1>3, EveryStep

LEMMA MoneyInvariant ==
  ASSUME OpenWhenFlat
  PROVE  Spec => []MoneyInv
<1>1. LedgerInv /\ MoneyInv /\ [Next]_vars => MoneyInv'
  BY MoneyStep
<1> QED
  BY <1>1, MoneyInit, Invariant, PTL DEF Spec

-----------------------------------------------------------------------------
(* What the accounts hold, order by order.                                  *)

Mine(os, a, side) == {u \in DOMAIN os : IsOrder(os[u]) /\ os[u].acct = a /\ os[u].side = side}

\* What the orders of an account on one side come to.
LeftSum(os, S)  == Part([u \in S |-> omap_remaining(os[u])], S)
CostSum(os, S)  == Part([u \in S |-> os[u].limit * omap_remaining(os[u])], S)
MoneySum(os, S)  == Part([u \in S |-> omap_notional(os[u])], S)
ShareSum(os, S) == Part([u \in S |-> omap_filled_qty(os[u])], S)

LEMMA PartNegated ==
  ASSUME NEW S, IsFiniteSet(S), NEW f, \A x \in S : f[x] \in Int,
         NEW g, \A x \in S : g[x] = 0 - f[x]
  PROVE  Part(g, S) = 0 - Part(f, S) /\ Part(f, S) \in Int
<1>1. PICK e : e = [x \in S |-> 0]
  OBVIOUS
<1>2. \A x \in S : f[x] \in Int /\ g[x] \in Int /\ e[x] = f[x] + g[x]
  BY <1>1
<1>3. Part(e, S) = Part(f, S) + Part(g, S)
  BY <1>2, PartPlus
<1>4. Part(e, S) = 0
  BY <1>1, PartZero
<1>5. Part(f, S) \in Int /\ Part(g, S) \in Int
  BY <1>2, PartType
<1> QED
  BY <1>3, <1>4, <1>5

LEMMA MineFacts ==
  ASSUME NEW os \in OrderMaps, NEW a, NEW side, NEW S, S = Mine(os, a, side)
  PROVE  /\ S \in SUBSET Slots /\ IsFiniteSet(S)
         /\ \A u \in S : /\ Listed(os, u) /\ OrderOK(os[u]) /\ os[u].acct = a /\ os[u].side = side
                         /\ u \in Slots /\ u # 0
                         /\ Terms(os)[u] = TermsOf(os[u])
                         /\ Claims(os, 0, NoClaim)[u] = ClaimOf(os[u])
<1>1. 0 \notin Slots
  BY DEF Slots
<1>2. ASSUME NEW u \in S
      PROVE  /\ Listed(os, u) /\ OrderOK(os[u]) /\ os[u].acct = a /\ os[u].side = side
             /\ u \in Slots /\ u # 0
             /\ Terms(os)[u] = TermsOf(os[u])
             /\ Claims(os, 0, NoClaim)[u] = ClaimOf(os[u])
  <2>1. Listed(os, u) /\ os[u].acct = a /\ os[u].side = side
    BY DEF Mine, Listed
  <2>2. OrderOK(os[u]) /\ u \in Slots
    BY <2>1, OrderMapFacts
  <2>3. u # 0
    BY <1>1, <2>2
  <2>4. Terms(os)[u] = TermsOf(os[u])
    BY <2>1, TermsType
  <2>5. Claims(os, 0, NoClaim)[u] = ClaimOf(os[u])
    BY <1>1, <2>1, <2>3, ClaimsType
  <2> QED
    BY <2>1, <2>2, <2>3, <2>4, <2>5
<1>3. S \in SUBSET Slots
  BY <1>2
<1>4. IsFiniteSet(S)
  BY <1>3, SlotsFinite, FS_Subset
<1> QED
  BY <1>2, <1>3, <1>4

\* A field of an account is what its buy orders and its sell orders account for.
LEMMA DueBySide ==
  ASSUME NEW os \in OrderMaps, NEW a, NEW f \in Kept,
         NEW B, B = Mine(os, a, "buy"), NEW S, S = Mine(os, a, "sell"), NEW g, NEW h,
         \A u \in B : g[u] = Stake(TermsOf(os[u]), ClaimOf(os[u]), f),
         \A u \in S : h[u] = Stake(TermsOf(os[u]), ClaimOf(os[u]), f)
  PROVE  /\ Part(Due(Terms(os), Claims(os, 0, NoClaim), a, f), Slots) = Part(g, B) + Part(h, S)
         /\ Part(g, B) \in Int /\ Part(h, S) \in Int
<1>1. PICK K, C : K = Terms(os) /\ C = Claims(os, 0, NoClaim)
  OBVIOUS
<1>2. 0 \notin Slots
  BY DEF Slots
<1>3. K \in [Slots -> TermsRec]
  BY <1>1, TermsType
<1>4. C \in [Slots -> Claim]
  BY <1>1, <1>2, ClaimsType
<1>5. PICK D : D = Due(K, C, a, f)
  OBVIOUS
<1>6. /\ \A u \in Slots : D[u] \in Int
      /\ \A u \in Slots : D[u] = IF K[u].acct = a THEN Stake(K[u], C[u], f) ELSE 0
  BY <1>3, <1>4, <1>5, DueTypes
<1>7. IsFiniteSet(Slots)
  BY SlotsFinite
<1>8. /\ B \in SUBSET Slots /\ S \in SUBSET Slots /\ IsFiniteSet(B) /\ IsFiniteSet(S)
  BY MineFacts
<1>9. ASSUME NEW u \in B PROVE D[u] = g[u] /\ u \notin S
  <2>1. /\ u \in Slots /\ K[u] = TermsOf(os[u]) /\ C[u] = ClaimOf(os[u]) /\ os[u].acct = a /\ os[u].side = "buy"
    BY <1>1, MineFacts
  <2>2. K[u].acct = a
    BY <2>1 DEF TermsOf
  <2>3. u \notin S
    <3>1. ASSUME u \in S PROVE FALSE
      <4>1. os[u].side = "sell"
        BY <3>1, MineFacts
      <4> QED
        BY <2>1, <4>1
    <3> QED
      BY <3>1
  <2> QED
    BY <1>6, <2>1, <2>2, <2>3
<1>10. ASSUME NEW u \in S PROVE D[u] = h[u]
  <2>1. /\ u \in Slots /\ K[u] = TermsOf(os[u]) /\ C[u] = ClaimOf(os[u]) /\ os[u].acct = a
    BY <1>1, MineFacts
  <2>2. K[u].acct = a
    BY <2>1 DEF TermsOf
  <2> QED
    BY <1>6, <2>1, <2>2
<1>11. ASSUME NEW u \in Slots, u \notin B, u \notin S PROVE D[u] = 0
  <2>1. CASE K[u].acct # a
    BY <1>6, <2>1
  <2>2. CASE K[u].acct = a
    <3>1. ~Listed(os, u)
      <4>1. ASSUME Listed(os, u) PROVE FALSE
        <5>1. OrderOK(os[u]) /\ K[u] = TermsOf(os[u])
          BY <1>1, <4>1, OrderMapFacts, TermsType
        <5>2. os[u].acct = a
          BY <2>2, <5>1 DEF TermsOf
        <5>3. os[u].side \in Side
          BY <5>1, OrderTypes DEF OrderOK
        <5>4. os[u].side = "buy" \/ os[u].side = "sell"
          BY <5>3 DEF Side
        <5> QED
          BY <1>11, <4>1, <5>2, <5>4 DEF Mine, Listed
      <4> QED
        BY <4>1
    <3>2. C[u] = NoClaim
      BY <1>1, <1>2, <3>1, ClaimsType
    <3>3. PICK k, c : k = K[u] /\ c = C[u]
      OBVIOUS
    <3>4. c.left = 0 /\ c.money = 0 /\ c.shares = 0
      BY <3>2, <3>3 DEF NoClaim
    <3>5. k.limit \in Nat
      BY <1>3, <3>3, TermTypes
    <3>6. k.limit * 0 = 0
      BY <3>5
    <3>7. Stake(k, c, f) = 0
      BY <3>4, <3>6 DEF Stake
    <3> QED
      BY <1>6, <2>2, <3>3, <3>7
  <2> QED
    BY <2>1, <2>2
<1>12. PICK Q : Q = Slots \ B
  OBVIOUS
<1>13. Part(D, Slots) = Part(D, B) + Part(D, Q) /\ Part(D, B) \in Int /\ Part(D, Q) \in Int
  BY <1>6, <1>7, <1>8, <1>12, PartOfPart, ZenonT(60)
<1>14. IsFiniteSet(Q)
  <2>1. Q \in SUBSET Slots
    BY <1>12
  <2> QED
    BY <1>7, <2>1, FS_Subset
<1>15. S \in SUBSET Q
  BY <1>8, <1>9, <1>12
<1>16. (\A u \in Q : D[u] \in Int) /\ (\A u \in Q \ S : D[u] = 0)
  BY <1>6, <1>11, <1>12
<1>17. Part(D, Q) = Part(D, S)
  BY <1>14, <1>15, <1>16, PartWithin
<1>18. \A u \in B : D[u] \in Int /\ D[u] = g[u]
  BY <1>6, <1>8, <1>9
<1>19. \A u \in S : D[u] \in Int /\ D[u] = h[u]
  BY <1>6, <1>8, <1>10
<1>20. Part(D, B) = Part(g, B)
  BY <1>8, <1>18, PartSame
<1>21. Part(D, S) = Part(h, S)
  BY <1>8, <1>19, PartSame
<1> QED
  BY <1>1, <1>5, <1>13, <1>17, <1>20, <1>21

\* What an order of either side accounts for.
LEMMA StakeOf ==
  ASSUME NEW lo, OrderOK(lo), NEW f \in Kept
  PROVE  /\ omap_remaining(lo) \in Nat /\ omap_notional(lo) \in Nat /\ omap_filled_qty(lo) \in Nat
         /\ lo.limit * omap_remaining(lo) \in Int
         /\ lo.side = "buy" => Stake(TermsOf(lo), ClaimOf(lo), f) =
              IF f = "reserved" THEN lo.limit * omap_remaining(lo)
              ELSE IF f = "held" THEN 0
              ELSE IF f = "cash" THEN 0 - omap_notional(lo)
              ELSE omap_filled_qty(lo)
         /\ lo.side = "sell" => Stake(TermsOf(lo), ClaimOf(lo), f) =
              IF f = "reserved" THEN 0
              ELSE IF f = "held" THEN omap_remaining(lo)
              ELSE IF f = "cash" THEN omap_notional(lo)
              ELSE 0 - omap_filled_qty(lo)
<1>1. PICK r, n, q, k, c : /\ r = omap_remaining(lo) /\ n = omap_notional(lo) /\ q = omap_filled_qty(lo)
                           /\ k = TermsOf(lo) /\ c = ClaimOf(lo)
  OBVIOUS
<1>2. r \in Nat /\ n \in Nat /\ q \in Nat
  BY <1>1, OrderTotals
<1>3. c.left = r /\ c.money = n /\ c.shares = q
  BY <1>1, ClaimOfType
<1>4. k.side = lo.side /\ k.limit = lo.limit
  BY <1>1 DEF TermsOf
<1>5. lo.limit \in Nat
  BY OrderTypes DEF OrderOK
<1>6. lo.limit * r \in Int
  BY <1>2, <1>5
<1>7. lo.side = "buy" => Stake(k, c, f) =
              IF f = "reserved" THEN lo.limit * r ELSE IF f = "held" THEN 0
              ELSE IF f = "cash" THEN 0 - n ELSE q
  BY <1>3, <1>4 DEF Stake
<1>8. lo.side = "sell" => Stake(k, c, f) =
              IF f = "reserved" THEN 0 ELSE IF f = "held" THEN r
              ELSE IF f = "cash" THEN n ELSE 0 - q
  BY <1>3, <1>4 DEF Stake
<1> QED
  BY <1>1, <1>2, <1>6, <1>7, <1>8

LEMMA ZeroSum ==
  ASSUME NEW S, IsFiniteSet(S), NEW g, g = [u \in S |-> 0]
  PROVE  Part(g, S) = 0
BY PartZero

\* An account holds its base and what its orders have come to.
Tallied(x, b, os, B, S) ==
  /\ Balanced(x) /\ WorthOf(x) = b.worth /\ b.cash \in Int /\ b.qty \in Int
  /\ MoneySum(os, B) \in Int /\ MoneySum(os, S) \in Int
  /\ ShareSum(os, B) \in Int /\ ShareSum(os, S) \in Int
  /\ x.reserved = CostSum(os, B) /\ x.held = LeftSum(os, S)
  /\ x.cash = b.cash - MoneySum(os, B) + MoneySum(os, S)
  /\ x.qty = b.qty + ShareSum(os, B) - ShareSum(os, S)

LEMMA Tallies ==
  ASSUME NEW ac, NEW os \in OrderMaps, NEW base, Settled(ac, os, base), NEW a \in Accounts
  PROVE  Tallied(ac[a], base[a], os, Mine(os, a, "buy"), Mine(os, a, "sell"))
<1>1. PICK B, S, K, C, x, b : /\ B = Mine(os, a, "buy") /\ S = Mine(os, a, "sell")
                              /\ K = Terms(os) /\ C = Claims(os, 0, NoClaim) /\ x = ac[a] /\ b = base[a]
  OBVIOUS
<1>2. /\ b.reserved = 0 /\ b.held = 0 /\ b.cash \in Int /\ b.qty \in Int
      /\ Balanced(x) /\ WorthOf(x) = b.worth
      /\ \A f \in Kept : x[f] = b[f] + Part(Due(K, C, a, f), Slots)
  BY <1>1 DEF Settled, Posted, Base
<1>3. IsFiniteSet(B) /\ IsFiniteSet(S)
  BY <1>1, MineFacts
<1>4. /\ \A u \in B : OrderOK(os[u]) /\ os[u].side = "buy"
      /\ \A u \in S : OrderOK(os[u]) /\ os[u].side = "sell"
  BY <1>1, MineFacts
<1>5. x.reserved = CostSum(os, B)
  <2>1. PICK g, h : g = [u \in B |-> os[u].limit * omap_remaining(os[u])] /\ h = [u \in S |-> 0]
    OBVIOUS
  <2>2. "reserved" \in Kept
    BY DEF Kept
  <2>3. \A u \in B : g[u] = Stake(TermsOf(os[u]), ClaimOf(os[u]), "reserved")
    BY <1>4, <2>1, <2>2, StakeOf
  <2>4. \A u \in S : h[u] = Stake(TermsOf(os[u]), ClaimOf(os[u]), "reserved")
    BY <1>4, <2>1, <2>2, StakeOf
  <2>5. /\ Part(Due(Terms(os), Claims(os, 0, NoClaim), a, "reserved"), Slots) = Part(g, B) + Part(h, S)
        /\ Part(g, B) \in Int
    <3>1. /\ "reserved" \in Kept /\ B = Mine(os, a, "buy") /\ S = Mine(os, a, "sell")
          /\ \A u \in B : g[u] = Stake(TermsOf(os[u]), ClaimOf(os[u]), "reserved")
          /\ \A u \in S : h[u] = Stake(TermsOf(os[u]), ClaimOf(os[u]), "reserved")
      BY <1>1, <2>2, <2>3, <2>4
    <3> QED
      BY <3>1, DueBySide
  <2>6. Part(h, S) = 0
    BY <1>3, <2>1, ZeroSum
  <2>7. x["reserved"] = b["reserved"] + Part(Due(K, C, a, "reserved"), Slots)
    BY <1>1, <1>2, <2>2
  <2>8. Part(g, B) = CostSum(os, B)
    BY <2>1 DEF CostSum
  <2> QED
    BY <1>1, <1>2, <2>5, <2>6, <2>7, <2>8
<1>6. x.held = LeftSum(os, S)
  <2>1. PICK g, h : g = [u \in B |-> 0] /\ h = [u \in S |-> omap_remaining(os[u])]
    OBVIOUS
  <2>2. "held" \in Kept
    BY DEF Kept
  <2>3. \A u \in B : g[u] = Stake(TermsOf(os[u]), ClaimOf(os[u]), "held")
    BY <1>4, <2>1, <2>2, StakeOf
  <2>4. \A u \in S : h[u] = Stake(TermsOf(os[u]), ClaimOf(os[u]), "held")
    BY <1>4, <2>1, <2>2, StakeOf
  <2>5. Part(Due(K, C, a, "held"), Slots) = Part(g, B) + Part(h, S) /\ Part(h, S) \in Int
    BY <1>1, <2>2, <2>3, <2>4, DueBySide
  <2>6. Part(g, B) = 0
    BY <1>3, <2>1, ZeroSum
  <2>7. x["held"] = b["held"] + Part(Due(K, C, a, "held"), Slots)
    BY <1>2, <2>2
  <2>8. Part(h, S) = LeftSum(os, S)
    BY <2>1 DEF LeftSum
  <2> QED
    BY <1>2, <2>5, <2>6, <2>7, <2>8
<1>7. /\ x.cash = b.cash - MoneySum(os, B) + MoneySum(os, S)
      /\ MoneySum(os, B) \in Int /\ MoneySum(os, S) \in Int
  <2>1. PICK g, g2, h : /\ g = [u \in B |-> omap_notional(os[u])] /\ g2 = [u \in B |-> 0 - omap_notional(os[u])]
                        /\ h = [u \in S |-> omap_notional(os[u])]
    OBVIOUS
  <2>2. "cash" \in Kept
    BY DEF Kept
  <2>3. \A u \in B : g2[u] = Stake(TermsOf(os[u]), ClaimOf(os[u]), "cash")
    BY <1>4, <2>1, <2>2, StakeOf
  <2>4. \A u \in S : h[u] = Stake(TermsOf(os[u]), ClaimOf(os[u]), "cash")
    BY <1>4, <2>1, <2>2, StakeOf
  <2>5. Part(Due(K, C, a, "cash"), Slots) = Part(g2, B) + Part(h, S) /\ Part(h, S) \in Int
    BY <1>1, <2>2, <2>3, <2>4, DueBySide
  <2>6. \A u \in B : g[u] \in Int /\ g2[u] = 0 - g[u]
    BY <1>4, <2>1, <2>2, StakeOf
  <2>7. Part(g2, B) = 0 - Part(g, B) /\ Part(g, B) \in Int
    BY <1>3, <2>6, PartNegated
  <2>8. x["cash"] = b["cash"] + Part(Due(K, C, a, "cash"), Slots)
    BY <1>2, <2>2
  <2>9. Part(g, B) = MoneySum(os, B) /\ Part(h, S) = MoneySum(os, S)
    BY <2>1 DEF MoneySum
  <2> QED
    BY <1>2, <2>5, <2>7, <2>8, <2>9
<1>8. /\ x.qty = b.qty + ShareSum(os, B) - ShareSum(os, S)
      /\ ShareSum(os, B) \in Int /\ ShareSum(os, S) \in Int
  <2>1. PICK g, h, h2 : /\ g = [u \in B |-> omap_filled_qty(os[u])]
                        /\ h = [u \in S |-> omap_filled_qty(os[u])]
                        /\ h2 = [u \in S |-> 0 - omap_filled_qty(os[u])]
    OBVIOUS
  <2>2. "qty" \in Kept
    BY DEF Kept
  <2>3. \A u \in B : g[u] = Stake(TermsOf(os[u]), ClaimOf(os[u]), "qty")
    BY <1>4, <2>1, <2>2, StakeOf
  <2>4. \A u \in S : h2[u] = Stake(TermsOf(os[u]), ClaimOf(os[u]), "qty")
    BY <1>4, <2>1, <2>2, StakeOf
  <2>5. Part(Due(K, C, a, "qty"), Slots) = Part(g, B) + Part(h2, S) /\ Part(g, B) \in Int
    BY <1>1, <2>2, <2>3, <2>4, DueBySide
  <2>6. \A u \in S : h[u] \in Int /\ h2[u] = 0 - h[u]
    BY <1>4, <2>1, <2>2, StakeOf
  <2>7. Part(h2, S) = 0 - Part(h, S) /\ Part(h, S) \in Int
    BY <1>3, <2>6, PartNegated
  <2>8. x["qty"] = b["qty"] + Part(Due(K, C, a, "qty"), Slots)
    BY <1>2, <2>2
  <2>9. Part(g, B) = ShareSum(os, B) /\ Part(h, S) = ShareSum(os, S)
    BY <2>1 DEF ShareSum
  <2> QED
    BY <1>2, <2>5, <2>7, <2>8, <2>9
<1>9. Tallied(x, b, os, B, S)
  BY <1>2, <1>5, <1>6, <1>7, <1>8 DEF Tallied
<1> QED
  BY <1>1, <1>9

\* The totals of the properties are sums over an account's orders.
LEMMA TotalsAre ==
  ASSUME NEW a, NEW side
  PROVE  /\ OrdersOf(a, side) = Mine(orders, a, side)
         /\ Total(OrdersOf(a, side), LAMBDA id : omap_remaining(orders[id]))
              = LeftSum(orders, Mine(orders, a, side))
         /\ Traded(a, side) = MoneySum(orders, Mine(orders, a, side))
         /\ Shares(a, side) = ShareSum(orders, Mine(orders, a, side))
<1>1. OrdersOf(a, side) = Mine(orders, a, side)
  BY DEF OrdersOf, Mine, Ids
<1>2. PICK S : S = Mine(orders, a, side)
  OBVIOUS
<1>3. Total(S, LAMBDA id : omap_remaining(orders[id])) = LeftSum(orders, S)
  BY DEF Total, LeftSum, Part, FoldFunction
<1>4. Total(S, LAMBDA id : omap_notional(orders[id])) = MoneySum(orders, S)
  BY DEF Total, MoneySum, Part, FoldFunction
<1>5. Total(S, LAMBDA id : omap_filled_qty(orders[id])) = ShareSum(orders, S)
  BY DEF Total, ShareSum, Part, FoldFunction
<1> QED
  BY <1>1, <1>2, <1>3, <1>4, <1>5 DEF Traded, Shares

LEMMA OpenReservedIs ==
  ASSUME NEW a
  PROVE  OpenReserved(a) = CostSum(orders, Mine(orders, a, "buy"))
<1>1. OrdersOf(a, "buy") = Mine(orders, a, "buy")
  BY TotalsAre
<1>2. PICK S : S = Mine(orders, a, "buy")
  OBVIOUS
<1>3. Total(S, LAMBDA id : orders[id].limit * omap_remaining(orders[id])) = CostSum(orders, S)
  BY DEF Total, CostSum, Part, FoldFunction
<1> QED
  BY <1>1, <1>2, <1>3 DEF OpenReserved

\* In every state, so in the next one.
TotalsRight ==
  \A a, side : /\ Traded(a, side) = MoneySum(orders, Mine(orders, a, side))
              /\ Shares(a, side) = ShareSum(orders, Mine(orders, a, side))
              /\ OpenReserved(a) = CostSum(orders, Mine(orders, a, "buy"))

LEMMA TotalsNext == TotalsRight'
<1>1. TotalsRight
  BY TotalsAre, OpenReservedIs DEF TotalsRight
<1> QED
  BY <1>1, PTL

LEMMA NextTotals ==
  ASSUME NEW a, NEW side
  PROVE  /\ Traded(a, side)' = MoneySum(orders', Mine(orders', a, side))
         /\ Shares(a, side)' = ShareSum(orders', Mine(orders', a, side))
         /\ OpenReserved(a)' = CostSum(orders', Mine(orders', a, "buy"))
BY TotalsNext DEF TotalsRight

\* What the map says of an order, the book of each of its markets says as well.
LEMMA LegInBook ==
  ASSUME LedgerInv, NEW id \in Ids, IsOrder(orders[id]), NEW m \in DOMAIN Legs(id)
  PROVE  IF Legs(id)[m].live
         THEN \E i \in DOMAIN book[m] :
                /\ InBook(id, m) = {i}
                /\ book[m][i].side = orders[id].side
                /\ book[m][i].price = orders[id].limit
                /\ Rem(book[m][i]) = LegLeft(Legs(id)[m])
         ELSE InBook(id, m) = {} /\ LegLeft(Legs(id)[m]) = 0
<1>1. PICK os, lo, l, b : os = orders /\ lo = os[id] /\ l = lo.legs[m] /\ b = book[m]
  OBVIOUS
<1>2. Legs(id) = lo.legs /\ Legs(id)[m] = l /\ orders[id] = lo
  BY <1>1 DEF Legs
<1>3. os \in OrderMaps /\ Listed(os, id)
  BY <1>1, <1>2 DEF LedgerInv, Ids, Listed
<1>4. OrderOK(lo) /\ id \in Nat \ {0}
  BY <1>1, <1>3, OrderMapFacts
<1>5. m \in Markets /\ LegOK(l)
  BY <1>1, <1>2, <1>4, OrderTypes DEF OrderOK, LegsOK
<1>6. Agree(os, b, m, 0, 0)
  BY <1>1, <1>5 DEF LedgerInv
<1>7. LeftOf(os, id, m) = LegLeft(l)
  BY <1>1, <1>2, <1>3 DEF LeftOf
<1>8. Rests(b, id, LegLeft(l))
  <2>1. \A u \in Nat \ {0} : Rests(b, u, IF u = 0 THEN 0 ELSE LeftOf(os, u, m))
    BY <1>6 DEF Agree
  <2>2. id # 0
    BY <1>4
  <2> QED
    BY <1>4, <1>7, <2>1, <2>2
<1>9. LegLeft(l) \in Nat /\ (l.live <=> LegLeft(l) > 0)
  <2>1. LegLeft(l) \in Nat
    BY <1>5, LegTypes
  <2>2. l.live <=> LegLeft(l) > 0
    BY <1>5 DEF LegOK
  <2> QED
    BY <2>1, <2>2
<1>10. InBook(id, m) = {i \in DOMAIN b : b[i].owner = id}
  BY <1>1 DEF InBook
<1>11. CASE l.live
  <2>1. PICK i \in DOMAIN b : b[i].owner = id /\ Rem(b[i]) = LegLeft(l)
    BY <1>8, <1>9, <1>11 DEF Rests
  <2>2. b[i].owner > 0
    BY <1>4, <2>1
  <2>3. b[i].side = lo.side /\ b[i].price = lo.limit
    BY <1>1, <1>6, <2>1, <2>2 DEF Agree
  <2>4. ASSUME NEW j \in DOMAIN b, b[j].owner = id PROVE j = i
    BY <1>6, <2>1, <2>2, <2>4 DEF Agree, BookOK
  <2>5. InBook(id, m) = {i}
    BY <1>10, <2>1, <2>4
  <2> QED
    BY <1>1, <1>2, <1>11, <2>1, <2>3, <2>5
<1>12. CASE ~l.live
  <2>1. LegLeft(l) = 0
    BY <1>9, <1>12
  <2>2. \A i \in DOMAIN b : b[i].owner # id
    BY <1>8, <2>1 DEF Rests
  <2>3. InBook(id, m) = {}
    BY <1>10, <2>2
  <2> QED
    BY <1>2, <1>12, <2>1, <2>3
<1> QED
  BY <1>11, <1>12

LEMMA BookInMap ==
  ASSUME LedgerInv, NEW m \in Markets
  PROVE  /\ \A i \in DOMAIN book[m] : IsUser(book[m][i].owner) =>
              /\ book[m][i].owner \in Ids /\ IsOrder(orders[book[m][i].owner])
              /\ m \in DOMAIN Legs(book[m][i].owner)
         /\ NeverCrossed(book[m]) /\ Len(book[m]) <= PoolCap
<1>1. PICK os, b : os = orders /\ b = book[m]
  OBVIOUS
<1>2. Agree(os, b, m, 0, 0)
  BY <1>1 DEF LedgerInv
<1>3. ASSUME NEW i \in DOMAIN b, IsUser(b[i].owner)
      PROVE  /\ b[i].owner \in Ids /\ IsOrder(orders[b[i].owner])
             /\ m \in DOMAIN Legs(b[i].owner)
  <2>1. b[i].owner > 0
    BY <1>3 DEF IsUser
  <2>2. Listed(os, b[i].owner) /\ m \in DOMAIN os[b[i].owner].legs
    BY <1>2, <2>1 DEF Agree
  <2> QED
    BY <1>1, <2>2 DEF Listed, Ids, Legs
<1>4. NeverCrossed(b) /\ Len(b) <= PoolCap
  BY <1>2 DEF Agree, BookOK
<1> QED
  BY <1>1, <1>3, <1>4

LEMMA TypesFollow ==
  ASSUME LedgerInv
  PROVE  TypeOK
<1>1. acct \in [Accounts -> Account] /\ open \subseteq Accounts /\ Len(orders) <= OrderCap
  BY OrderMapFacts DEF LedgerInv
<1>2. ASSUME NEW id \in Ids, IsOrder(orders[id])
      PROVE  /\ orders[id].acct \in open /\ orders[id].side \in Side
             /\ DOMAIN Legs(id) \subseteq Markets
  <2>1. PICK os : os = orders
    OBVIOUS
  <2>2. os \in OrderMaps /\ Listed(os, id) /\ os[id].acct \in open
    BY <1>2, <2>1 DEF LedgerInv, Listed, Ids
  <2>3. os[id] \in OrderRec
    BY <2>2, OrderMapFacts
  <2>4. os[id].side \in Side /\ DOMAIN os[id].legs \in SUBSET Markets
    BY <2>3, OrderTypes
  <2> QED
    BY <2>1, <2>2, <2>4 DEF Legs
<1>3. \A m \in Markets : Len(book[m]) <= PoolCap
  BY BookInMap
<1>4. /\ fed \in [Markets -> BOOLEAN] /\ issued \in [Markets -> 0..MaxSynth]
      /\ strategy \in Strategies /\ failed \subseteq Assertions
  BY DEF LedgerInv
<1> QED
  BY <1>1, <1>2, <1>3, <1>4 DEF TypeOK

\* An order of the map has nothing for the reconciliation to report.
LEMMA ReconFindsNothing ==
  ASSUME NEW lo, OrderOK(lo)
  PROVE  recon_order(lo) = {}
<1>1. ASSUME NEW m \in DOMAIN lo.legs
      PROVE  /\ ~(lo.legs[m].filled + lo.legs[m].canceled > lo.legs[m].sent)
             /\ ~(lo.legs[m].live /\ lo.legs[m].filled + lo.legs[m].canceled >= lo.legs[m].sent)
             /\ ~((lo.legs[m].filled = 0) # (lo.legs[m].notional = 0))
  <2>1. PICK l : l = lo.legs[m]
    OBVIOUS
  <2>2. LegOK(l)
    BY <2>1 DEF OrderOK, LegsOK
  <2>3. PICK s, f, c : s = l.sent /\ f = l.filled /\ c = l.canceled
    OBVIOUS
  <2>4. s \in Nat /\ f \in Nat /\ c \in Nat /\ LegLeft(l) = s - f - c /\ LegLeft(l) \in Nat
    BY <2>2, <2>3, LegTypes
  <2>5. ~(f + c > s) /\ (LegLeft(l) > 0 => ~(f + c >= s))
    BY <2>4
  <2>6. l.live => LegLeft(l) > 0
    BY <2>2 DEF LegOK
  <2>7. ~(l.live /\ f + c >= s)
    BY <2>5, <2>6
  <2>8. l.filled = 0 <=> l.notional = 0
    BY <2>2 DEF LegOK
  <2>9. ~((l.filled = 0) # (l.notional = 0))
    BY <2>8
  <2> QED
    BY <2>1, <2>3, <2>5, <2>7, <2>9
<1>2. FoldFunction(LAMBDA x, y : x + y, 0, [m \in DOMAIN lo.legs |-> lo.legs[m].sent]) = lo.qty
  BY DEF OrderOK, Over
<1> QED
  BY <1>1, <1>2 DEF recon_order

-----------------------------------------------------------------------------
(* The theorems.                                                            *)

\* Types hold: no sequence of messages gives an order to an account that was
\* never opened or a leg to a market that does not exist, and none takes a pool
\* or the order map past its capacity (account.c, order_pool.c, order_map.c).
THEOREM TypesHold == Spec => []TypeOK
<1>1. LedgerInv => TypeOK
  BY TypesFollow
<1> QED
  BY <1>1, Invariant, PTL

\* Whatever messages come, in whatever order, and however often accounts are
\* opened again: the order map and the books tell the same story (on_event,
\* exec_submit_via, cancel_order, apply_feed).
THEOREM MapAgrees == Spec => []MapAgreesWithBook
<1>1. ASSUME LedgerInv PROVE MapAgreesWithBook
  <2>1. ASSUME NEW id \in Ids, IsOrder(orders[id]), NEW m \in DOMAIN Legs(id)
        PROVE  IF Legs(id)[m].live
               THEN \E i \in DOMAIN book[m] :
                      /\ InBook(id, m) = {i}
                      /\ book[m][i].side = orders[id].side
                      /\ book[m][i].price = orders[id].limit
                      /\ Rem(book[m][i]) = LegLeft(Legs(id)[m])
               ELSE InBook(id, m) = {} /\ LegLeft(Legs(id)[m]) = 0
    BY <1>1, <2>1, LegInBook
  <2>2. \A m \in Markets :
          /\ \A i \in DOMAIN book[m] : IsUser(book[m][i].owner) =>
               /\ book[m][i].owner \in Ids /\ IsOrder(orders[book[m][i].owner])
               /\ m \in DOMAIN Legs(book[m][i].owner)
          /\ NeverCrossed(book[m])
    BY <1>1, BookInMap
  <2> QED
    BY <2>1, <2>2 DEF MapAgreesWithBook
<1>2. LedgerInv => MapAgreesWithBook
  BY <1>1
<1> QED
  BY <1>2, Invariant, PTL

\* Whatever messages come: the end-of-day reconciliation finds nothing to
\* report about any order of the map (core/src/recon.c, order_map.c), and
\* whatever the books have come to show, the strategy in use makes a plan of
\* every request that adds up to it (sor/src/strategy*.c).
THEOREM OrdersReconciled == Spec => []OrdersReconcile
<1>1. ASSUME LedgerInv PROVE OrdersAddUp
  <2>1. ASSUME NEW id \in Ids, IsOrder(orders[id]) PROVE recon_order(orders[id]) = {}
    <3>1. PICK os : os = orders
      OBVIOUS
    <3>2. os \in OrderMaps /\ Listed(os, id)
      BY <1>1, <2>1, <3>1 DEF LedgerInv, Listed, Ids
    <3>3. OrderOK(os[id])
      BY <3>2, OrderMapFacts
    <3> QED
      BY <3>1, <3>3, ReconFindsNothing
  <2> QED
    BY <2>1 DEF OrdersAddUp
<1>2. ASSUME LedgerInv PROVE PlansAddUp
  <2>1. ASSUME NEW r \in Requests, r.market = AnyMarket PROVE plan_validate(Route(r), r.qty)
    <3>1. PICK bs, s : bs = book /\ s = strategy
      OBVIOUS
    <3>2. RequestIs(r)
      BY LedgerAssumption DEF RequestIs
    <3>3. BooksAre(bs)
      BY <1>2, <3>1 DEF LedgerInv, Agree, BooksAre
    <3>4. s \in Strategy
      BY <1>2, <3>1, LedgerAssumption DEF LedgerInv
    <3>5. Route(r) = routing_plan(s, bs, r)
      BY <2>1, <3>1 DEF Route, AnyMarket, Nowhere
    <3> QED
      BY <3>2, <3>3, <3>4, <3>5, RoutingValid
  <2> QED
    BY <2>1 DEF PlansAddUp
<1>3. LedgerInv => OrdersReconcile
  BY <1>1, <1>2 DEF OrdersReconcile
<1> QED
  BY <1>3, Invariant, PTL

\* When no account is opened again under its live orders, nothing the code
\* asserts ever fails: no settlement, release or cancel, in whatever order they
\* come, asks for money or shares that are not reserved (settle_fill, on_event,
\* release_unused, cancel_order, exec_submit_via).
THEOREM AssertionsHold ==
  ASSUME OpenWhenFlat
  PROVE  Spec => []NoAssertFails
<1>1. MoneyInv => NoAssertFails
  BY DEF MoneyInv, NoAssertFails
<1> QED
  BY <1>1, MoneyInvariant, PTL

\* Under the same condition the shares held back are those of live sell orders
\* and both balance invariants of account.h hold, for every account.
THEOREM HeldIsForSells ==
  ASSUME OpenWhenFlat
  PROVE  Spec => []HeldBacksSells
<1>1. ASSUME LedgerInv, MoneyInv PROVE HeldBacksSells
  <2>1. PICK base, os : Settled(acct, os, base) /\ os = orders
    BY <1>1 DEF MoneyInv
  <2>2. ASSUME NEW a \in Accounts
        PROVE  /\ acct[a].held = Total(OrdersOf(a, "sell"), LAMBDA id : omap_remaining(orders[id]))
               /\ Sound(acct[a])
               /\ acct[a].qty = 0 => acct[a].cost = 0
    <3>1. PICK x, b, B, S : /\ x = acct[a] /\ b = base[a]
                            /\ B = Mine(os, a, "buy") /\ S = Mine(os, a, "sell")
      OBVIOUS
    <3>2. Tallied(x, b, os, B, S)
      <4>1. os \in OrderMaps
        BY <1>1, <2>1 DEF LedgerInv
      <4> QED
        BY <2>1, <3>1, <4>1, Tallies
    <3>3. x.held = LeftSum(os, S) /\ Balanced(x)
      BY <3>2 DEF Tallied
    <3>4. Total(OrdersOf(a, "sell"), LAMBDA id : omap_remaining(orders[id]))
            = LeftSum(orders, Mine(orders, a, "sell"))
      BY TotalsAre
    <3>5. Sound(x) /\ (x.qty = 0 => x.cost = 0)
      BY <3>3 DEF Balanced
    <3> QED
      BY <2>1, <3>1, <3>3, <3>4, <3>5
  <2> QED
    BY <2>2 DEF HeldBacksSells
<1>2. LedgerInv /\ MoneyInv => HeldBacksSells
  BY <1>1
<1> QED
  BY <1>2, Invariant, MoneyInvariant, PTL

-----------------------------------------------------------------------------
\* A step that opens no account, in money.
LEMMA StepReconciles ==
  ASSUME LedgerInv, LedgerInv', NEW base, Settled(acct, orders, base),
         Settled(acct', orders', base), NEW a \in Accounts
  PROVE  /\ recon_account(Interval(a)) = {}
         /\ acct'[a].qty - acct[a].qty =
              Shares(a, "buy")' - Shares(a, "buy") - (Shares(a, "sell")' - Shares(a, "sell"))
         /\ Worth(a)' = Worth(a)
<1>1. PICK os, os2, x, y, b : os = orders /\ os2 = orders' /\ x = acct[a] /\ y = acct'[a] /\ b = base[a]
  OBVIOUS
<1>2. PICK B, S, B2, S2 : /\ B = Mine(os, a, "buy") /\ S = Mine(os, a, "sell")
                          /\ B2 = Mine(os2, a, "buy") /\ S2 = Mine(os2, a, "sell")
  OBVIOUS
<1>3. os \in OrderMaps /\ os2 \in OrderMaps
  BY <1>1 DEF LedgerInv
<1>4. Tallied(x, b, os, B, S)
  BY <1>1, <1>2, <1>3, Tallies
<1>5. Tallied(y, b, os2, B2, S2)
  BY <1>1, <1>2, <1>3, Tallies
<1>6. PICK mb, ms, mb2, ms2, qb, qs, qb2, qs2, c2 :
        /\ mb = MoneySum(os, B) /\ ms = MoneySum(os, S) /\ mb2 = MoneySum(os2, B2) /\ ms2 = MoneySum(os2, S2)
        /\ qb = ShareSum(os, B) /\ qs = ShareSum(os, S) /\ qb2 = ShareSum(os2, B2) /\ qs2 = ShareSum(os2, S2)
        /\ c2 = CostSum(os2, B2)
  OBVIOUS
<1>7. /\ Traded(a, "buy") = mb /\ Traded(a, "sell") = ms /\ Shares(a, "buy") = qb /\ Shares(a, "sell") = qs
  BY <1>1, <1>2, <1>6, TotalsAre
<1>8. /\ Traded(a, "buy")' = mb2 /\ Traded(a, "sell")' = ms2
      /\ Shares(a, "buy")' = qb2 /\ Shares(a, "sell")' = qs2 /\ OpenReserved(a)' = c2
  BY <1>1, <1>2, <1>6, NextTotals
<1>9. /\ mb \in Int /\ ms \in Int /\ qb \in Int /\ qs \in Int /\ b.cash \in Int /\ b.qty \in Int
      /\ x.cash = b.cash - mb + ms /\ x.qty = b.qty + qb - qs /\ WorthOf(x) = b.worth
  BY <1>4, <1>6 DEF Tallied
<1>10. /\ mb2 \in Int /\ ms2 \in Int /\ qb2 \in Int /\ qs2 \in Int
       /\ y.cash = b.cash - mb2 + ms2 /\ y.qty = b.qty + qb2 - qs2 /\ WorthOf(y) = b.worth
       /\ y.reserved = c2 /\ Balanced(y)
  BY <1>5, <1>6 DEF Tallied
<1>11. y.cash \in Int /\ y.reserved \in Int /\ ~(y.reserved > y.cash)
  <2>1. y \in Account /\ y.reserved <= y.cash
    BY <1>10, BalancedIs
  <2> QED
    BY <2>1, FieldTypes
<1>12. Interval(a) = [cash_start |-> x.cash, deposits |-> 0, withdrawals |-> 0,
                      buy_notional |-> mb2 - mb, sell_notional |-> ms2 - ms,
                      cash_now |-> y.cash, reserved_now |-> y.reserved, open_reserved |-> c2]
  BY <1>1, <1>7, <1>8 DEF Interval
<1>13. recon_account(Interval(a)) = {}
  <2>1. PICK v : v = Interval(a)
    OBVIOUS
  <2>2. /\ v.cash_start = x.cash /\ v.deposits = 0 /\ v.withdrawals = 0 /\ v.buy_notional = mb2 - mb
        /\ v.sell_notional = ms2 - ms /\ v.cash_now = y.cash /\ v.reserved_now = y.reserved
        /\ v.open_reserved = c2
    BY <1>12, <2>1
  <2>3. PICK p, q, r : p = x.cash /\ q = y.cash /\ r = b.cash
    OBVIOUS
  <2>4. p + 0 - 0 - (mb2 - mb) + (ms2 - ms) = q
    BY <1>9, <1>10, <2>3
  <2>5. v.cash_start + v.deposits - v.withdrawals - v.buy_notional + v.sell_notional = v.cash_now
    BY <2>2, <2>3, <2>4
  <2>6. v.open_reserved = v.reserved_now /\ ~(v.reserved_now > v.cash_now)
    BY <1>10, <1>11, <2>2
  <2>7. recon_account(v) = {}
    BY <2>5, <2>6 DEF recon_account
  <2> QED
    BY <2>1, <2>7
<1>14. y.qty - x.qty = qb2 - qb - (qs2 - qs)
  <2>1. PICK p, q, r : p = x.qty /\ q = y.qty /\ r = b.qty
    OBVIOUS
  <2> QED
    BY <1>9, <1>10, <2>1
<1>15. Worth(a)' = Worth(a)
  <2>1. Worth(a) = WorthOf(x) /\ Worth(a)' = WorthOf(y)
    BY <1>1 DEF Worth, WorthOf
  <2> QED
    BY <1>9, <1>10, <2>1
<1> QED
  BY <1>1, <1>7, <1>8, <1>13, <1>14, <1>15

\* Under the same condition no message but ACCOUNT_OPEN leaves anything for the
\* reconciliation to report about any account: cash moves by exactly the money
\* its orders' fills are booked for, what stays reserved is the limit price of
\* what still works, and worth is neither made nor lost (settle_fill,
\* release_unused, core/src/recon.c).
THEOREM MoneyFollowsFills ==
  ASSUME OpenWhenFlat
  PROVE  Spec => SettledAsRecorded
<1>1. ASSUME LedgerInv, LedgerInv', MoneyInv, [Next]_vars, opens' = opens
      PROVE  \A a \in Accounts :
         /\ recon_account(Interval(a)) = {}
         /\ acct'[a].qty - acct[a].qty =
              Shares(a, "buy")' - Shares(a, "buy") - (Shares(a, "sell")' - Shares(a, "sell"))
         /\ Worth(a)' = Worth(a)
  <2>1. PICK base : Settled(acct, orders, base)
    BY <1>1 DEF MoneyInv
  <2>2. ~\E a \in Accounts : OpenAccount(a)
    <3>1. ASSUME NEW a \in Accounts, OpenAccount(a) PROVE FALSE
      <4>1. opens' = opens + 1 /\ opens \in Nat
        BY <1>1, <3>1 DEF OpenAccount, LedgerInv
      <4> QED
        BY <1>1, <4>1
    <3> QED
      BY <3>1
  <2>3. PICK t : Handles(t)
    BY <1>1, <2>2, EveryStep DEF HandledStep
  <2>4. Settled(acct', orders', base)
    BY <1>1, <2>1, <2>3, HandledSettles
  <2> QED
    BY <1>1, <2>1, <2>4, StepReconciles
<1>2. LedgerInv /\ LedgerInv' /\ MoneyInv /\ [Next]_vars =>
        [opens' = opens =>
           \A a \in Accounts :
             /\ recon_account(Interval(a)) = {}
             /\ acct'[a].qty - acct[a].qty =
                  Shares(a, "buy")' - Shares(a, "buy") - (Shares(a, "sell")' - Shares(a, "sell"))
             /\ Worth(a)' = Worth(a)]_vars
  BY <1>1
<1> QED
  BY <1>2, Invariant, MoneyInvariant, PTL DEF Spec, SettledAsRecorded

\* The status of an order that may fill and be cancelled only moves forward.
LEMMA StatusMoves ==
  ASSUME NEW lo, OrderOK(lo), NEW lo2, Grew(lo2, lo),
         \A m \in DOMAIN lo.legs : LegLeft(lo.legs[m]) > 0 => lo.legs[m].accepted
  PROVE  exec_status(lo2) \in Successors(exec_status(lo))
<1>1. PICK q, f, f2, r, r2 : /\ q = lo.qty /\ f = omap_filled_qty(lo) /\ f2 = omap_filled_qty(lo2)
                             /\ r = omap_remaining(lo) /\ r2 = omap_remaining(lo2)
  OBVIOUS
<1>2. OrderOK(lo2) /\ lo2.qty = q /\ f <= f2 /\ (r = 0 => lo2 = lo)
  BY <1>1 DEF Grew
<1>3. f \in Nat /\ f2 \in Nat /\ r \in Nat /\ r2 \in Nat /\ q \in Nat \ {0} /\ f <= q /\ (f >= q => r = 0)
  <2>1. PICK c : c = omap_canceled_qty(lo)
    OBVIOUS
  <2>2. f \in Nat /\ c \in Nat /\ r \in Nat /\ r = q - f - c
    BY <1>1, <2>1, OrderTotals
  <2>3. f2 \in Nat /\ r2 \in Nat
    BY <1>1, <1>2, OrderTotals
  <2>4. q \in Nat \ {0}
    BY <1>1, OrderTypes DEF OrderOK
  <2> QED
    BY <2>2, <2>3, <2>4
<1>4. PICK A, A2 : /\ A = (\E m \in DOMAIN lo.legs : lo.legs[m].accepted)
                   /\ A2 = (\E m \in DOMAIN lo2.legs : lo2.legs[m].accepted)
  OBVIOUS
<1>5. exec_status(lo) = IF f >= q THEN "filled" ELSE IF f > 0 THEN "partial"
                        ELSE IF r > 0 THEN "new" ELSE IF A THEN "canceled" ELSE "rejected"
  BY <1>1, <1>4 DEF exec_status
<1>6. exec_status(lo2) = IF f2 >= q THEN "filled" ELSE IF f2 > 0 THEN "partial"
                         ELSE IF r2 > 0 THEN "new" ELSE IF A2 THEN "canceled" ELSE "rejected"
  BY <1>1, <1>2, <1>4 DEF exec_status
<1>7. CASE r = 0
  <2>1. exec_status(lo2) = exec_status(lo)
    BY <1>2, <1>7
  <2>2. exec_status(lo) \in {"filled", "partial", "canceled", "rejected"}
    BY <1>5, <1>7
  <2> QED
    BY <2>1, <2>2 DEF Successors
<1>8. CASE r # 0 /\ f > 0
  <2>1. exec_status(lo) = "partial"
    BY <1>3, <1>5, <1>8
  <2>2. exec_status(lo2) \in {"partial", "filled"}
    BY <1>2, <1>3, <1>6, <1>8
  <2> QED
    BY <2>1, <2>2 DEF Successors
<1>9. CASE r # 0 /\ ~(f > 0)
  <2>1. exec_status(lo) = "new"
    BY <1>3, <1>5, <1>9
  <2>2. A2
    <3>1. PICK m \in DOMAIN lo.legs : LegLeft(lo.legs[m]) # 0
      BY <1>1, <1>9, OrderTotals
    <3>2. LegOK(lo.legs[m])
      BY DEF OrderOK, LegsOK
    <3>3. LegLeft(lo.legs[m]) > 0
      BY <3>1, <3>2, LegTypes
    <3>4. lo.legs[m].accepted
      BY <3>3
    <3>5. m \in DOMAIN lo2.legs /\ lo2.legs[m].accepted
      BY <3>4 DEF Grew
    <3> QED
      BY <1>4, <3>5
  <2>3. exec_status(lo2) \in {"new", "partial", "filled", "canceled"}
    BY <1>6, <2>2
  <2> QED
    BY <2>1, <2>3 DEF Successors
<1> QED
  BY <1>7, <1>8, <1>9

\* What was answered about an order stays true in a map that has grown.
LEMMA GrownAnswers ==
  ASSUME NEW os \in OrderMaps, Live(os), NEW os2, Grown(os2, os, 0), NEW u \in DOMAIN os, IsOrder(os[u])
  PROVE  /\ exec_status(os2[u]) \in Successors(exec_status(os[u]))
         /\ omap_remaining(os[u]) = 0 => os2[u] = os[u]
<1>1. Listed(os, u)
  BY DEF Listed
<1>2. OrderOK(os[u]) /\ u # 0
  BY <1>1, OrderMapFacts
<1>3. Grew(os2[u], os[u])
  BY <1>2 DEF Grown
<1>4. \A m \in DOMAIN os[u].legs : LegLeft(os[u].legs[m]) > 0 => os[u].legs[m].accepted
  BY <1>1 DEF Live
<1>5. exec_status(os2[u]) \in Successors(exec_status(os[u]))
  BY <1>2, <1>3, <1>4, StatusMoves
<1> QED
  BY <1>3, <1>5 DEF Grew

\* An order answered as refused has changed no account and no book.
LEMMA RefusedLeavesNothing ==
  ASSUME LedgerInv, NEW base, Settled(acct, orders, base), NEW t, Handles(t),
         NewOrder, exec_status(orders'[Len(orders')]) = "rejected"
  PROVE  acct' = acct /\ book' = book
<1>1. PICK s, os2 : s = Now /\ os2 = t.orders
  OBVIOUS
<1>2. s.acct = acct /\ s.orders = orders /\ s.book = book
  BY <1>1, NowIs
<1>3. acct' = t.acct /\ orders' = os2 /\ book' = t.book
  BY <1>1 DEF Handles, Become
<1>4. Len(os2) > Len(orders) /\ IsOrder(os2[Len(os2)]) /\ exec_status(os2[Len(os2)]) = "rejected"
  BY <1>3 DEF NewOrder
<1>5. PICK a \in open : OrderTaken(t, s, a)
  <2>1. Len(os2) # Len(orders)
    <3>1. Len(orders) \in Nat
      BY OrderMapFacts DEF LedgerInv
    <3> QED
      BY <1>4, <3>1
  <2> QED
    BY <1>1, <2>1 DEF Handles
<1>6. t.book = s.book /\ (\A b : Settled(s.acct, s.orders, b) => t.acct = s.acct)
  BY <1>1, <1>4, <1>5 DEF OrderTaken
<1>7. t.acct = s.acct
  BY <1>2, <1>6
<1> QED
  BY <1>2, <1>3, <1>6, <1>7

\* Under the same condition what a client was told stays true: an order
\* answered as refused left nothing behind, one with nothing left is never
\* touched again, and its status only moves forward (executor.h, exec_status).
THEOREM AnswersHold ==
  ASSUME OpenWhenFlat
  PROVE  Spec => AnswersStand
<1>1. ASSUME LedgerInv, MoneyInv, [Next]_vars
      PROVE  /\ NewOrder /\ exec_status(orders'[Len(orders')]) = "rejected" =>
                  acct' = acct /\ book' = book
             /\ \A id \in Ids : IsOrder(orders[id]) =>
                  /\ exec_status(orders'[id]) \in Successors(exec_status(orders[id]))
                  /\ omap_remaining(orders[id]) = 0 => orders'[id] = orders[id]
  <2>1. PICK base : Settled(acct, orders, base)
    BY <1>1 DEF MoneyInv
  <2>2. PICK os, os2 : os = orders /\ os2 = orders'
    OBVIOUS
  <2>3. os \in OrderMaps /\ Live(os) /\ Ids = DOMAIN os /\ Len(os) \in Nat
    BY <1>1, <2>2, OrderMapFacts DEF LedgerInv, Ids
  <2>4. CASE HandledStep
    <3>1. PICK t : Handles(t) /\ open' = open
      BY <2>4 DEF HandledStep
    <3>2. Grown(os2, os, 0)
      BY <1>1, <2>2, <3>1, HandledKeeps
    <3>3. NewOrder /\ exec_status(orders'[Len(orders')]) = "rejected" => acct' = acct /\ book' = book
      BY <1>1, <2>1, <3>1, RefusedLeavesNothing
    <3>4. \A id \in DOMAIN os : IsOrder(os[id]) =>
            /\ exec_status(os2[id]) \in Successors(exec_status(os[id]))
            /\ omap_remaining(os[id]) = 0 => os2[id] = os[id]
      BY <2>3, <3>2, GrownAnswers
    <3> QED
      BY <2>2, <2>3, <3>3, <3>4
  <2>5. ASSUME NEW a \in Accounts, OpenAccount(a)
        PROVE  ~NewOrder /\ os2 = os
    <3>1. orders' = orders
      BY <1>1, <2>5, OpenStep
    <3> QED
      BY <2>2, <2>3, <3>1 DEF NewOrder
  <2>6. \A id \in DOMAIN os : IsOrder(os[id]) => exec_status(os[id]) \in Successors(exec_status(os[id]))
    <3>1. Grown(os, os, 0)
      BY <2>3, GrownNothing
    <3> QED
      BY <2>3, <3>1, GrownAnswers
  <2> QED
    BY <1>1, <2>2, <2>3, <2>4, <2>5, <2>6, EveryStep
<1>2. LedgerInv /\ MoneyInv /\ [Next]_vars =>
        [/\ NewOrder /\ exec_status(orders'[Len(orders')]) = "rejected" =>
              acct' = acct /\ book' = book
         /\ \A id \in Ids : IsOrder(orders[id]) =>
              /\ exec_status(orders'[id]) \in Successors(exec_status(orders[id]))
              /\ omap_remaining(orders[id]) = 0 => orders'[id] = orders[id]]_vars
  BY <1>1
<1> QED
  BY <1>2, Invariant, MoneyInvariant, PTL DEF Spec, AnswersStand

-----------------------------------------------------------------------------
(* A resting order only moves up in its queue.                              *)

\* Where owner u rests in b, and the shares in front of him there.
PlaceIn(b, u) == CHOOSE i \in {i \in DOMAIN b : b[i].owner = u} : TRUE
FrontOf(b, u) == Queued(b, PlaceIn(b, u))

LEMMA FrontTotal ==
  ASSUME NEW b, IsFiniteSet(DOMAIN b), \A k \in DOMAIN b : Rem(b[k]) \in Int, NEW i
  PROVE  Total(InFront(b, i), LAMBDA k : Rem(b[k])) = Queued(b, i)
<1> DEFINE S == InFront(b, i)
<1> DEFINE g == [k \in S |-> Rem(b[k])]
<1>1. Total(S, LAMBDA k : Rem(b[k])) = Part(g, S)
  BY DEF Total, Part, FoldFunction
<1>2. S \subseteq DOMAIN b /\ IsFiniteSet(S)
  <2>1. S \subseteq DOMAIN b
    BY DEF InFront
  <2> QED
    BY <2>1, FS_Subset
<1>3. \A k \in S : g[k] \in Int /\ g[k] = RemsOf(b)[k]
  BY <1>2 DEF RemsOf
<1>4. Part(g, S) = Part(RemsOf(b), S)
  <2> HIDE DEF S, g
  <2> QED
    BY <1>2, <1>3, PartSame
<1> QED
  BY <1>1, <1>4 DEF Queued

LEMMA AheadIs ==
  ASSUME NEW b, NEW u, BookOK(b), NEW i, i = PlaceIn(b, u)
  PROVE  AheadOf(b, i) = FrontOf(b, u)
<1>1. b \in Seq(BookOrder)
  BY DEF BookOK
<1>2. IsFiniteSet(DOMAIN b) /\ \A k \in DOMAIN b : Rem(b[k]) \in Int
  BY <1>1, RemsType
<1>3. Total(InFront(b, i), LAMBDA k : Rem(b[k])) = Queued(b, i)
  BY <1>2, FrontTotal
<1>4. InFront(b, i) = {k \in DOMAIN b : k < i /\ b[k].side = b[i].side /\ b[k].price = b[i].price}
  BY DEF InFront
<1>5. AheadOf(b, i) = Queued(b, i)
  BY <1>3, <1>4 DEF AheadOf
<1> QED
  BY <1>5 DEF FrontOf

LEMMA FrontShrinks ==
  ASSUME NEW b, NEW c, NEW u, NEW n, BookOK(b), BookOK(c), Onward(c, b, n), u > 0, u # n,
         \E i \in DOMAIN b : b[i].owner = u, \E i \in DOMAIN c : c[i].owner = u
  PROVE  FrontOf(c, u) <= FrontOf(b, u)
<1>1. PICK i : i = PlaceIn(c, u)
  OBVIOUS
<1>2. PICK k : k = PlaceIn(b, u)
  OBVIOUS
<1>3. i \in DOMAIN c /\ c[i].owner = u /\ k \in DOMAIN b /\ b[k].owner = u
  BY <1>1, <1>2 DEF PlaceIn
<1>4. Stood(c, i, b)
  BY <1>3 DEF Onward
<1>5. PICK j \in DOMAIN b : c[i].owner = b[j].owner /\ Queued(c, i) <= Queued(b, j)
  BY <1>4 DEF Stood
<1>6. j = k
  BY <1>3, <1>5 DEF BookOK
<1> QED
  BY <1>1, <1>2, <1>5, <1>6 DEF FrontOf

LEMMA AheadNow ==
  ASSUME LedgerInv, NEW id \in Ids, NEW m \in Markets
  PROVE  Ahead(id, m) = FrontOf(book[m], id)
<1>1. PICK b : b = book[m]
  OBVIOUS
<1>2. PICK i : i = PlaceIn(b, id)
  OBVIOUS
<1>3. BookOK(b)
  BY <1>1 DEF LedgerInv, Agree
<1>4. AheadOf(b, i) = FrontOf(b, id)
  BY <1>2, <1>3, AheadIs
<1>5. i = CHOOSE k \in InBook(id, m) : TRUE
  BY <1>1, <1>2 DEF PlaceIn, InBook
<1> QED
  BY <1>1, <1>4, <1>5 DEF Ahead

LEMMA AheadNext ==
  ASSUME NEW id, NEW m, BookOK(book'[m])
  PROVE  Ahead(id, m)' = FrontOf(book'[m], id)
<1>1. PICK b : b = book'[m]
  OBVIOUS
<1>2. PICK i : i = PlaceIn(b, id)
  OBVIOUS
<1>3. BookOK(b)
  BY <1>1
<1>4. AheadOf(b, i) = FrontOf(b, id)
  BY <1>2, <1>3, AheadIs
<1>5. i = CHOOSE k \in InBook(id, m)' : TRUE
  BY <1>1, <1>2 DEF PlaceIn, InBook
<1>6. Ahead(id, m)' = AheadOf(b, i)
  BY <1>1, <1>5 DEF Ahead
<1> QED
  BY <1>1, <1>4, <1>6

\* An order that rests in a book and still does after a step waits behind no
\* more shares than before: a match takes from the front (match_limit), a
\* cancel and the feed's shrinking take out without moving the rest
\* (match_cancel, feed_shrink), and what the feed, the traders and a new order
\* put in joins the back of its price (ledger_core_apply_feed, book_insert).
THEOREM QueueKept == Spec => PlaceInQueueKept
<1>1. ASSUME LedgerInv, [Next]_vars, NEW id \in Ids, NEW m \in Markets,
             InBook(id, m) # {}, InBook(id, m)' # {}
      PROVE  Ahead(id, m)' <= Ahead(id, m)
  <2>1. PICK b, c, n : b = book[m] /\ c = book'[m] /\ n = Len(orders) + 1
    OBVIOUS
  <2>2. id \in Nat /\ id > 0 /\ id # n
    BY <1>1, <2>1, OrderMapFacts DEF LedgerInv, Ids
  <2>3. (\E i \in DOMAIN b : b[i].owner = id) /\ (\E i \in DOMAIN c : c[i].owner = id)
    BY <1>1, <2>1 DEF InBook
  <2>4. BookOK(b)
    BY <1>1, <2>1 DEF LedgerInv, Agree
  <2>5. BookOK(c) /\ Onward(c, b, n)
    <3>1. CASE HandledStep
      <4>1. PICK t : Handles(t) /\ open' = open
        BY <3>1 DEF HandledStep
      <4>2. BookOK(c)
        <5>1. \A k \in Markets : Agree(orders', book'[k], k, 0, 0)
          BY <1>1, <4>1, HandledKeeps
        <5> QED
          BY <2>1, <5>1 DEF Agree
      <4>3. PICK s : s = Now
        OBVIOUS
      <4>4. s.book = book /\ s.orders = orders /\ book' = t.book
        BY <4>1, <4>3, NowIs DEF Handles, Become
      <4>5. BooksOnward(t, s, Len(s.orders) + 1)
        BY <4>1, <4>3 DEF Handles, Handled
      <4> QED
        BY <2>1, <4>2, <4>4, <4>5 DEF BooksOnward
    <3>2. ASSUME NEW a \in Accounts, OpenAccount(a)
          PROVE  BookOK(c) /\ Onward(c, b, n)
      <4>1. c = b
        BY <1>1, <2>1, <3>2, OpenStep
      <4>2. Onward(b, b, n)
        BY <2>4, ComesFromItself, OnwardFrom DEF BookOK
      <4> QED
        BY <2>4, <4>1, <4>2
    <3> QED
      BY <1>1, <3>1, <3>2, EveryStep
  <2>6. FrontOf(c, id) <= FrontOf(b, id)
    BY <2>2, <2>3, <2>4, <2>5, FrontShrinks
  <2>7. Ahead(id, m) = FrontOf(b, id)
    BY <1>1, <2>1, AheadNow
  <2>8. Ahead(id, m)' = FrontOf(c, id)
    BY <2>1, <2>5, AheadNext
  <2> QED
    BY <2>6, <2>7, <2>8
<1>2. LedgerInv /\ [Next]_vars =>
        [\A id \in Ids, m \in Markets :
           InBook(id, m) # {} /\ InBook(id, m)' # {} => Ahead(id, m)' <= Ahead(id, m)]_vars
  BY <1>1
<1> QED
  BY <1>2, Invariant, PTL DEF Spec, PlaceInQueueKept

=============================================================================
