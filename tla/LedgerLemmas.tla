---------------------------- MODULE LedgerLemmas ----------------------------
(***************************************************************************)
(* What the operators the ledger is built from do, for every book, every   *)
(* order, every account and every map. The engine's and the handlers'      *)
(* loops are folds, so the first two sections are about folds and sums,    *)
(* whatever is folded or added up. Then come the book and the sweep of one *)
(* order through it; the orders of the map and the operations on accounts; *)
(* what an order still has a claim to; and one fill, and the fills of one  *)
(* order, told to the map and the accounts.                                *)
(***************************************************************************)
EXTENDS LedgerProperties, FiniteSetTheorems, SequenceTheorems, WellFoundedInduction, TLAPS

-----------------------------------------------------------------------------
(* Folds.                                                                   *)

\* A set of subsets of a finite set that holds {} and every subset all of whose
\* own subsets with one element less it holds, holds them all.
LEMMA SubsetInduction ==
  ASSUME NEW S, IsFiniteSet(S), NEW Good,
         \A s \in SUBSET S : (\A x \in s : s \ {x} \in Good) => s \in Good
  PROVE  \A s \in SUBSET S : s \in Good
<1> DEFINE Bad == {s \in SUBSET S : s \notin Good}
           R == StrictSubsetOrdering(S)
<1>1. IsWellFoundedOn(R, SUBSET S)
  BY FS_StrictSubsetOrderingWellFounded, FS_FiniteSubsetsOfFinite
<1>2. SUFFICES ASSUME Bad # {} PROVE FALSE
  OBVIOUS
<1>3. PICK s \in Bad : \A t \in Bad : ~(<<t, s>> \in R)
  <2>1. Bad \subseteq SUBSET S
    OBVIOUS
  <2> HIDE DEF Bad, R
  <2> QED
    BY <1>1, <1>2, <2>1, WFMin
<1>4. ASSUME NEW x \in s PROVE s \ {x} \in Good
  <2>1. s \ {x} \in SUBSET S /\ s \ {x} \subseteq s /\ s \ {x} # s
    BY <1>3
  <2>2. <<s \ {x}, s>> \in R
    BY <2>1, <1>3 DEF StrictSubsetOrdering
  <2> QED
    BY <2>1, <2>2, <1>3
<1> QED
  BY <1>3, <1>4

\* What a fold computes one element at a time, for the elements of s.
FoldsTo(g, S, pick, F, base) ==
  g = [s \in SUBSET S |-> IF s = {} THEN base ELSE F[pick[s]][g[s \ {pick[s]}]]]

LEMMA FoldTypes ==
  ASSUME NEW S, IsFiniteSet(S), NEW pick, \A s \in SUBSET S : s # {} => pick[s] \in s,
         NEW g, NEW T, g[{}] \in T[{}],
         \A s \in SUBSET S : s # {} /\ g[s \ {pick[s]}] \in T[s \ {pick[s]}] => g[s] \in T[s]
  PROVE  \A s \in SUBSET S : g[s] \in T[s]
<1> DEFINE Good == {s \in SUBSET S : g[s] \in T[s]}
<1>1. ASSUME NEW s \in SUBSET S, \A x \in s : s \ {x} \in Good PROVE s \in Good
  <2>1. CASE s = {}
    BY <2>1
  <2>2. CASE s # {}
    BY <1>1, <2>2
  <2> QED
    BY <2>1, <2>2
<1>2. \A s \in SUBSET S : s \in Good
  <2> HIDE DEF Good
  <2> QED
    BY <1>1, SubsetInduction
<1> QED
  BY <1>2

LEMMA FoldRuns ==
  ASSUME NEW S, IsFiniteSet(S), NEW pick, \A s \in SUBSET S : s # {} => pick[s] \in s,
         NEW F, NEW T, NEW base \in T[{}],
         \A s \in SUBSET S : s # {} => \A t \in T[s \ {pick[s]}] : F[pick[s]][t] \in T[s]
  PROVE  \E g : FoldsTo(g, S, pick, F, base) /\ \A s \in SUBSET S : g[s] \in T[s]
<1> DEFINE Upto(k) == {s \in SUBSET S : Cardinality(s) <= k}
           Runs(g, k) == /\ g = [s \in Upto(k) |-> IF s = {} THEN base
                                                   ELSE F[pick[s]][g[s \ {pick[s]}]]]
                         /\ \A s \in Upto(k) : g[s] \in T[s]
           P(k) == \E g : Runs(g, k)
<1>1. \A s \in SUBSET S : IsFiniteSet(s) /\ Cardinality(s) \in Nat
  BY FS_Subset, FS_CardinalityType
<1>2. P(0)
  <2>1. \A s \in Upto(0) : s = {}
    BY <1>1, FS_EmptySet
  <2>2. {} \in Upto(0)
    BY FS_EmptySet
  <2>3. Runs([s \in Upto(0) |-> base], 0)
    BY <2>1, <2>2
  <2> QED
    BY <2>3
<1>3. ASSUME NEW k \in Nat, P(k) PROVE P(k + 1)
  <2>1. PICK g : Runs(g, k)
    BY <1>3
  <2> DEFINE h == [s \in Upto(k + 1) |-> IF s \in Upto(k) THEN g[s]
                                         ELSE F[pick[s]][g[s \ {pick[s]}]]]
  <2>2. ASSUME NEW s \in Upto(k + 1), s # {}
        PROVE  s \ {pick[s]} \in Upto(k) /\ pick[s] \in s
    <3>1. pick[s] \in s /\ IsFiniteSet(s)
      BY <1>1, <2>2
    <3>2. Cardinality(s \ {pick[s]}) = Cardinality(s) - 1
      BY <3>1, FS_RemoveElement
    <3> QED
      BY <1>1, <3>1, <3>2
  <2>3. Upto(k) \subseteq Upto(k + 1)
    BY <1>1
  <2>4. ASSUME NEW s \in Upto(k + 1), s # {}
        PROVE  h[s] = F[pick[s]][h[s \ {pick[s]}]] /\ h[s] \in T[s]
    <3>1. h[s \ {pick[s]}] = g[s \ {pick[s]}] /\ g[s \ {pick[s]}] \in T[s \ {pick[s]}]
      BY <2>1, <2>2, <2>3, <2>4
    <3>2. CASE s \in Upto(k)
      BY <2>1, <2>4, <3>1, <3>2
    <3>3. CASE s \notin Upto(k)
      BY <2>4, <3>1, <3>3
    <3> QED
      BY <3>2, <3>3
  <2>5. {} \in Upto(k) /\ g[{}] = base
    BY <2>1, FS_EmptySet
  <2>6. h[{}] = base
    BY <2>3, <2>5
  <2>7. h = [s \in Upto(k + 1) |-> IF s = {} THEN base ELSE F[pick[s]][h[s \ {pick[s]}]]]
    <3>1. h = [s \in Upto(k + 1) |-> h[s]]
      OBVIOUS
    <3>2. \A s \in Upto(k + 1) : h[s] = IF s = {} THEN base ELSE F[pick[s]][h[s \ {pick[s]}]]
      BY <2>4, <2>6
    <3> HIDE DEF h, Upto
    <3> QED
      BY <3>1, <3>2
  <2>8. \A s \in Upto(k + 1) : h[s] \in T[s]
    BY <2>4, <2>6
  <2> HIDE DEF h, Upto
  <2> QED
    BY <2>7, <2>8
<1>4. \A k \in Nat : P(k)
  <2> DEFINE Bad == {k \in Nat : ~P(k)}
             R == {p \in Nat \X Nat : p[1] < p[2]}
  <2>1. SUFFICES ASSUME Bad # {} PROVE FALSE
    OBVIOUS
  <2>2. IsWellFoundedOn(R, Nat)
    BY NatLessThanWellFounded, Zenon DEF OpToRel
  <2>3. PICK k \in Bad : \A j \in Bad : ~(<<j, k>> \in R)
    <3>1. Bad \subseteq Nat
      OBVIOUS
    <3> HIDE DEF Bad, R
    <3> QED
      BY <2>1, <2>2, <3>1, WFMin
  <2> HIDE DEF P
  <2>4. k \in Nat /\ ~P(k)
    BY <2>3
  <2>5. k # 0
    BY <1>2, <2>4
  <2>6. k - 1 \in Nat /\ k - 1 < k
    BY <2>4, <2>5
  <2>7. P(k - 1)
    BY <2>3, <2>4, <2>6
  <2>8. P((k - 1) + 1)
    BY <1>3, <2>6, <2>7
  <2>9. (k - 1) + 1 = k
    BY <2>4
  <2> QED
    BY <2>4, <2>8, <2>9
<1>5. PICK g : Runs(g, Cardinality(S))
  <2> HIDE DEF Runs
  <2> QED
    BY <1>1, <1>4
<1>6. Upto(Cardinality(S)) = SUBSET S
  BY <1>1, FS_Subset
<1> QED
  BY <1>5, <1>6 DEF FoldsTo

LEMMA MaxIsOne ==
  ASSUME NEW S, IsFiniteSet(S), S \subseteq Int, S # {}
  PROVE  Max(S) \in S /\ \A y \in S : Max(S) >= y
<1> DEFINE Good == {s \in SUBSET S : s = {} \/ \E x \in s : \A y \in s : x >= y}
<1>1. ASSUME NEW s \in SUBSET S, \A x \in s : s \ {x} \in Good PROVE s \in Good
  <2>1. CASE s = {}
    BY <2>1
  <2>2. CASE s # {}
    <3>1. PICK x \in s : TRUE
      BY <2>2
    <3>2. x \in Int /\ x >= x
      BY <3>1
    <3>3. CASE s \ {x} = {}
      <4>1. \A y \in s : y = x
        BY <3>3
      <4> QED
        BY <3>2, <4>1
    <3>4. CASE s \ {x} # {}
      <4>1. PICK m \in s \ {x} : \A y \in s \ {x} : m >= y
        BY <1>1, <3>4
      <4>2. m \in Int /\ \A y \in s : y \in Int
        OBVIOUS
      <4>3. CASE m >= x
        BY <4>1, <4>3
      <4>4. CASE x >= m
        BY <3>2, <4>1, <4>2, <4>4
      <4> QED
        BY <3>2, <4>2, <4>3, <4>4
    <3> QED
      BY <3>3, <3>4
  <2> QED
    BY <2>1, <2>2
<1>2. S \in Good
  <2>1. \A s \in SUBSET S : (\A x \in s : s \ {x} \in Good) => s \in Good
    BY <1>1
  <2> HIDE DEF Good
  <2> QED
    BY <2>1, SubsetInduction
<1> QED
  BY <1>2 DEF Max

\* A fold over a sequence of n elements, from the left: it picks the last.
Lasts(n) == [s \in SUBSET (1..n) |-> Max(s)]

LEMMA IndexSets ==
  ASSUME NEW n \in Nat, NEW s \in SUBSET (1..n)
  PROVE  /\ IsFiniteSet(s) /\ Cardinality(s) \in Nat
         /\ \A k \in s : Cardinality(s \ {k}) = Cardinality(s) - 1
<1>1. PICK S : S = 1..n
  OBVIOUS
<1>2. IsFiniteSet(S)
  BY <1>1, FS_Interval
<1>3. s \subseteq S
  BY <1>1
<1>4. IsFiniteSet(s)
  BY <1>2, <1>3, FS_Subset
<1> QED
  BY <1>4, FS_CardinalityType, FS_RemoveElement

LEMMA IndicesFinite == ASSUME NEW X, NEW f \in Seq(X) PROVE IsFiniteSet(DOMAIN f)
<1>1. PICK n \in Nat : DOMAIN f = 1..n
  OBVIOUS
<1>2. IsFiniteSet(1..n)
  BY FS_Interval
<1> QED
  BY <1>1, <1>2

LEMMA LastsPick ==
  ASSUME NEW n \in Nat
  PROVE  /\ IsFiniteSet(1..n)
         /\ \A s \in SUBSET (1..n) :
              s # {} => /\ Lasts(n)[s] \in s /\ Lasts(n)[s] = Max(s)
                        /\ \A j \in s \ {Max(s)} : j < Max(s)
<1>1. IsFiniteSet(1..n)
  BY FS_Interval
<1>2. ASSUME NEW s \in SUBSET (1..n), s # {}
      PROVE  Max(s) \in s /\ \A j \in s \ {Max(s)} : j < Max(s)
  <2>1. s \subseteq Int
    OBVIOUS
  <2>2. IsFiniteSet(s)
    BY IndexSets
  <2>3. Max(s) \in s /\ \A y \in s : Max(s) >= y
    BY <1>2, <2>1, <2>2, MaxIsOne
  <2>4. \A x, y \in Int : x >= y /\ y # x => y < x
    OBVIOUS
  <2> QED
    BY <2>1, <2>3, <2>4
<1> QED
  BY <1>1, <1>2 DEF Lasts

LeftFold(g, n, F, base) ==
  g = [s \in SUBSET (1..n) |-> IF s = {} THEN base ELSE F[Max(s)][g[s \ {Max(s)}]]]

\* A fold from the left whose every step leads from T[s \ {k}] to T[s], where
\* k comes after all the others in s.
LEMMA FoldLeftInOrder ==
  ASSUME NEW n \in Nat, NEW F, NEW T, NEW base \in T[{}],
         \A s \in SUBSET (1..n) : \A k \in s :
           (\A j \in s \ {k} : j < k) => \A t \in T[s \ {k}] : F[k][t] \in T[s]
  PROVE  \E g : /\ LeftFold(g, n, F, base)
                /\ \A s \in SUBSET (1..n) : s # {} => /\ Max(s) \in s
                                                      /\ g[s \ {Max(s)}] \in T[s \ {Max(s)}]
<1>1. PICK S, pick : S = 1..n /\ pick = Lasts(n)
  OBVIOUS
<1>2. IsFiniteSet(S) /\ \A s \in SUBSET S :
        s # {} => pick[s] \in s /\ pick[s] = Max(s) /\ \A j \in s \ {pick[s]} : j < pick[s]
  BY <1>1, LastsPick
<1>3. \A s \in SUBSET S : s # {} => \A t \in T[s \ {pick[s]}] : F[pick[s]][t] \in T[s]
  BY <1>1, <1>2
<1>4. PICK g : FoldsTo(g, S, pick, F, base) /\ \A s \in SUBSET S : g[s] \in T[s]
  BY <1>2, <1>3, FoldRuns, ZenonT(60)
<1>5. g = [s \in SUBSET S |-> IF s = {} THEN base ELSE F[Max(s)][g[s \ {Max(s)}]]]
  BY <1>2, <1>4 DEF FoldsTo
<1>6. \A s \in SUBSET S : s # {} => Max(s) \in s /\ g[s \ {Max(s)}] \in T[s \ {Max(s)}]
  <2> TAKE s \in SUBSET S
  <2>1. s \ {Max(s)} \in SUBSET S
    OBVIOUS
  <2> QED
    BY <1>2, <1>4, <2>1
<1>7. LeftFold(g, n, F, base)
  BY <1>1, <1>5 DEF LeftFold
<1> QED
  BY <1>1, <1>6, <1>7

LEMMA FoldLeftRuns ==
  ASSUME NEW n \in Nat, NEW F, NEW T, NEW base \in T[{}],
         \A s \in SUBSET (1..n) : \A k \in s : \A t \in T[s \ {k}] : F[k][t] \in T[s]
  PROVE  \E g : /\ LeftFold(g, n, F, base)
                /\ \A s \in SUBSET (1..n) : s # {} => /\ Max(s) \in s
                                                      /\ g[s \ {Max(s)}] \in T[s \ {Max(s)}]
<1>1. \A s \in SUBSET (1..n) : \A k \in s :
        (\A j \in s \ {k} : j < k) => \A t \in T[s \ {k}] : F[k][t] \in T[s]
  OBVIOUS
<1> QED
  BY <1>1, FoldLeftInOrder

LEMMA FoldLeftTypes ==
  ASSUME NEW n \in Nat, NEW g, NEW T, g[{}] \in T[{}],
         \A s \in SUBSET (1..n) :
           s # {} /\ Max(s) \in s /\ g[s \ {Max(s)}] \in T[s \ {Max(s)}] => g[s] \in T[s]
  PROVE  \A s \in SUBSET (1..n) : g[s] \in T[s]
<1>1. PICK S, pick : S = 1..n /\ pick = Lasts(n)
  OBVIOUS
<1>2. IsFiniteSet(S) /\ \A s \in SUBSET S : s # {} => pick[s] \in s /\ pick[s] = Max(s)
  BY <1>1, LastsPick
<1>3. \A s \in SUBSET S : s # {} /\ g[s \ {pick[s]}] \in T[s \ {pick[s]}] => g[s] \in T[s]
  BY <1>1, <1>2
<1>4. \A s \in SUBSET S : g[s] \in T[s]
  BY <1>2, <1>3, FoldTypes
<1> QED
  BY <1>1, <1>4

-----------------------------------------------------------------------------
(* Sums: Part(f, S) adds up f[x] for the elements of S, Sum(f) for those of *)
(* its domain.                                                              *)

Part(f, S) == FoldFunctionOnSet(LAMBDA x, y : x + y, 0, f, S)

LEMMA SumIsPart == ASSUME NEW f PROVE Sum(f) = Part(f, DOMAIN f)
  BY DEF Sum, Part, FoldFunction

\* g adds up f over each subset of S.
Adds(g, f, S) ==
  /\ g[{}] = 0
  /\ \A s \in SUBSET S : g[s] \in Int
  /\ \A s \in SUBSET S : \A x \in s : g[s] = f[x] + g[s \ {x}]

LEMMA PartAdds ==
  ASSUME NEW S, IsFiniteSet(S), NEW f, \A x \in S : f[x] \in Int
  PROVE  \E g : Adds(g, f, S) /\ Part(f, S) = g[S]
<1> DEFINE pick == [s \in SUBSET S |-> CHOOSE x \in s : TRUE]
           F == [x \in S |-> [t \in Int |-> f[x] + t]]
           T == [s \in SUBSET S |-> Int]
           Runs(g) == g = [s \in SUBSET S |->
                             IF s = {} THEN 0
                             ELSE f[CHOOSE x \in s : TRUE] + g[s \ {CHOOSE x \in s : TRUE}]]
<1>1. \A s \in SUBSET S : s # {} => pick[s] \in s
  OBVIOUS
<1>2. ASSUME NEW s \in SUBSET S, s # {}, NEW t \in T[s \ {pick[s]}]
      PROVE  F[pick[s]][t] \in T[s] /\ F[pick[s]][t] = f[pick[s]] + t
  <2>1. pick[s] \in S /\ s \ {pick[s]} \in SUBSET S /\ f[pick[s]] \in Int
    BY <1>1, <1>2
  <2>2. t \in Int
    BY <2>1, <1>2
  <2> HIDE DEF pick
  <2> QED
    BY <2>1, <2>2
<1>3. 0 \in T[{}]
  OBVIOUS
<1>4. PICK g : FoldsTo(g, S, pick, F, 0) /\ \A s \in SUBSET S : g[s] \in T[s]
  <2> HIDE DEF pick, F, T
  <2> QED
    BY <1>1, <1>2, <1>3, FoldRuns
<1>5. Runs(g)
  <2>1. ASSUME NEW s \in SUBSET S, s # {}
        PROVE  F[pick[s]][g[s \ {pick[s]}]] = f[pick[s]] + g[s \ {pick[s]}]
    <3>1. g[s \ {pick[s]}] \in T[s \ {pick[s]}]
      BY <1>4
    <3> HIDE DEF pick, F, T
    <3> QED
      BY <1>2, <2>1, <3>1
  <2>2. g = [s \in SUBSET S |-> IF s = {} THEN 0 ELSE f[pick[s]] + g[s \ {pick[s]}]]
    <3> HIDE DEF pick, F, T
    <3> QED
      BY <1>4, <2>1 DEF FoldsTo
  <2> QED
    BY <2>2
<1> DEFINE r == CHOOSE h : Runs(h)
<1>6. Runs(r)
  <2> HIDE DEF Runs
  <2> QED
    BY <1>5
<1>7. Part(f, S) = r[S]
  BY DEF Part, FoldFunctionOnSet, MapThenFoldSet
<1> HIDE DEF r
<1>8. /\ r[{}] = 0
      /\ \A s \in SUBSET S : s # {} => r[s] = f[pick[s]] + r[s \ {pick[s]}]
  BY <1>6
<1>9. \A s \in SUBSET S : r[s] \in Int
  <2>1. ASSUME NEW s \in SUBSET S, s # {}, r[s \ {pick[s]}] \in T[s \ {pick[s]}] PROVE r[s] \in T[s]
    <3>1. f[pick[s]] \in Int /\ s \ {pick[s]} \in SUBSET S
      BY <1>1, <2>1
    <3>2. r[s \ {pick[s]}] \in Int
      BY <2>1, <3>1
    <3>3. r[s] = f[pick[s]] + r[s \ {pick[s]}]
      BY <1>8, <2>1
    <3> HIDE DEF pick
    <3> QED
      BY <3>1, <3>2, <3>3
  <2>2. r[{}] \in T[{}]
    BY <1>8
  <2>3. \A s \in SUBSET S : r[s] \in T[s]
    <3> HIDE DEF pick, T
    <3> QED
      BY <1>1, <2>1, <2>2, FoldTypes
  <2> QED
    BY <2>3
<1>10. \A s \in SUBSET S : \A x \in s : r[s] = f[x] + r[s \ {x}]
  <2> DEFINE Good == {s \in SUBSET S : \A x \in s : r[s] = f[x] + r[s \ {x}]}
  <2>1. ASSUME NEW s \in SUBSET S, \A x \in s : s \ {x} \in Good, NEW x \in s
        PROVE  r[s] = f[x] + r[s \ {x}]
    <3>1. PICK p : p = pick[s]
      OBVIOUS
    <3>2. p \in s /\ r[s] = f[p] + r[s \ {p}]
      BY <1>1, <1>8, <3>1
    <3>3. CASE x = p
      BY <3>2, <3>3
    <3>4. CASE x # p
      <4>1. s \ {p} \in Good /\ s \ {x} \in Good /\ x \in s \ {p} /\ p \in s \ {x}
        BY <2>1, <3>2, <3>4
      <4>2. r[s \ {p}] = f[x] + r[(s \ {p}) \ {x}] /\ r[s \ {x}] = f[p] + r[(s \ {x}) \ {p}]
        BY <4>1
      <4>3. (s \ {p}) \ {x} = (s \ {x}) \ {p}
        OBVIOUS
      <4>4. PICK w : w = r[(s \ {x}) \ {p}]
        OBVIOUS
      <4>5. w \in Int /\ f[x] \in Int /\ f[p] \in Int
        BY <1>9, <3>2, <4>4
      <4>6. r[s] = f[p] + (f[x] + w) /\ r[s \ {x}] = f[p] + w
        BY <3>2, <4>2, <4>3, <4>4
      <4> QED
        BY <4>5, <4>6
    <3> QED
      BY <3>3, <3>4
  <2>2. \A s \in SUBSET S : s \in Good
    <3>1. \A s \in SUBSET S : (\A x \in s : s \ {x} \in Good) => s \in Good
      BY <2>1
    <3> HIDE DEF Good
    <3> QED
      BY <3>1, SubsetInduction
  <2> QED
    BY <2>2
<1> QED
  BY <1>7, <1>8, <1>9, <1>10 DEF Adds

\* Sums of the same values agree on every subset.
LEMMA AddsAgree ==
  ASSUME NEW S, IsFiniteSet(S), NEW Q, NEW f, NEW g, NEW h, NEW k, S \subseteq Q,
         Adds(g, f, S), Adds(h, k, Q), \A x \in S : f[x] = k[x]
  PROVE  g[S] = h[S]
<1> DEFINE Good == {s \in SUBSET S : g[s] = h[s]}
<1>1. ASSUME NEW s \in SUBSET S, \A x \in s : s \ {x} \in Good PROVE g[s] = h[s]
  <2>1. CASE s = {}
    BY <2>1 DEF Adds
  <2>2. CASE s # {}
    <3>1. PICK x : x \in s
      BY <2>2
    <3>2. g[s] = f[x] + g[s \ {x}]
      BY <3>1 DEF Adds
    <3>3. h[s] = k[x] + h[s \ {x}]
      BY <3>1 DEF Adds
    <3>4. g[s \ {x}] = h[s \ {x}] /\ f[x] = k[x]
      BY <1>1, <3>1
    <3> QED
      BY <3>2, <3>3, <3>4
  <2> QED
    BY <2>1, <2>2
<1>2. \A s \in SUBSET S : s \in Good
  <2>1. \A s \in SUBSET S : (\A x \in s : s \ {x} \in Good) => s \in Good
    BY <1>1
  <2> HIDE DEF Good
  <2> QED
    BY <2>1, SubsetInduction
<1> QED
  BY <1>2

LEMMA PartSame ==
  ASSUME NEW S, IsFiniteSet(S), NEW f, NEW k, \A x \in S : f[x] \in Int /\ f[x] = k[x]
  PROVE  Part(f, S) = Part(k, S)
<1>1. PICK g : Adds(g, f, S) /\ Part(f, S) = g[S]
  BY PartAdds
<1>2. PICK h : Adds(h, k, S) /\ Part(k, S) = h[S]
  BY PartAdds
<1> QED
  BY <1>1, <1>2, AddsAgree

LEMMA PartEmpty == ASSUME NEW f PROVE Part(f, {}) = 0
<1>1. PICK g : Adds(g, f, {}) /\ Part(f, {}) = g[{}]
  BY FS_EmptySet, PartAdds
<1> QED
  BY <1>1 DEF Adds

LEMMA PartType ==
  ASSUME NEW S, IsFiniteSet(S), NEW f, \A x \in S : f[x] \in Int
  PROVE  Part(f, S) \in Int
<1>1. PICK g : Adds(g, f, S) /\ Part(f, S) = g[S]
  BY PartAdds
<1> QED
  BY <1>1 DEF Adds

\* Any one element can be taken out of a sum.
LEMMA PartSplit ==
  ASSUME NEW S, IsFiniteSet(S), NEW f, \A x \in S : f[x] \in Int, NEW x \in S
  PROVE  Part(f, S) = f[x] + Part(f, S \ {x})
<1>1. PICK g : Adds(g, f, S) /\ Part(f, S) = g[S]
  BY PartAdds
<1>2. IsFiniteSet(S \ {x}) /\ S \ {x} \subseteq S
  BY FS_Subset
<1>3. PICK h : Adds(h, f, S \ {x}) /\ Part(f, S \ {x}) = h[S \ {x}]
  BY <1>2, PartAdds
<1>4. h[S \ {x}] = g[S \ {x}]
  BY <1>1, <1>2, <1>3, AddsAgree
<1>5. S \in SUBSET S
  OBVIOUS
<1>6. g[S] = f[x] + g[S \ {x}]
  BY <1>1, <1>5 DEF Adds
<1> QED
  BY <1>1, <1>3, <1>4, <1>6

\* A sum changes by what its only changed value does.
LEMMA PartChange ==
  ASSUME NEW S, IsFiniteSet(S), NEW f, NEW k, NEW x \in S,
         \A y \in S : f[y] \in Int /\ k[y] \in Int,
         \A y \in S \ {x} : k[y] = f[y]
  PROVE  Part(k, S) = Part(f, S) - f[x] + k[x]
<1>1. IsFiniteSet(S \ {x})
  BY FS_Subset
<1>2. Part(k, S \ {x}) = Part(f, S \ {x}) /\ Part(f, S \ {x}) \in Int
  BY <1>1, PartSame, PartType
<1> QED
  BY <1>2, PartSplit

\* A sum of natural numbers is one, no smaller than any of them.
LEMMA PartNat ==
  ASSUME NEW S, IsFiniteSet(S), NEW f, \A x \in S : f[x] \in Nat
  PROVE  Part(f, S) \in Nat /\ \A x \in S : f[x] <= Part(f, S)
<1>1. PICK g : Adds(g, f, S) /\ Part(f, S) = g[S]
  BY PartAdds
<1> DEFINE Good == {s \in SUBSET S : g[s] \in Nat}
<1>2. ASSUME NEW s \in SUBSET S, \A x \in s : s \ {x} \in Good PROVE g[s] \in Nat
  <2>1. CASE s = {}
    BY <1>1, <2>1 DEF Adds
  <2>2. CASE s # {}
    <3>1. PICK x : x \in s
      BY <2>2
    <3>2. g[s] = f[x] + g[s \ {x}]
      BY <1>1, <3>1 DEF Adds
    <3>3. g[s \ {x}] \in Nat /\ f[x] \in Nat
      BY <1>2, <3>1
    <3> QED
      BY <3>2, <3>3
  <2> QED
    BY <2>1, <2>2
<1>3. \A s \in SUBSET S : g[s] \in Nat
  <2>1. \A s \in SUBSET S : (\A x \in s : s \ {x} \in Good) => s \in Good
    BY <1>2
  <2>2. \A s \in SUBSET S : s \in Good
    <3> HIDE DEF Good
    <3> QED
      BY <2>1, SubsetInduction
  <2> QED
    BY <2>2
<1>4. ASSUME NEW x \in S PROVE f[x] <= g[S]
  <2>1. g[S] = f[x] + g[S \ {x}] /\ g[S \ {x}] \in Nat /\ f[x] \in Nat
    BY <1>1, <1>3 DEF Adds
  <2> QED
    BY <2>1
<1> QED
  BY <1>1, <1>3, <1>4

LEMMA PartZero ==
  ASSUME NEW S, IsFiniteSet(S), NEW f, \A x \in S : f[x] = 0
  PROVE  Part(f, S) = 0
<1>1. PICK g : Adds(g, f, S) /\ Part(f, S) = g[S]
  BY PartAdds
<1> DEFINE Good == {s \in SUBSET S : g[s] = 0}
<1>2. ASSUME NEW s \in SUBSET S, \A x \in s : s \ {x} \in Good PROVE g[s] = 0
  <2>1. CASE s = {}
    BY <1>1, <2>1 DEF Adds
  <2>2. CASE s # {}
    <3>1. PICK x : x \in s
      BY <2>2
    <3>2. g[s] = f[x] + g[s \ {x}]
      BY <1>1, <3>1 DEF Adds
    <3>3. g[s \ {x}] = 0 /\ f[x] = 0
      BY <1>2, <3>1
    <3> QED
      BY <3>2, <3>3
  <2> QED
    BY <2>1, <2>2
<1>3. \A s \in SUBSET S : s \in Good
  <2>1. \A s \in SUBSET S : (\A x \in s : s \ {x} \in Good) => s \in Good
    BY <1>2
  <2> HIDE DEF Good
  <2> QED
    BY <2>1, SubsetInduction
<1> QED
  BY <1>1, <1>3

LEMMA PartPlus ==
  ASSUME NEW S, IsFiniteSet(S), NEW f, NEW k, NEW e,
         \A x \in S : f[x] \in Int /\ k[x] \in Int /\ e[x] = f[x] + k[x]
  PROVE  Part(e, S) = Part(f, S) + Part(k, S)
<1>0. \A x \in S : e[x] \in Int
  OBVIOUS
<1>1. PICK g : Adds(g, f, S) /\ Part(f, S) = g[S]
  BY PartAdds
<1>2. PICK h : Adds(h, k, S) /\ Part(k, S) = h[S]
  BY PartAdds
<1>3. PICK j : Adds(j, e, S) /\ Part(e, S) = j[S]
  BY <1>0, PartAdds
<1> DEFINE Good == {s \in SUBSET S : j[s] = g[s] + h[s]}
<1>4. ASSUME NEW s \in SUBSET S, \A x \in s : s \ {x} \in Good PROVE j[s] = g[s] + h[s]
  <2>1. CASE s = {}
    BY <1>1, <1>2, <1>3, <2>1 DEF Adds
  <2>2. CASE s # {}
    <3>1. PICK x : x \in s
      BY <2>2
    <3>2. PICK fx, kx, gs, hs, js : /\ fx = f[x] /\ kx = k[x] /\ gs = g[s \ {x}] /\ hs = h[s \ {x}]
                                   /\ js = j[s \ {x}]
      OBVIOUS
    <3>3. g[s] = fx + gs /\ h[s] = kx + hs /\ j[s] = e[x] + js /\ gs \in Int /\ hs \in Int
      BY <1>1, <1>2, <1>3, <3>1, <3>2 DEF Adds
    <3>4. e[x] = fx + kx /\ fx \in Int /\ kx \in Int /\ js = gs + hs
      BY <1>4, <3>1, <3>2
    <3>5. (fx + kx) + (gs + hs) = (fx + gs) + (kx + hs)
      BY <3>3, <3>4
    <3> QED
      BY <3>3, <3>4, <3>5
  <2> QED
    BY <2>1, <2>2
<1>5. \A s \in SUBSET S : s \in Good
  <2>1. \A s \in SUBSET S : (\A x \in s : s \ {x} \in Good) => s \in Good
    BY <1>4
  <2> HIDE DEF Good
  <2> QED
    BY <2>1, SubsetInduction
<1>6. j[S] = g[S] + h[S]
  BY <1>5
<1> QED
  BY <1>1, <1>2, <1>3, <1>6

\* A sum over S is the sum over any part of it and the sum over the rest.
LEMMA PartOfPart ==
  ASSUME NEW S, IsFiniteSet(S), NEW f, \A x \in S : f[x] \in Int, NEW J \in SUBSET S
  PROVE  Part(f, S) = Part(f, J) + Part(f, S \ J) /\ Part(f, J) \in Int /\ Part(f, S \ J) \in Int
<1>0. IsFiniteSet(J) /\ IsFiniteSet(S \ J) /\ J \subseteq S /\ S \ J \subseteq S
  BY FS_Subset
<1>1. PICK g : Adds(g, f, S) /\ Part(f, S) = g[S]
  BY PartAdds
<1>2. PICK h : Adds(h, f, J) /\ Part(f, J) = h[J]
  BY <1>0, PartAdds
<1>3. PICK k : Adds(k, f, S \ J) /\ Part(f, S \ J) = k[S \ J]
  BY <1>0, PartAdds
<1>4. h[J] = g[J] /\ k[S \ J] = g[S \ J]
  BY <1>0, <1>1, <1>2, <1>3, AddsAgree
<1> DEFINE Good == {s \in SUBSET (S \ J) : g[J \cup s] = g[J] + g[s]}
<1>5. ASSUME NEW s \in SUBSET (S \ J), \A x \in s : s \ {x} \in Good PROVE s \in Good
  <2>1. CASE s = {}
    <3>1. J \cup s = J /\ g[s] = 0 /\ g[J] \in Int
      BY <1>1, <2>1 DEF Adds
    <3>2. g[J] + 0 = g[J]
      BY <3>1
    <3>3. g[J \cup s] = g[J] + g[s]
      BY <3>1, <3>2, Zenon
    <3> QED
      BY <3>3
  <2>2. CASE s # {}
    <3>1. PICK x : x \in s
      BY <2>2
    <3>2. J \cup s \in SUBSET S /\ x \in J \cup s /\ (J \cup s) \ {x} = J \cup (s \ {x}) /\ s \in SUBSET S
      BY <3>1
    <3>3. PICK fx, gj, gs : fx = f[x] /\ gj = g[J] /\ gs = g[s \ {x}]
      OBVIOUS
    <3>4. g[J \cup s] = fx + g[J \cup (s \ {x})] /\ g[s] = fx + gs
      BY <1>1, <3>1, <3>2, <3>3 DEF Adds
    <3>5. gj \in Int /\ gs \in Int /\ fx \in Int
      BY <1>1, <3>1, <3>2, <3>3 DEF Adds
    <3>6. g[J \cup (s \ {x})] = gj + gs
      BY <1>5, <3>1, <3>3
    <3>7. fx + (gj + gs) = gj + (fx + gs)
      BY <3>5
    <3> QED
      BY <3>3, <3>4, <3>6, <3>7
  <2> QED
    BY <2>1, <2>2
<1>6. \A s \in SUBSET (S \ J) : s \in Good
  <2> HIDE DEF Good
  <2> QED
    BY <1>0, <1>5, SubsetInduction, ZenonT(60)
<1>7. g[J \cup (S \ J)] = g[J] + g[S \ J] /\ J \cup (S \ J) = S
  BY <1>6
<1>8. g[J] \in Int /\ g[S \ J] \in Int
  BY <1>1 DEF Adds
<1> QED
  BY <1>1, <1>2, <1>3, <1>4, <1>7, <1>8

\* What is nothing outside a part adds nothing.
LEMMA PartWithin ==
  ASSUME NEW S, IsFiniteSet(S), NEW f, \A x \in S : f[x] \in Int, NEW J \in SUBSET S,
         \A x \in S \ J : f[x] = 0
  PROVE  Part(f, S) = Part(f, J)
<1>1. IsFiniteSet(S \ J)
  BY FS_Subset
<1>2. Part(f, S \ J) = 0
  BY <1>1, PartZero
<1>3. Part(f, S) = Part(f, J) + Part(f, S \ J) /\ Part(f, J) \in Int
  BY PartOfPart
<1> QED
  BY <1>2, <1>3

\* Less of natural numbers is no more.
LEMMA PartAtMost ==
  ASSUME NEW S, IsFiniteSet(S), NEW f, \A x \in S : f[x] \in Nat, NEW J \in SUBSET S
  PROVE  Part(f, J) \in Nat /\ Part(f, J) <= Part(f, S)
<1>1. IsFiniteSet(S \ J) /\ IsFiniteSet(J)
  BY FS_Subset
<1>2. Part(f, S \ J) \in Nat /\ Part(f, J) \in Nat
  BY <1>1, PartNat
<1>3. Part(f, S) = Part(f, J) + Part(f, S \ J)
  BY PartOfPart
<1> QED
  BY <1>2, <1>3

\* Sums over the same elements compare as their values do.
LEMMA PartBelow ==
  ASSUME NEW S, IsFiniteSet(S), NEW f, NEW k,
         \A x \in S : f[x] \in Int /\ k[x] \in Int /\ f[x] <= k[x]
  PROVE  Part(f, S) <= Part(k, S)
<1> DEFINE e == [x \in S |-> k[x] - f[x]]
<1>1. \A x \in S : e[x] \in Nat /\ f[x] \in Int /\ e[x] \in Int /\ k[x] = f[x] + e[x]
  OBVIOUS
<1> HIDE DEF e
<1>2. Part(k, S) = Part(f, S) + Part(e, S)
  BY <1>1, PartPlus
<1>3. Part(f, S) \in Int /\ Part(e, S) \in Nat
  BY <1>1, PartType, PartNat
<1> QED
  BY <1>2, <1>3

\* Adding up over other names for the same elements gives the same sum.
LEMMA PartRenamed ==
  ASSUME NEW S, IsFiniteSet(S), NEW Q, IsFiniteSet(Q), NEW f, NEW k, NEW b,
         \A x \in S : b[x] \in Q /\ f[x] \in Int /\ f[x] = k[b[x]],
         \A x, y \in S : b[x] = b[y] => x = y,
         \A q \in Q : \E x \in S : b[x] = q
  PROVE  Part(f, S) = Part(k, Q)
<1> DEFINE At(s) == {b[x] : x \in s}
<1>0. \A q \in Q : k[q] \in Int
  <2> TAKE q \in Q
  <2>1. PICK x \in S : b[x] = q
    OBVIOUS
  <2> QED
    BY <2>1
<1>1. PICK g : Adds(g, f, S) /\ Part(f, S) = g[S]
  BY PartAdds
<1>2. PICK h : Adds(h, k, Q) /\ Part(k, Q) = h[Q]
  BY <1>0, PartAdds
<1> DEFINE Good == {s \in SUBSET S : g[s] = h[At(s)]}
<1>3. ASSUME NEW s \in SUBSET S, \A x \in s : s \ {x} \in Good PROVE g[s] = h[At(s)]
  <2>1. CASE s = {}
    <3>1. At(s) = {}
      BY <2>1
    <3> QED
      BY <1>1, <1>2, <2>1, <3>1 DEF Adds
  <2>2. CASE s # {}
    <3>1. PICK x : x \in s
      BY <2>2
    <3>2. g[s] = f[x] + g[s \ {x}]
      BY <1>1, <3>1 DEF Adds
    <3>3. b[x] \in At(s) /\ At(s) \in SUBSET Q
      BY <3>1
    <3>4. h[At(s)] = k[b[x]] + h[At(s) \ {b[x]}]
      <4> HIDE DEF At
      <4> QED
        BY <1>2, <3>3 DEF Adds
    <3>5. At(s) \ {b[x]} = At(s \ {x})
      BY <3>1
    <3>6. g[s \ {x}] = h[At(s \ {x})] /\ f[x] = k[b[x]]
      BY <1>3, <3>1
    <3> QED
      BY <3>2, <3>4, <3>5, <3>6
  <2> QED
    BY <2>1, <2>2
<1>4. \A s \in SUBSET S : s \in Good
  <2>1. \A s \in SUBSET S : (\A x \in s : s \ {x} \in Good) => s \in Good
    BY <1>3
  <2> HIDE DEF Good
  <2> QED
    BY <2>1, SubsetInduction
<1>5. g[S] = h[At(S)]
  BY <1>4
<1>6. At(S) = Q
  OBVIOUS
<1> QED
  BY <1>1, <1>2, <1>5, <1>6

\* The sum over one index more.
LEMMA PartNext ==
  ASSUME NEW n \in Nat, NEW f, NEW k, \A i \in 1..n : f[i] \in Int /\ k[i] = f[i], k[n + 1] \in Int
  PROVE  Part(k, 1..(n + 1)) = Part(f, 1..n) + k[n + 1] /\ Part(f, 1..n) \in Int
<1>1. IsFiniteSet(1..n) /\ IsFiniteSet(1..(n + 1)) /\ n + 1 \in 1..(n + 1)
  BY FS_Interval
<1>2. (1..(n + 1)) \ {n + 1} = 1..n
  OBVIOUS
<1>3. \A i \in 1..(n + 1) : k[i] \in Int
  <2> TAKE i \in 1..(n + 1)
  <2>1. i \in 1..n \/ i = n + 1
    OBVIOUS
  <2> QED
    BY <2>1
<1>4. Part(k, 1..(n + 1)) = k[n + 1] + Part(k, (1..(n + 1)) \ {n + 1})
  BY <1>1, <1>3, PartSplit
<1>5. Part(f, 1..n) = Part(k, 1..n) /\ Part(f, 1..n) \in Int
  BY <1>1, PartSame, PartType
<1>6. Part(k, 1..(n + 1)) = k[n + 1] + Part(k, 1..n)
  BY <1>2, <1>4
<1>7. PICK v : v = k[n + 1]
  OBVIOUS
<1> QED
  BY <1>5, <1>6, <1>7

-----------------------------------------------------------------------------
(* Books.                                                                   *)

\* What every book is: its orders have something left, a user's order (an owner
\* above 0) rests once, and no bid meets an ask.
BookOK(b) ==
  /\ b \in Seq(BookOrder)
  /\ \A i \in DOMAIN b : Rem(b[i]) > 0
  /\ \A i, j \in DOMAIN b : b[i].owner > 0 /\ b[i].owner = b[j].owner => i = j
  /\ NeverCrossed(b)

\* Owner u has r shares resting in b.
Rests(b, u, r) ==
  \/ r = 0 /\ \A i \in DOMAIN b : b[i].owner # u
  \/ r > 0 /\ \E i \in DOMAIN b : b[i].owner = u /\ Rem(b[i]) = r

\* The shares that wait in b before its i-th order, on its side at its price.
RemsOf(b) == [k \in DOMAIN b |-> Rem(b[k])]
InFront(b, i) == {k \in DOMAIN b : k < i /\ b[k].side = b[i].side /\ b[k].price = b[i].price}
Queued(b, i) == Part(RemsOf(b), InFront(b, i))

\* The i-th order of c stood in b, for more perhaps, behind no fewer shares.
Stood(c, i, b) ==
  \E j \in DOMAIN b :
    /\ c[i].owner = b[j].owner /\ c[i].side = b[j].side /\ c[i].price = b[j].price
    /\ Queued(c, i) \in Int /\ Queued(b, j) \in Int /\ Queued(c, i) <= Queued(b, j)

\* Every order of c did.
ComesFrom(c, b) == \A i \in DOMAIN c : Stood(c, i, b)

\* Every user's order of c did, whoever's but id's.
Onward(c, b, id) == \A i \in DOMAIN c : c[i].owner > 0 /\ c[i].owner # id => Stood(c, i, b)

LEMMA RemsType ==
  ASSUME NEW b, b \in Seq(BookOrder)
  PROVE  /\ IsFiniteSet(DOMAIN b) /\ DOMAIN RemsOf(b) = DOMAIN b
         /\ \A k \in DOMAIN b : RemsOf(b)[k] \in Int /\ RemsOf(b)[k] = Rem(b[k])
<1>1. ASSUME NEW k \in DOMAIN b PROVE Rem(b[k]) \in Int
  <2>1. PICK o \in BookOrder : o = b[k]
    OBVIOUS
  <2>2. Rem(o) \in Int
    BY DEF BookOrder, Rem
  <2> QED
    BY <2>1, <2>2
<1> QED
  BY <1>1, IndicesFinite DEF RemsOf

LEMMA QueuedType ==
  ASSUME NEW b, b \in Seq(BookOrder), NEW i
  PROVE  IsFiniteSet(InFront(b, i)) /\ Queued(b, i) \in Int
<1>1. InFront(b, i) \subseteq DOMAIN b
  BY DEF InFront
<1>2. IsFiniteSet(DOMAIN b) /\ \A k \in DOMAIN b : RemsOf(b)[k] \in Int
  BY RemsType
<1>3. IsFiniteSet(InFront(b, i))
  BY <1>1, <1>2, FS_Subset
<1>4. \A k \in InFront(b, i) : RemsOf(b)[k] \in Int
  BY <1>1, <1>2
<1> QED
  BY <1>3, <1>4, PartType DEF Queued

\* The orders of c at D stood in b at the places f says, in the same order, and
\* none from outside D has come before them.
Shifted(f, c, D, b) ==
  /\ D \subseteq DOMAIN c
  /\ \A i \in D : /\ f[i] \in DOMAIN b
                  /\ c[i].owner = b[f[i]].owner /\ c[i].side = b[f[i]].side
                  /\ c[i].price = b[f[i]].price /\ Rem(c[i]) <= Rem(b[f[i]])
  /\ \A i \in D, k \in DOMAIN c : k < i => k \in D /\ f[k] < f[i]

LEMMA ShiftedStood ==
  ASSUME NEW b, b \in Seq(BookOrder), \A k \in DOMAIN b : Rem(b[k]) > 0,
         NEW c, c \in Seq(BookOrder), NEW f, NEW D, Shifted(f, c, D, b), NEW i \in D
  PROVE  Stood(c, i, b)
<1> DEFINE S == InFront(c, i)
           Q == {f[k] : k \in S}
           R == InFront(b, f[i])
           w == RemsOf(b)
           v == RemsOf(c)
           g == [k \in S |-> w[f[k]]]
<1>1. /\ i \in DOMAIN c /\ f[i] \in DOMAIN b
      /\ c[i].owner = b[f[i]].owner /\ c[i].side = b[f[i]].side /\ c[i].price = b[f[i]].price
  BY DEF Shifted
<1>2. \A k \in S : /\ k \in D /\ k \in DOMAIN c /\ f[k] \in DOMAIN b /\ f[k] < f[i]
                  /\ c[k].side = c[i].side /\ c[k].price = c[i].price
                  /\ c[k].side = b[f[k]].side /\ c[k].price = b[f[k]].price
                  /\ Rem(c[k]) <= Rem(b[f[k]])
  BY DEF Shifted, InFront
<1>3. Q \subseteq R
  BY <1>1, <1>2 DEF InFront
<1>4. /\ \A k \in DOMAIN b : w[k] \in Int /\ w[k] = Rem(b[k])
      /\ \A k \in DOMAIN c : v[k] \in Int /\ v[k] = Rem(c[k])
  BY RemsType
<1>5. IsFiniteSet(S) /\ IsFiniteSet(R) /\ Queued(c, i) \in Int /\ Queued(b, f[i]) \in Int
  BY QueuedType
<1>6. IsFiniteSet(Q)
  BY <1>3, <1>5, FS_Subset
<1>7. \A k \in S : g[k] \in Int /\ v[k] \in Int /\ v[k] <= g[k] /\ g[k] = w[f[k]] /\ f[k] \in Q
  BY <1>2, <1>4
<1>8. \A k, l \in S : f[k] = f[l] => k = l
  <2> SUFFICES ASSUME NEW k \in S, NEW l \in S, f[k] = f[l], k # l PROVE FALSE
    OBVIOUS
  <2>1. k \in Int /\ l \in Int /\ f[k] \in Int
    <3>1. DOMAIN c \subseteq Int /\ DOMAIN b \subseteq Int
      OBVIOUS
    <3> QED
      BY <1>2, <3>1
  <2>2. k < l \/ l < k
    BY <2>1
  <2>3. f[k] < f[l] \/ f[l] < f[k]
    BY <1>2, <2>2 DEF Shifted
  <2> QED
    BY <2>1, <2>3
<1>9. \A q \in Q : \E k \in S : f[k] = q
  OBVIOUS
<1>10. \A k \in R : w[k] \in Nat
  BY <1>4 DEF InFront
<1> HIDE DEF S, Q, R, v, w, g
<1>11. Part(v, S) <= Part(g, S)
  BY <1>5, <1>7, PartBelow
<1>12. Part(g, S) = Part(w, Q)
  BY <1>5, <1>6, <1>7, <1>8, <1>9, PartRenamed
<1>13. Part(w, Q) \in Nat /\ Part(w, Q) <= Part(w, R)
  BY <1>3, <1>5, <1>10, PartAtMost
<1>14. Queued(c, i) = Part(v, S) /\ Queued(b, f[i]) = Part(w, R)
  BY DEF S, R, v, w, Queued
<1>15. Queued(c, i) <= Queued(b, f[i])
  BY <1>5, <1>11, <1>12, <1>13, <1>14
<1> QED
  BY <1>1, <1>5, <1>15 DEF Stood

LEMMA ComesFromItself == ASSUME NEW b, b \in Seq(BookOrder) PROVE ComesFrom(b, b)
  BY QueuedType DEF ComesFrom, Stood

LEMMA StoodFurther ==
  ASSUME NEW b, NEW c, NEW d, NEW i \in DOMAIN d, NEW j \in DOMAIN c,
         d[i].owner = c[j].owner, d[i].side = c[j].side, d[i].price = c[j].price,
         Queued(d, i) \in Int, Queued(c, j) \in Int, Queued(d, i) <= Queued(c, j), Stood(c, j, b)
  PROVE  Stood(d, i, b)
<1>1. PICK k \in DOMAIN b :
        /\ c[j].owner = b[k].owner /\ c[j].side = b[k].side /\ c[j].price = b[k].price
        /\ Queued(c, j) \in Int /\ Queued(b, k) \in Int /\ Queued(c, j) <= Queued(b, k)
  BY DEF Stood
<1>2. Queued(d, i) <= Queued(b, k)
  BY <1>1
<1> QED
  BY <1>1, <1>2 DEF Stood

LEMMA ComesFromFurther ==
  ASSUME NEW b, NEW c, NEW d, ComesFrom(d, c), ComesFrom(c, b)
  PROVE  ComesFrom(d, b)
<1> SUFFICES ASSUME NEW i \in DOMAIN d PROVE Stood(d, i, b)
  BY DEF ComesFrom
<1>1. PICK j \in DOMAIN c :
        /\ d[i].owner = c[j].owner /\ d[i].side = c[j].side /\ d[i].price = c[j].price
        /\ Queued(d, i) \in Int /\ Queued(c, j) \in Int /\ Queued(d, i) <= Queued(c, j)
  BY DEF ComesFrom, Stood
<1>2. Stood(c, j, b)
  BY DEF ComesFrom
<1> QED
  BY <1>1, <1>2, StoodFurther

LEMMA OnwardFurther ==
  ASSUME NEW b, NEW c, NEW d, NEW id, Onward(d, c, id), Onward(c, b, id)
  PROVE  Onward(d, b, id)
<1> SUFFICES ASSUME NEW i \in DOMAIN d, d[i].owner > 0, d[i].owner # id PROVE Stood(d, i, b)
  BY DEF Onward
<1>1. PICK j \in DOMAIN c :
        /\ d[i].owner = c[j].owner /\ d[i].side = c[j].side /\ d[i].price = c[j].price
        /\ Queued(d, i) \in Int /\ Queued(c, j) \in Int /\ Queued(d, i) <= Queued(c, j)
  BY DEF Onward, Stood
<1>2. Stood(c, j, b)
  BY <1>1 DEF Onward
<1> QED
  BY <1>1, <1>2, StoodFurther

\* Where every order, or every user's, has kept its place, so has any but id's.
LEMMA OnwardFrom ==
  ASSUME NEW b, NEW c, NEW id, ComesFrom(c, b) \/ Onward(c, b, 0)
  PROVE  Onward(c, b, id)
<1>1. \A i \in DOMAIN c : c[i].owner > 0 => c[i].owner # 0
  <2>1. ~(0 > 0)
    OBVIOUS
  <2> QED
    BY <2>1
<1> QED
  BY <1>1 DEF ComesFrom, Onward

\* A new order goes behind all the others.
LEMMA AppendedStood ==
  ASSUME NEW b, b \in Seq(BookOrder), \A k \in DOMAIN b : Rem(b[k]) > 0, NEW o \in BookOrder,
         NEW c, c = Append(b, o), NEW i \in DOMAIN c, c[i].owner # o.owner
  PROVE  Stood(c, i, b)
<1>1. /\ c \in Seq(BookOrder) /\ Len(b) \in Nat /\ DOMAIN b = 1..Len(b) /\ DOMAIN c = 1..Len(b) + 1
      /\ c[Len(b) + 1] = o /\ \A k \in DOMAIN b : k \in DOMAIN c /\ c[k] = b[k]
  OBVIOUS
<1>2. \A k \in DOMAIN b : Rem(b[k]) \in Int
  BY RemsType
<1>3. PICK f : f = [k \in DOMAIN b |-> k]
  OBVIOUS
<1>4. Shifted(f, c, DOMAIN b, b)
  BY <1>1, <1>2, <1>3 DEF Shifted
<1>5. i \in DOMAIN b
  BY <1>1
<1> QED
  BY <1>1, <1>4, <1>5, ShiftedStood

LEMMA UncrossedFrom ==
  ASSUME NEW b, NEW c, ComesFrom(c, b), NeverCrossed(b)
  PROVE  NeverCrossed(c)
<1> SUFFICES ASSUME NEW i \in DOMAIN c, NEW j \in DOMAIN c, c[i].side = "buy", c[j].side = "sell"
             PROVE  c[i].price < c[j].price
  BY DEF NeverCrossed
<1>1. PICK x \in DOMAIN b : c[i].side = b[x].side /\ c[i].price = b[x].price
  BY DEF ComesFrom, Stood
<1>2. PICK y \in DOMAIN b : c[j].side = b[y].side /\ c[j].price = b[y].price
  BY DEF ComesFrom, Stood
<1> QED
  BY <1>1, <1>2 DEF NeverCrossed

LEMMA RemoveAtFacts ==
  ASSUME NEW X, NEW b \in Seq(X), NEW i \in 1..Len(b)
  PROVE  LET c == RemoveAt(b, i)
         IN  /\ c \in Seq(X) /\ Len(c) = Len(b) - 1
             /\ \A k \in 1..Len(b) - 1 : c[k] = IF k < i THEN b[k] ELSE b[k + 1]
<1>0. Len(b) \in Nat /\ i \in Nat /\ DOMAIN b = 1..Len(b) /\ 1 <= i /\ i <= Len(b)
  OBVIOUS
<1> DEFINE p == SubSeq(b, 1, i - 1)
           q == SubSeq(b, i + 1, Len(b))
           c == p \o q
<1>1. /\ p \in Seq(X) /\ Len(p) = i - 1
      /\ \A k \in 1..i - 1 : p[k] = b[k]
  BY <1>0
<1>2. /\ q \in Seq(X) /\ Len(q) = Len(b) - i
      /\ \A k \in 1..Len(b) - i : q[k] = b[k + i]
  <2>1. \A k \in (i + 1)..Len(b) : b[k] \in X
    BY <1>0
  <2>2. /\ q \in Seq(X) /\ Len(q) = IF i + 1 <= Len(b) THEN Len(b) - (i + 1) + 1 ELSE 0
        /\ \A k \in 1..Len(b) - (i + 1) + 1 : q[k] = b[(i + 1) + k - 1]
    BY <1>0, <2>1, SubSeqProperties
  <2>3. Len(b) - (i + 1) + 1 = Len(b) - i
    BY <1>0
  <2> HIDE DEF q
  <2>4. ASSUME NEW k \in 1..Len(b) - i PROVE q[k] = b[k + i]
    <3>1. q[k] = b[(i + 1) + k - 1]
      BY <2>2, <2>3
    <3>2. (i + 1) + k - 1 = k + i
      BY <1>0
    <3> QED
      BY <3>1, <3>2
  <2>5. Len(q) = Len(b) - i
    <3>1. CASE i + 1 <= Len(b)
      BY <2>2, <2>3, <3>1
    <3>2. CASE ~(i + 1 <= Len(b))
      <4>1. Len(q) = 0
        BY <2>2, <3>2
      <4>2. PICK L : L = Len(b)
        OBVIOUS
      <4>3. L \in Nat /\ i \in Nat /\ i <= L /\ ~(i + 1 <= L)
        BY <1>0, <3>2, <4>2
      <4>4. L - i = 0
        BY <4>3
      <4> QED
        BY <4>1, <4>2, <4>4
    <3> QED
      BY <3>1, <3>2
  <2> QED
    BY <2>2, <2>4, <2>5
<1>3. RemoveAt(b, i) = c
  BY DEF RemoveAt
<1> HIDE DEF p, q
<1>4. /\ c \in Seq(X) /\ Len(c) = Len(p) + Len(q)
      /\ \A k \in 1..Len(p) + Len(q) : c[k] = IF k <= Len(p) THEN p[k] ELSE q[k - Len(p)]
  BY <1>1, <1>2, ConcatProperties
<1>5. Len(c) = Len(b) - 1
  BY <1>0, <1>1, <1>2, <1>4
<1> HIDE DEF c
<1>6. ASSUME NEW k \in 1..Len(b) - 1 PROVE c[k] = IF k < i THEN b[k] ELSE b[k + 1]
  <2>0. k \in 1..Len(p) + Len(q) /\ Len(p) = i - 1
    BY <1>0, <1>1, <1>2
  <2>1. CASE k < i
    <3>1. k \in 1..i - 1 /\ k <= Len(p)
      BY <1>0, <2>0, <2>1
    <3>2. c[k] = p[k]
      BY <1>4, <2>0, <3>1
    <3> QED
      BY <1>1, <2>1, <3>1, <3>2
  <2>2. CASE k >= i
    <3>1. c[k] = q[k - (i - 1)] /\ k - (i - 1) \in 1..Len(b) - i
      BY <1>0, <1>1, <1>4, <1>5, <2>2
    <3>2. q[k - (i - 1)] = b[k - (i - 1) + i]
      BY <1>2, <3>1
    <3>3. k - (i - 1) + i = k + 1
      BY <1>0
    <3> QED
      BY <1>0, <3>1, <3>2, <3>3, <2>2
  <2> QED
    BY <1>0, <2>1, <2>2
<1> QED
  BY <1>3, <1>4, <1>5, <1>6

\* c is b without its i-th order: taking it out keeps the book, and what the
\* others have resting.
LEMMA BookRemove ==
  ASSUME NEW b, BookOK(b), NEW i \in DOMAIN b
  PROVE  LET c == RemoveAt(b, i)
         IN  /\ BookOK(c) /\ Len(c) = Len(b) - 1 /\ ComesFrom(c, b)
             /\ b[i].owner > 0 => Rests(c, b[i].owner, 0)
             /\ \A u \in Int, r \in Int : u # b[i].owner /\ Rests(b, u, r) => Rests(c, u, r)
<1>0. /\ b \in Seq(BookOrder) /\ Len(b) \in Nat /\ DOMAIN b = 1..Len(b) /\ i \in 1..Len(b)
      /\ \A k \in 1..Len(b) : Rem(b[k]) > 0 /\ b[k] \in BookOrder
  BY DEF BookOK
<1> DEFINE c == RemoveAt(b, i)
           At(k) == IF k < i THEN k ELSE k + 1
<1>1. /\ c \in Seq(BookOrder) /\ Len(c) = Len(b) - 1
      /\ \A k \in 1..Len(b) - 1 : c[k] = IF k < i THEN b[k] ELSE b[k + 1]
  BY <1>0, RemoveAtFacts
<1> HIDE DEF c
<1>2. DOMAIN c = 1..Len(b) - 1
  BY <1>0, <1>1
<1>3. ASSUME NEW k \in DOMAIN c
      PROVE  At(k) \in 1..Len(b) /\ c[k] = b[At(k)] /\ At(k) # i /\ At(k) \in Int
  BY <1>0, <1>1, <1>2
<1>4. \A k, j \in DOMAIN c : At(k) = At(j) => k = j
  BY <1>0, <1>2
<1>5. ASSUME NEW j \in 1..Len(b), j # i PROVE \E k \in DOMAIN c : c[k] = b[j]
  <2>1. CASE j < i
    <3>1. j \in DOMAIN c /\ c[j] = b[j]
      BY <1>0, <1>1, <1>2, <2>1
    <3> QED
      BY <3>1
  <2>2. CASE j > i
    <3>1. j - 1 \in DOMAIN c /\ c[j - 1] = b[(j - 1) + 1] /\ (j - 1) + 1 = j
      BY <1>0, <1>1, <1>2, <2>2
    <3> QED
      BY <3>1
  <2> QED
    BY <1>0, <1>5, <2>1, <2>2
<1>6. ComesFrom(c, b)
  <2>1. PICK f : f = [k \in DOMAIN c |-> At(k)]
    OBVIOUS
  <2>2. \A k \in DOMAIN c, j \in DOMAIN c : j < k => At(j) < At(k)
    BY <1>0, <1>2
  <2>3. \A k \in DOMAIN b : Rem(b[k]) \in Int
    BY <1>0, RemsType
  <2> HIDE DEF At
  <2>4. Shifted(f, c, DOMAIN c, b)
    BY <1>0, <1>3, <2>1, <2>2, <2>3 DEF Shifted
  <2> QED
    BY <1>0, <1>1, <2>4, ShiftedStood DEF ComesFrom
<1> HIDE DEF At
<1>7. BookOK(c)
  <2>1. \A k \in DOMAIN c : Rem(c[k]) > 0
    BY <1>0, <1>3
  <2>2. ASSUME NEW k \in DOMAIN c, NEW j \in DOMAIN c, c[k].owner > 0, c[k].owner = c[j].owner PROVE k = j
    <3>1. At(k) = At(j)
      BY <1>0, <1>3, <2>2 DEF BookOK
    <3> QED
      BY <1>4, <3>1
  <2>3. NeverCrossed(c)
    BY <1>6, UncrossedFrom DEF BookOK
  <2> QED
    BY <1>1, <2>1, <2>2, <2>3 DEF BookOK
<1>8. ASSUME b[i].owner > 0 PROVE Rests(c, b[i].owner, 0)
  <2>1. ASSUME NEW k \in DOMAIN c, c[k].owner = b[i].owner PROVE FALSE
    BY <1>0, <1>3, <1>8, <2>1 DEF BookOK
  <2> QED
    BY <2>1 DEF Rests
<1>9. ASSUME NEW u \in Int, NEW r \in Int, u # b[i].owner, Rests(b, u, r) PROVE Rests(c, u, r)
  <2>1. CASE r = 0
    BY <1>0, <1>3, <1>9, <2>1 DEF Rests
  <2>2. CASE r > 0
    <3>1. PICK j \in DOMAIN b : b[j].owner = u /\ Rem(b[j]) = r
      BY <1>9, <2>2 DEF Rests
    <3>2. PICK k \in DOMAIN c : c[k] = b[j]
      BY <1>0, <1>5, <1>9, <3>1
    <3> QED
      BY <2>2, <3>1, <3>2 DEF Rests
  <2> QED
    BY <1>9, <2>1, <2>2 DEF Rests
<1> QED
  BY <1>1, <1>6, <1>7, <1>8, <1>9 DEF c

Lowered(b, i, n) == [b EXCEPT ![i].filled = @ + n]

\* A fill that leaves the maker in the book.
LEMMA BookLower ==
  ASSUME NEW b, BookOK(b), NEW i \in DOMAIN b, NEW n \in Int, 0 < n, n < Rem(b[i])
  PROVE  LET c == Lowered(b, i, n)
         IN  /\ BookOK(c) /\ Len(c) = Len(b) /\ ComesFrom(c, b)
             /\ Rests(c, b[i].owner, Rem(b[i]) - n)
             /\ \A u \in Int, r \in Int : u # b[i].owner /\ Rests(b, u, r) => Rests(c, u, r)
<1>0. /\ b \in Seq(BookOrder) /\ Len(b) \in Nat /\ DOMAIN b = 1..Len(b) /\ i \in 1..Len(b)
      /\ \A k \in 1..Len(b) : Rem(b[k]) > 0 /\ b[k] \in BookOrder
  BY DEF BookOK
<1> DEFINE o == [b[i] EXCEPT !.filled = @ + n]
           c == Lowered(b, i, n)
<1>1. /\ o \in BookOrder /\ o.owner = b[i].owner /\ o.side = b[i].side /\ o.price = b[i].price
      /\ Rem(o) = Rem(b[i]) - n /\ Rem(b[i]) \in Int
  <2>1. PICK z \in BookOrder : z = b[i]
    BY <1>0
  <2>2. o = [z EXCEPT !.filled = z.filled + n]
    BY <2>1
  <2> HIDE DEF o
  <2>3. /\ z.owner \in Int /\ z.side \in Side /\ z.price \in Price /\ z.qty \in Int /\ z.filled \in Int
        /\ o = [owner |-> z.owner, side |-> z.side, price |-> z.price, qty |-> z.qty,
                filled |-> z.filled + n]
    BY <2>2 DEF BookOrder
  <2>4. o \in BookOrder /\ o.owner = z.owner /\ o.side = z.side /\ o.price = z.price
    BY <2>3 DEF BookOrder
  <2>5. Rem(o) = Rem(z) - n /\ Rem(z) \in Int
    BY <2>3 DEF Rem
  <2> QED
    BY <2>1, <2>4, <2>5
<1>2. /\ c \in Seq(BookOrder) /\ Len(c) = Len(b) /\ DOMAIN c = 1..Len(b) /\ c[i] = o
      /\ \A k \in 1..Len(b) : k # i => c[k] = b[k]
  <2>1. c = [b EXCEPT ![i] = o]
    BY DEF Lowered
  <2> HIDE DEF c, o
  <2> QED
    BY <1>0, <1>1, <2>1
<1> HIDE DEF c, o
<1>3. ASSUME NEW k \in 1..Len(b)
      PROVE  c[k].owner = b[k].owner /\ c[k].side = b[k].side /\ c[k].price = b[k].price /\ Rem(c[k]) > 0
  BY <1>0, <1>1, <1>2
<1>4. ComesFrom(c, b)
  <2>1. PICK f : f = [k \in DOMAIN c |-> k]
    OBVIOUS
  <2>2. \A k \in DOMAIN b : Rem(b[k]) \in Int /\ Rem(c[k]) <= Rem(b[k])
    BY <1>0, <1>1, <1>2, RemsType
  <2>3. Shifted(f, c, DOMAIN c, b)
    BY <1>0, <1>2, <1>3, <2>1, <2>2 DEF Shifted
  <2> QED
    BY <1>0, <1>2, <2>3, ShiftedStood DEF ComesFrom
<1>5. BookOK(c)
  <2>1. NeverCrossed(c)
    BY <1>4, UncrossedFrom DEF BookOK
  <2>2. \A k, j \in DOMAIN c : c[k].owner > 0 /\ c[k].owner = c[j].owner => k = j
    BY <1>0, <1>2, <1>3 DEF BookOK
  <2> QED
    BY <1>2, <1>3, <2>1, <2>2 DEF BookOK
<1>6. Rests(c, b[i].owner, Rem(b[i]) - n)
  BY <1>0, <1>1, <1>2 DEF Rests
<1>7. ASSUME NEW u \in Int, NEW r \in Int, u # b[i].owner, Rests(b, u, r) PROVE Rests(c, u, r)
  BY <1>0, <1>2, <1>3, <1>7 DEF Rests
<1> QED
  BY <1>2, <1>4, <1>5, <1>6, <1>7 DEF c

\* A new order joins, at a price where it meets nobody.
LEMMA BookAppend ==
  ASSUME NEW b, BookOK(b), NEW o \in BookOrder, Rem(o) > 0,
         o.owner > 0 => Rests(b, o.owner, 0), Makers(b, o.side, o.price) = {}
  PROVE  LET c == Append(b, o)
         IN  /\ BookOK(c) /\ Len(c) = Len(b) + 1
             /\ Rests(c, o.owner, Rem(o))
             /\ \A u \in Int, r \in Int : u # o.owner /\ Rests(b, u, r) => Rests(c, u, r)
             /\ \A k \in DOMAIN c : (k \in DOMAIN b /\ c[k] = b[k]) \/ c[k] = o
<1>0. /\ b \in Seq(BookOrder) /\ Len(b) \in Nat /\ DOMAIN b = 1..Len(b)
      /\ \A k \in 1..Len(b) : Rem(b[k]) > 0 /\ b[k] \in BookOrder
  BY DEF BookOK
<1> DEFINE c == Append(b, o)
           n == Len(b) + 1
<1>1. /\ c \in Seq(BookOrder) /\ Len(c) = n /\ DOMAIN c = 1..n /\ c[n] = o
      /\ \A k \in 1..Len(b) : c[k] = b[k]
  BY <1>0
<1> HIDE DEF c
<1>2. \A k \in 1..n : k \in 1..Len(b) \/ k = n
  BY <1>0
<1>3. ASSUME o.owner > 0 PROVE \A k \in 1..Len(b) : b[k].owner # o.owner
  <2>1. ~(0 > 0)
    OBVIOUS
  <2> QED
    BY <1>0, <1>3, <2>1 DEF Rests
<1>4. ASSUME NEW k \in DOMAIN c, NEW j \in DOMAIN c, c[k].owner > 0, c[k].owner = c[j].owner PROVE k = j
  <2>1. CASE k \in 1..Len(b) /\ j \in 1..Len(b)
    BY <1>0, <1>1, <1>4, <2>1 DEF BookOK
  <2>2. CASE k = n /\ j \in 1..Len(b)
    BY <1>0, <1>1, <1>3, <1>4, <2>2
  <2>3. CASE k \in 1..Len(b) /\ j = n
    BY <1>0, <1>1, <1>3, <1>4, <2>3
  <2> QED
    BY <1>1, <1>2, <2>1, <2>2, <2>3
<1>5. NeverCrossed(c)
  <2>1. SUFFICES ASSUME NEW k \in 1..n, NEW j \in 1..n, c[k].side = "buy", c[j].side = "sell"
                 PROVE  c[k].price < c[j].price
    BY <1>1 DEF NeverCrossed
  <2>2. CASE k \in 1..Len(b) /\ j \in 1..Len(b)
    BY <1>0, <1>1, <2>1, <2>2 DEF BookOK, NeverCrossed
  <2>3. CASE k = n /\ j \in 1..Len(b)
    <3>1. o.side = "buy" /\ b[j].side = "sell" /\ j \notin Makers(b, o.side, o.price)
      BY <1>1, <2>1, <2>3
    <3>2. ~(b[j].price <= o.price)
      BY <1>0, <2>3, <3>1 DEF Makers, Opposite, Crosses
    <3>3. b[j].price \in Int /\ o.price \in Int
      BY <1>0, <2>3 DEF BookOrder, Price
    <3> QED
      BY <1>1, <2>3, <3>2, <3>3
  <2>4. CASE k \in 1..Len(b) /\ j = n
    <3>1. o.side = "sell" /\ b[k].side = "buy" /\ k \notin Makers(b, o.side, o.price)
      BY <1>1, <2>1, <2>4
    <3>2. ~(b[k].price >= o.price)
      BY <1>0, <2>4, <3>1 DEF Makers, Opposite, Crosses
    <3>3. b[k].price \in Int /\ o.price \in Int
      BY <1>0, <2>4 DEF BookOrder, Price
    <3> QED
      BY <1>1, <2>4, <3>2, <3>3
  <2>5. CASE k = n /\ j = n
    BY <1>1, <2>1, <2>5
  <2> QED
    BY <1>2, <2>2, <2>3, <2>4, <2>5
<1>6. BookOK(c)
  <2>1. \A k \in DOMAIN c : Rem(c[k]) > 0
    BY <1>0, <1>1, <1>2
  <2> QED
    BY <1>1, <1>4, <1>5, <2>1 DEF BookOK
<1>7. Rests(c, o.owner, Rem(o))
  BY <1>0, <1>1 DEF Rests
<1>8. ASSUME NEW u \in Int, NEW r \in Int, u # o.owner, Rests(b, u, r) PROVE Rests(c, u, r)
  <2>1. CASE r = 0
    BY <1>0, <1>1, <1>2, <1>8, <2>1 DEF Rests
  <2>2. CASE r > 0
    <3>1. PICK j \in DOMAIN b : b[j].owner = u /\ Rem(b[j]) = r
      BY <1>8, <2>2 DEF Rests
    <3>2. j \in DOMAIN c /\ c[j] = b[j]
      BY <1>0, <1>1
    <3> QED
      BY <2>2, <3>1, <3>2 DEF Rests
  <2> QED
    BY <1>8, <2>1, <2>2 DEF Rests
<1>9. \A k \in DOMAIN c : (k \in DOMAIN b /\ c[k] = b[k]) \/ c[k] = o
  BY <1>0, <1>1, <1>2
<1> QED
  BY <1>1, <1>6, <1>7, <1>8, <1>9 DEF c

-----------------------------------------------------------------------------
(* The sweep.                                                               *)

\* Of the orders a taker may meet there is one it meets first.
LEMMA FrontMakerIsOne ==
  ASSUME NEW b \in Seq(BookOrder), NEW side \in Side, NEW limit, Makers(b, side, limit) # {}
  PROVE  FrontMaker(b, side, limit) \in Makers(b, side, limit)
<1> DEFINE M == Makers(b, side, limit)
           First(i, j) == \/ Nearer(side, b[i].price, b[j].price)
                          \/ b[i].price = b[j].price /\ i <= j
           Good == {s \in SUBSET M : s = {} \/ \E i \in s : \A j \in s : First(i, j)}
<1>1. M \subseteq 1..Len(b) /\ IsFiniteSet(M) /\ \A i \in M : i \in Int /\ b[i].price \in Int
  <2>1. Len(b) \in Nat /\ DOMAIN b = 1..Len(b) /\ \A i \in 1..Len(b) : b[i] \in BookOrder
    OBVIOUS
  <2>2. M \subseteq 1..Len(b)
    BY <2>1 DEF Makers
  <2>3. IsFiniteSet(M)
    <3>1. IsFiniteSet(1..Len(b))
      BY <2>1, FS_Interval
    <3> HIDE DEF M
    <3> QED
      BY <2>2, <3>1, FS_Subset
  <2> HIDE DEF M
  <2> QED
    BY <2>1, <2>2, <2>3 DEF BookOrder, Price
<1>2. ASSUME NEW i \in M, NEW j \in M PROVE First(i, j) \/ First(j, i)
  BY <1>1 DEF Nearer
<1>3. ASSUME NEW i \in M, NEW j \in M, NEW k \in M, First(i, j), First(j, k) PROVE First(i, k)
  <2> HIDE DEF M
  <2> QED
    BY <1>1, <1>3 DEF Nearer
<1> HIDE DEF M, First
<1>4. ASSUME NEW s \in SUBSET M, \A x \in s : s \ {x} \in Good PROVE s \in Good
  <2>1. CASE s = {}
    BY <2>1
  <2>2. CASE s # {}
    <3>1. PICK x \in s : TRUE
      BY <2>2
    <3>2. CASE s \ {x} = {}
      <4>1. \A j \in s : j = x
        BY <3>2
      <4> QED
        BY <1>2, <4>1
    <3>3. CASE s \ {x} # {}
      <4>1. PICK i \in s \ {x} : \A j \in s \ {x} : First(i, j)
        BY <1>4, <3>3
      <4>2. CASE First(i, x)
        BY <4>1, <4>2
      <4>3. CASE First(x, i)
        <5>1. \A j \in s : First(x, j)
          BY <1>2, <1>3, <4>1, <4>3
        <5> QED
          BY <5>1
      <4> QED
        BY <1>2, <4>2, <4>3
    <3> QED
      BY <3>2, <3>3
  <2> QED
    BY <2>1, <2>2
<1>5. M \in Good
  <2>1. \A s \in SUBSET M : (\A x \in s : s \ {x} \in Good) => s \in Good
    BY <1>4
  <2> HIDE DEF Good
  <2> QED
    BY <1>1, <2>1, SubsetInduction
<1>6. \E i \in M : \A j \in M : First(i, j)
  <2>1. M # {}
    BY DEF M
  <2> QED
    BY <1>5, <2>1
<1> QED
  BY <1>6 DEF FrontMaker, M, First

Fill     == [maker : Int, price : Price, qty : Nat \ {0}]
Sweeping == [left : Nat, book : Seq(BookOrder), fills : Seq(Fill)]

Qtys(fills)   == [k \in DOMAIN fills |-> fills[k].qty]
Got(fills, u) == [k \in DOMAIN fills |-> IF fills[k].maker = u THEN fills[k].qty ELSE 0]

LEMMA SumsOfFills ==
  ASSUME NEW fills \in Seq(Fill), NEW u
  PROVE  /\ Sum(Qtys(fills)) \in Nat /\ Sum(Got(fills, u)) \in Nat
         /\ Sum(Qtys(fills)) = Part(Qtys(fills), DOMAIN fills)
         /\ Sum(Got(fills, u)) = Part(Got(fills, u), DOMAIN fills)
         /\ Sum(Qtys(fills)) = 0 => fills = << >>
<1>1. Len(fills) \in Nat /\ DOMAIN fills = 1..Len(fills) /\ IsFiniteSet(DOMAIN fills)
  BY FS_Interval
<1>2. \A k \in DOMAIN fills : fills[k].qty \in Nat \ {0}
  <2>1. \A k \in DOMAIN fills : fills[k] \in Fill
    BY <1>1
  <2> QED
    BY <2>1 DEF Fill
<1>3. /\ DOMAIN Qtys(fills) = DOMAIN fills /\ \A k \in DOMAIN fills : Qtys(fills)[k] \in Nat \ {0}
      /\ DOMAIN Got(fills, u) = DOMAIN fills /\ \A k \in DOMAIN fills : Got(fills, u)[k] \in Nat
  BY <1>2 DEF Qtys, Got
<1>4. Sum(Qtys(fills)) = Part(Qtys(fills), DOMAIN fills) /\ Sum(Got(fills, u)) = Part(Got(fills, u), DOMAIN fills)
  BY <1>3, SumIsPart
<1>5. Part(Qtys(fills), DOMAIN fills) \in Nat /\ Part(Got(fills, u), DOMAIN fills) \in Nat
  BY <1>1, <1>3, PartNat
<1>6. ASSUME Sum(Qtys(fills)) = 0 PROVE fills = << >>
  <2>1. \A k \in DOMAIN fills : Qtys(fills)[k] <= 0
    BY <1>1, <1>3, <1>4, <1>6, PartNat
  <2>2. DOMAIN fills = {}
    BY <1>3, <2>1
  <2>3. Len(fills) = 0
    BY <1>1, <2>2
  <2> QED
    BY <2>3
<1> QED
  BY <1>4, <1>5, <1>6

LEMMA NoFills ==
  Sum(Qtys(<< >>)) = 0 /\ \A u : Sum(Got(<< >>, u)) = 0
<1>1. Qtys(<< >>) = << >> /\ \A u : Got(<< >>, u) = << >>
  BY DEF Qtys, Got
<1>2. Sum(<< >>) = Part(<< >>, DOMAIN << >>) /\ DOMAIN << >> = {}
  BY SumIsPart
<1> QED
  BY <1>1, <1>2, PartEmpty

LEMMA SumsOfOneMore ==
  ASSUME NEW fills \in Seq(Fill), NEW f \in Fill, NEW u
  PROVE  /\ Sum(Qtys(Append(fills, f))) = Sum(Qtys(fills)) + f.qty
         /\ Sum(Got(Append(fills, f), u)) = Sum(Got(fills, u)) + (IF f.maker = u THEN f.qty ELSE 0)
<1> DEFINE n == Len(fills)
           g == Append(fills, f)
<1>1. /\ n \in Nat /\ DOMAIN fills = 1..n /\ DOMAIN g = 1..(n + 1) /\ g[n + 1] = f
      /\ \A k \in 1..n : g[k] = fills[k] /\ fills[k] \in Fill
      /\ \A k \in 1..(n + 1) : g[k] \in Fill
  OBVIOUS
<1> HIDE DEF n, g
<1>2. \A k \in 1..n : k \in 1..(n + 1)
  BY <1>1
<1>3. f.qty \in Nat /\ \A k \in 1..n : fills[k].qty \in Nat
  BY <1>1 DEF Fill
<1>4. Part(Qtys(g), 1..(n + 1)) = Part(Qtys(fills), 1..n) + f.qty
  <2>1. \A k \in 1..n : Qtys(fills)[k] \in Int /\ Qtys(g)[k] = Qtys(fills)[k]
    BY <1>1, <1>2, <1>3 DEF Qtys
  <2>2. Qtys(g)[n + 1] = f.qty
    BY <1>1 DEF Qtys
  <2> QED
    BY <1>1, <1>3, <2>1, <2>2, PartNext
<1>5. Part(Got(g, u), 1..(n + 1)) = Part(Got(fills, u), 1..n) + (IF f.maker = u THEN f.qty ELSE 0)
  <2>1. \A k \in 1..n : Got(fills, u)[k] \in Int /\ Got(g, u)[k] = Got(fills, u)[k]
    BY <1>1, <1>2, <1>3 DEF Got
  <2>2. Got(g, u)[n + 1] = IF f.maker = u THEN f.qty ELSE 0
    BY <1>1 DEF Got
  <2>3. Got(g, u)[n + 1] \in Int
    BY <1>3, <2>2
  <2>4. Part(Got(g, u), 1..(n + 1)) = Part(Got(fills, u), 1..n) + Got(g, u)[n + 1]
    BY <1>1, <2>1, <2>3, PartNext
  <2> QED
    BY <2>2, <2>4
<1>6. DOMAIN Qtys(g) = 1..(n + 1) /\ DOMAIN Got(g, u) = 1..(n + 1) /\ DOMAIN Qtys(fills) = 1..n /\ DOMAIN Got(fills, u) = 1..n
  BY <1>1 DEF Qtys, Got
<1>7. /\ Sum(Qtys(g)) = Part(Qtys(g), 1..(n + 1)) /\ Sum(Got(g, u)) = Part(Got(g, u), 1..(n + 1))
      /\ Sum(Qtys(fills)) = Part(Qtys(fills), 1..n) /\ Sum(Got(fills, u)) = Part(Got(fills, u), 1..n)
  BY <1>6, SumIsPart
<1> QED
  BY <1>4, <1>5, <1>7 DEF g

\* A fill of a taker: at a price inside its limit, with an order of b that has
\* this price and stands on the other side.
Fair(f, b, taker) ==
  /\ Crosses(taker.side, taker.price, f.price)
  /\ \E j \in DOMAIN b : /\ b[j].owner = f.maker /\ b[j].price = f.price
                         /\ b[j].side = Opposite(taker.side)

\* How far a sweep of b has come: no share is lost or made up, every fill is
\* fair, every owner has resting what it had less what it got, and a sweep that
\* traded and is not done has taken an order off the book.
Sweeps(acc, b, taker) ==
  /\ acc \in Sweeping /\ BookOK(acc.book)
  /\ ComesFrom(acc.book, b) /\ Len(acc.book) <= Len(b)
  /\ Sum(Qtys(acc.fills)) + acc.left = taker.qty
  /\ \A k \in DOMAIN acc.fills : Fair(acc.fills[k], b, taker)
  /\ \A u \in Nat \ {0}, r \in Nat :
       Rests(b, u, r) => /\ Sum(Got(acc.fills, u)) <= r
                         /\ Rests(acc.book, u, r - Sum(Got(acc.fills, u)))
  /\ acc.fills = << >> => acc.book = b
  /\ acc.fills # << >> /\ acc.left > 0 => Len(acc.book) < Len(b)

\* t is acc after a trade of n shares with the order at i.
IsTrade(acc, t, side, limit, i, n) ==
  LET o == acc.book[i]
  IN  /\ o.side = Opposite(side) /\ Crosses(side, limit, o.price)
      /\ n <= Rem(o) /\ n <= acc.left /\ (n = acc.left \/ n = Rem(o))
      /\ t.left = acc.left - n
      /\ t.book = IF n = Rem(o) THEN RemoveAt(acc.book, i) ELSE Lowered(acc.book, i, n)
      /\ t.fills = Append(acc.fills, [maker |-> o.owner, price |-> o.price, qty |-> n])
      /\ t = [left |-> t.left, book |-> t.book, fills |-> t.fills]

LEMMA TradeIsFill ==
  ASSUME NEW acc \in Sweeping, BookOK(acc.book), acc.left > 0, NEW side \in Side, NEW limit,
         Makers(acc.book, side, limit) # {}
  PROVE  \E i \in DOMAIN acc.book, n \in Nat \ {0} :
           IsTrade(acc, Trade(acc, side, limit), side, limit, i, n)
<1>1. PICK i : i = FrontMaker(acc.book, side, limit)
  OBVIOUS
<1>2. acc.left \in Nat /\ acc.book \in Seq(BookOrder) /\ acc.fills \in Seq(Fill)
  BY DEF Sweeping
<1>3. i \in Makers(acc.book, side, limit)
  BY <1>1, <1>2, FrontMakerIsOne
<1>4. i \in DOMAIN acc.book /\ acc.book[i].side = Opposite(side) /\ Crosses(side, limit, acc.book[i].price)
  BY <1>3 DEF Makers
<1>5. PICK o \in BookOrder : o = acc.book[i] /\ Rem(o) > 0
  BY <1>2, <1>4 DEF BookOK
<1>6. o.owner \in Int /\ o.price \in Price /\ Rem(o) \in Int
  BY <1>5 DEF BookOrder, Rem
<1>7. PICK n : n = IF acc.left < Rem(o) THEN acc.left ELSE Rem(o)
  OBVIOUS
<1>8. n \in Nat \ {0} /\ n <= Rem(o) /\ n <= acc.left /\ (n = acc.left \/ n = Rem(o))
  BY <1>2, <1>5, <1>6, <1>7
<1>10. PICK c : c = IF n = Rem(o) THEN RemoveAt(acc.book, i) ELSE Lowered(acc.book, i, n)
  OBVIOUS
<1>11. PICK g : g = Append(acc.fills, [maker |-> o.owner, price |-> o.price, qty |-> n])
  OBVIOUS
<1>12. PICK t : t = Trade(acc, side, limit)
  OBVIOUS
<1>13. t = [left |-> acc.left - n, book |-> c, fills |-> g]
  BY <1>1, <1>5, <1>7, <1>10, <1>11, <1>12 DEF Trade, Lowered
<1>14. t.left = acc.left - n /\ t.book = c /\ t.fills = g /\ t = [left |-> t.left, book |-> t.book, fills |-> t.fills]
  BY <1>13
<1>15. IsTrade(acc, t, side, limit, i, n)
  BY <1>4, <1>5, <1>8, <1>10, <1>11, <1>14 DEF IsTrade
<1> QED
  BY <1>4, <1>8, <1>12, <1>15

\* One trade: the book keeps its order, the maker has n less, nobody else moves.
LEMMA TradeKeepsBook ==
  ASSUME NEW b, BookOK(b), NEW i \in DOMAIN b, NEW n \in Nat \ {0}, n <= Rem(b[i]),
         NEW c, c = IF n = Rem(b[i]) THEN RemoveAt(b, i) ELSE Lowered(b, i, n)
  PROVE  /\ BookOK(c) /\ ComesFrom(c, b) /\ Len(c) <= Len(b) /\ Len(c) \in Nat
         /\ n = Rem(b[i]) => Len(c) = Len(b) - 1
         /\ \A u \in Nat \ {0}, r \in Nat :
              Rests(b, u, r) => /\ u = b[i].owner => r = Rem(b[i]) /\ Rests(c, u, r - n)
                                /\ u # b[i].owner => Rests(c, u, r)
<1>0. Len(b) \in Nat /\ b[i] \in BookOrder /\ Rem(b[i]) \in Int
  <2>1. Len(b) \in Nat /\ b[i] \in BookOrder
    BY DEF BookOK
  <2>2. PICK o \in BookOrder : o = b[i]
    BY <2>1
  <2>3. Rem(o) \in Int
    BY DEF BookOrder, Rem
  <2> QED
    BY <2>1, <2>2, <2>3
<1>1. ASSUME NEW u \in Nat \ {0}, NEW r \in Nat, Rests(b, u, r), u = b[i].owner PROVE r = Rem(b[i])
  <2>1. r # 0
    BY <1>1 DEF Rests
  <2>2. PICK j \in DOMAIN b : b[j].owner = u /\ Rem(b[j]) = r
    BY <1>1, <2>1 DEF Rests
  <2>3. j = i
    BY <1>1, <2>2 DEF BookOK
  <2> QED
    BY <2>2, <2>3
<1>2. CASE n = Rem(b[i])
  <2>1. c = RemoveAt(b, i)
    BY <1>2
  <2>2. /\ BookOK(c) /\ Len(c) = Len(b) - 1 /\ ComesFrom(c, b)
        /\ b[i].owner > 0 => Rests(c, b[i].owner, 0)
        /\ \A u \in Int, r \in Int : u # b[i].owner /\ Rests(b, u, r) => Rests(c, u, r)
    BY <2>1, BookRemove
  <2>3. ASSUME NEW u \in Nat \ {0}, NEW r \in Nat, Rests(b, u, r), u = b[i].owner PROVE Rests(c, u, r - n)
    <3>1. r = n
      BY <1>1, <1>2, <2>3
    <3>2. r - n = 0 /\ u > 0
      BY <3>1
    <3>3. Rests(c, u, 0)
      BY <2>2, <2>3, <3>2
    <3> QED
      BY <3>2, <3>3
  <2> QED
    BY <1>0, <1>1, <2>2, <2>3
<1>3. CASE n # Rem(b[i])
  <2>1. c = Lowered(b, i, n) /\ n < Rem(b[i]) /\ 0 < n /\ n \in Int
    BY <1>0, <1>3
  <2>2. /\ BookOK(c) /\ Len(c) = Len(b) /\ ComesFrom(c, b)
        /\ Rests(c, b[i].owner, Rem(b[i]) - n)
        /\ \A u \in Int, r \in Int : u # b[i].owner /\ Rests(b, u, r) => Rests(c, u, r)
    BY <2>1, BookLower
  <2>3. ASSUME NEW u \in Nat \ {0}, NEW r \in Nat, Rests(b, u, r), u = b[i].owner PROVE Rests(c, u, r - n)
    BY <1>1, <2>2, <2>3
  <2> QED
    BY <1>0, <1>1, <1>3, <2>2, <2>3
<1> QED
  BY <1>2, <1>3

LEMMA TradeSweeps ==
  ASSUME NEW b, NEW taker, taker.side \in Side, NEW acc, Sweeps(acc, b, taker), Len(b) \in Nat,
         taker.qty \in Nat, acc.left > 0, Makers(acc.book, taker.side, taker.price) # {}
  PROVE  LET t == Trade(acc, taker.side, taker.price)
         IN  Sweeps(t, b, taker) /\ (t.left = 0 \/ Len(t.book) = Len(acc.book) - 1)
<1>1. PICK c : c = acc.book
  OBVIOUS
<1>2. PICK t : t = Trade(acc, taker.side, taker.price)
  OBVIOUS
<1>6. acc \in Sweeping /\ BookOK(c) /\ acc.left \in Nat /\ acc.fills \in Seq(Fill) /\ Len(c) \in Nat
  BY <1>1 DEF Sweeps, Sweeping
<1>3. PICK i \in DOMAIN c, n \in Nat \ {0} : IsTrade(acc, t, taker.side, taker.price, i, n)
  BY <1>1, <1>2, <1>6, TradeIsFill
<1>4. PICK o \in BookOrder : o = c[i]
  BY <1>1, <1>6 DEF Sweeping
<1> DEFINE f == [maker |-> o.owner, price |-> o.price, qty |-> n]
<1>5. /\ n <= Rem(o) /\ o.side = Opposite(taker.side) /\ Crosses(taker.side, taker.price, o.price)
      /\ n <= acc.left /\ (n = acc.left \/ n = Rem(o))
      /\ t.left = acc.left - n
      /\ t.book = IF n = Rem(o) THEN RemoveAt(c, i) ELSE Lowered(c, i, n)
      /\ t.fills = Append(acc.fills, f)
      /\ t = [left |-> t.left, book |-> t.book, fills |-> t.fills]
  BY <1>1, <1>3, <1>4 DEF IsTrade
<1>7. t.left \in Nat /\ f \in Fill
  <2>1. o.owner \in Int /\ o.price \in Price
    BY <1>4 DEF BookOrder
  <2>2. f \in Fill
    BY <2>1 DEF Fill
  <2> QED
    BY <1>5, <1>6, <2>2
<1>8. /\ BookOK(t.book) /\ ComesFrom(t.book, c) /\ Len(t.book) <= Len(c) /\ Len(t.book) \in Nat
      /\ n = Rem(o) => Len(t.book) = Len(c) - 1
      /\ \A u \in Nat \ {0}, r \in Nat :
           Rests(c, u, r) => /\ u = o.owner => r = Rem(o) /\ Rests(t.book, u, r - n)
                             /\ u # o.owner => Rests(t.book, u, r)
  <2>1. BookOK(c) /\ n <= Rem(c[i]) /\ t.book = IF n = Rem(c[i]) THEN RemoveAt(c, i) ELSE Lowered(c, i, n)
    BY <1>4, <1>5, <1>6
  <2> QED
    BY <1>4, <2>1, TradeKeepsBook
<1>9. f.maker = o.owner /\ f.price = o.price /\ f.qty = n
  OBVIOUS
<1> HIDE DEF f
<1>10. t \in Sweeping
  <2>1. t.book \in Seq(BookOrder)
    BY <1>8 DEF BookOK
  <2>2. t.fills \in Seq(Fill)
    BY <1>5, <1>6, <1>7
  <2> QED
    BY <1>5, <1>7, <2>1, <2>2 DEF Sweeping
<1>11. ComesFrom(t.book, b) /\ Len(t.book) <= Len(b)
  <2>1. ComesFrom(c, b) /\ Len(c) <= Len(b)
    BY <1>1 DEF Sweeps
  <2> QED
    BY <1>6, <1>8, <2>1, ComesFromFurther
<1>12. Sum(Qtys(t.fills)) + t.left = taker.qty
  <2>1. PICK s : s = Sum(Qtys(acc.fills))
    OBVIOUS
  <2>2. s \in Nat /\ s + acc.left = taker.qty
    BY <1>6, <2>1, SumsOfFills DEF Sweeps
  <2>3. Sum(Qtys(t.fills)) = s + n
    BY <1>5, <1>6, <1>7, <1>9, <2>1, SumsOfOneMore
  <2>4. n \in Nat /\ t.left = acc.left - n
    BY <1>5
  <2> QED
    BY <1>6, <2>2, <2>3, <2>4
<1>13. \A k \in DOMAIN t.fills : Fair(t.fills[k], b, taker)
  <2>1. Fair(f, b, taker)
    <3>1. PICK j \in DOMAIN b : c[i].owner = b[j].owner /\ c[i].side = b[j].side /\ c[i].price = b[j].price
      BY <1>1, <1>7 DEF Sweeps, ComesFrom, Stood
    <3> QED
      BY <1>4, <1>5, <1>9, <3>1 DEF Fair
  <2>2. ASSUME NEW k \in DOMAIN t.fills PROVE (k \in DOMAIN acc.fills /\ t.fills[k] = acc.fills[k]) \/ t.fills[k] = f
    BY <1>5, <1>6, <1>7
  <2>3. \A k \in DOMAIN acc.fills : Fair(acc.fills[k], b, taker)
    BY DEF Sweeps
  <2> QED
    BY <2>1, <2>2, <2>3
<1>14. ASSUME NEW u \in Nat \ {0}, NEW r \in Nat, Rests(b, u, r)
       PROVE  Sum(Got(t.fills, u)) <= r /\ Rests(t.book, u, r - Sum(Got(t.fills, u)))
  <2>1. PICK g : g = Sum(Got(acc.fills, u))
    OBVIOUS
  <2>2. g \in Nat /\ g <= r /\ Rests(c, u, r - g)
    BY <1>1, <1>6, <1>14, <2>1, SumsOfFills DEF Sweeps
  <2>3. r - g \in Nat
    BY <2>2
  <2>4. Sum(Got(t.fills, u)) = g + (IF o.owner = u THEN n ELSE 0)
    BY <1>5, <1>6, <1>7, <1>9, <2>1, SumsOfOneMore
  <2>5. CASE u = o.owner
    <3>1. r - g = Rem(o) /\ Rests(t.book, u, (r - g) - n)
      BY <1>8, <2>2, <2>3, <2>5
    <3>2. (r - g) - n = r - (g + n) /\ g + n <= r
      BY <1>5, <2>2, <3>1
    <3> QED
      BY <2>4, <2>5, <3>1, <3>2
  <2>6. CASE u # o.owner
    <3>1. Rests(t.book, u, r - g)
      BY <1>8, <2>2, <2>3, <2>6
    <3>2. Sum(Got(t.fills, u)) = g
      BY <2>2, <2>4, <2>6
    <3> QED
      BY <2>2, <3>1, <3>2
  <2> QED
    BY <2>5, <2>6
<1>15. t.fills # << >>
  <2>1. Len(t.fills) = Len(acc.fills) + 1 /\ Len(acc.fills) \in Nat
    BY <1>5, <1>6, <1>7
  <2> QED
    BY <2>1
<1>16. t.left = 0 \/ Len(t.book) = Len(c) - 1
  BY <1>5, <1>6, <1>8
<1>17. t.left > 0 => Len(t.book) < Len(b)
  <2>1. Len(c) <= Len(b)
    BY <1>1 DEF Sweeps
  <2> QED
    BY <1>6, <1>7, <1>8, <1>16, <2>1
<1>18. Sweeps(t, b, taker)
  BY <1>8, <1>10, <1>11, <1>12, <1>13, <1>14, <1>15, <1>17 DEF Sweeps
<1> QED
  BY <1>1, <1>2, <1>16, <1>18

\* The sweep runs until the taker is done or meets nobody.
Swept(acc, b, taker, k) ==
  \/ acc.left = 0 \/ Makers(acc.book, taker.side, taker.price) = {}
  \/ Len(acc.book) + k <= Len(b)

LEMMA SweepContract ==
  ASSUME NEW b, BookOK(b), NEW taker, taker.side \in Side, taker.qty \in Nat
  PROVE  LET r == match_sweep(b, taker)
         IN  Sweeps(r, b, taker) /\ (r.left = 0 \/ Makers(r.book, taker.side, taker.price) = {})
<1> DEFINE n == Len(b)
           base == [left |-> taker.qty, book |-> b, fills |-> << >>]
           round(acc) == IF acc.left = 0 \/ Makers(acc.book, taker.side, taker.price) = {} THEN acc
                         ELSE Trade(acc, taker.side, taker.price)
           St == {t \in Sweeping : Sweeps(t, b, taker)}
           F == [k \in 1..n |-> [t \in St |-> round(t)]]
           T == [s \in SUBSET (1..n) |-> {t \in St : Swept(t, b, taker, Cardinality(s))}]
           Runs(h) == h = [s \in SUBSET (1..n) |-> IF s = {} THEN base ELSE round(h[s \ {Max(s)}])]
<1>0. n \in Nat /\ DOMAIN b = 1..n /\ b \in Seq(BookOrder) /\ NeverCrossed(b)
  BY DEF BookOK
<1>1. base \in T[{}]
  <2>1. base.left = taker.qty /\ base.book = b /\ base.fills = << >> /\ base.fills \in Seq(Fill)
    OBVIOUS
  <2>2. base \in Sweeping
    BY <1>0, <2>1 DEF Sweeping
  <2> HIDE DEF base
  <2>3. Sum(Qtys(base.fills)) = 0
    BY <2>1, NoFills
  <2>4. ASSUME NEW u \in Nat \ {0}, NEW r \in Nat, Rests(b, u, r)
        PROVE  Sum(Got(base.fills, u)) <= r /\ Rests(base.book, u, r - Sum(Got(base.fills, u)))
    <3>3. Sum(Got(base.fills, u)) = 0
      BY <2>1, NoFills
    <3>4. r - 0 = r /\ 0 <= r
      OBVIOUS
    <3> QED
      BY <2>1, <2>4, <3>3, <3>4
  <2>5. Sweeps(base, b, taker)
    <3>1. ComesFrom(base.book, b) /\ Len(base.book) <= Len(b) /\ 0 + taker.qty = taker.qty
      BY <1>0, <2>1, ComesFromItself
    <3>2. \A k \in DOMAIN base.fills : Fair(base.fills[k], b, taker)
      BY <2>1
    <3> QED
      BY <2>1, <2>2, <2>3, <2>4, <3>1, <3>2 DEF Sweeps
  <2>6. Len(base.book) + Cardinality({}) <= Len(b)
    BY <1>0, <2>1, FS_EmptySet
  <2>7. {} \in SUBSET (1..n)
    OBVIOUS
  <2> QED
    BY <2>2, <2>5, <2>6, <2>7 DEF Swept
<1>2. ASSUME NEW s \in SUBSET (1..n), NEW k \in s, NEW t \in T[s \ {k}]
      PROVE  round(t) \in T[s] /\ F[k][t] = round(t)
  <2>1. Cardinality(s) \in Nat /\ Cardinality(s \ {k}) = Cardinality(s) - 1
    <3> HIDE DEF n
    <3> QED
      BY <1>0, IndexSets
  <2>2. t \in St /\ Swept(t, b, taker, Cardinality(s \ {k})) /\ k \in 1..n
    BY <1>2
  <2>3. t \in Sweeping /\ Sweeps(t, b, taker) /\ t.left \in Nat /\ Len(t.book) \in Nat
    BY <2>2 DEF Sweeping
  <2>4. CASE t.left = 0 \/ Makers(t.book, taker.side, taker.price) = {}
    <3>1. round(t) = t
      BY <2>4
    <3>2. Swept(t, b, taker, Cardinality(s))
      BY <2>4 DEF Swept
    <3> QED
      BY <2>2, <3>1, <3>2
  <2>5. CASE ~(t.left = 0 \/ Makers(t.book, taker.side, taker.price) = {})
    <3>1. PICK r : r = Trade(t, taker.side, taker.price)
      OBVIOUS
    <3>2. round(t) = r
      BY <2>5, <3>1
    <3>3. t.left > 0
      BY <2>3, <2>5
    <3>4. Sweeps(r, b, taker) /\ (r.left = 0 \/ Len(r.book) = Len(t.book) - 1)
      BY <1>0, <2>3, <2>5, <3>1, <3>3, TradeSweeps
    <3>5. Len(t.book) + (Cardinality(s) - 1) <= Len(b)
      BY <2>1, <2>2, <2>5 DEF Swept
    <3>6. r.left = 0 \/ Len(r.book) + Cardinality(s) <= Len(b)
      BY <1>0, <2>1, <2>3, <3>4, <3>5
    <3>7. r \in Sweeping /\ Swept(r, b, taker, Cardinality(s))
      BY <3>4, <3>6 DEF Sweeps, Swept
    <3> HIDE DEF round
    <3>8. r \in T[s]
      BY <3>4, <3>7
    <3> QED
      BY <2>2, <3>2, <3>8
  <2> QED
    BY <2>4, <2>5
<1> HIDE DEF base, round, F, T, St, n
<1>3. PICK g : /\ LeftFold(g, n, F, base)
               /\ \A s \in SUBSET (1..n) : s # {} => Max(s) \in s /\ g[s \ {Max(s)}] \in T[s \ {Max(s)}]
  <2>1. \A s \in SUBSET (1..n) : \A k \in s : \A t \in T[s \ {k}] : F[k][t] \in T[s]
    BY <1>2
  <2> QED
    BY <1>0, <1>1, <2>1, FoldLeftRuns
<1>5. Runs(g)
  <2>1. \A s \in SUBSET (1..n) : s # {} => F[Max(s)][g[s \ {Max(s)}]] = round(g[s \ {Max(s)}])
    BY <1>2, <1>3, ZenonT(60)
  <2> QED
    BY <1>3, <2>1 DEF LeftFold
<1> DEFINE r == CHOOSE h : Runs(h)
<1>6. Runs(r)
  <2> HIDE DEF Runs
  <2> QED
    BY <1>5
<1>7. match_sweep(b, taker) = r[1..n]
  BY <1>0 DEF match_sweep, FoldLeft, MapThenFoldSet, base, round
<1> HIDE DEF r
<1>8. \A s \in SUBSET (1..n) : r[s] \in T[s]
  <2>1. r[{}] \in T[{}]
    BY <1>1, <1>6
  <2>2. ASSUME NEW s \in SUBSET (1..n), s # {}, Max(s) \in s, r[s \ {Max(s)}] \in T[s \ {Max(s)}]
        PROVE  r[s] \in T[s]
    <3>1. r[s] = round(r[s \ {Max(s)}])
      BY <1>6, <2>2
    <3> HIDE DEF Runs
    <3> QED
      BY <1>2, <2>2, <3>1
  <2> QED
    BY <1>0, <2>1, <2>2, FoldLeftTypes
<1>9. match_sweep(b, taker) \in T[1..n]
  BY <1>7, <1>8
<1>10. PICK q : q = match_sweep(b, taker)
  OBVIOUS
<1>11. q \in Sweeping /\ Sweeps(q, b, taker) /\ Swept(q, b, taker, n)
  <2>1. Cardinality(1..n) = n
    BY <1>0, FS_Interval
  <2> QED
    BY <1>9, <1>10, <2>1 DEF T, St
<1>12. ASSUME Len(q.book) + n <= Len(b) PROVE Makers(q.book, taker.side, taker.price) = {}
  <2>1. Len(q.book) = 0
    BY <1>0, <1>11, <1>12 DEF n, Sweeping
  <2>2. DOMAIN q.book = {}
    BY <1>11, <2>1 DEF Sweeping
  <2> QED
    BY <2>2 DEF Makers
<1> QED
  BY <1>10, <1>11, <1>12 DEF Swept

-----------------------------------------------------------------------------
(* Orders.                                                                  *)

\* What an order can come back with, after the sweep s: refused with nothing
\* done, done with, or resting with what the sweep left.
Refused(r, b, taker) ==
  r.rc # "ok" /\ r.book = b /\ r.fills = << >> /\ r.left = taker.qty /\ ~r.resting
Finished(r, s) ==
  r.rc = "ok" /\ r.book = s.book /\ r.fills = s.fills /\ r.left = s.left /\ ~r.resting
Rested(r, s, cap, taker) ==
  /\ s.left > 0 /\ Len(s.book) < cap
  /\ r.rc = "ok" /\ r.book = Append(s.book, Resting(taker, s.left))
  /\ r.fills = s.fills /\ r.left = s.left /\ r.resting

\* An order that finds the pool full has traded with nobody: a trade that leaves
\* something over has taken an order off the book.
LEMMA SubmitCases ==
  ASSUME NEW b, BookOK(b), NEW taker, taker.side \in Side, taker.qty \in Nat,
         NEW type \in OrderType, NEW band, NEW cap \in Nat, Len(b) <= cap,
         NEW s, s = match_sweep(b, taker), NEW r, r = Submit(type, b, band, cap, taker)
  PROVE  \/ Refused(r, b, taker)
         \/ taker.price \in band /\ (Finished(r, s) \/ Rested(r, s, cap, taker))
<1>1. Sweeps(s, b, taker)
  BY SweepContract
<1>2. s.left \in Nat /\ Len(s.book) \in Nat /\ Len(b) \in Nat
  BY <1>1 DEF Sweeps, Sweeping, BookOK
<1>3. ASSUME NEW rc, rc # "ok", r = Rejected(rc, b, taker) PROVE Refused(r, b, taker)
  BY <1>3 DEF Rejected, Result, Refused
<1>4. CASE type = "limit"
  <2>1. r = match_limit(b, band, cap, taker)
    BY <1>4 DEF Submit
  <2>2. CASE taker.price \notin band
    <3>1. r = Rejected("price_limit", b, taker)
      BY <2>1, <2>2 DEF match_limit
    <3> QED
      BY <1>3, <3>1
  <2>3. CASE taker.price \in band
    <3>1. r = match_rest(s, cap, taker)
      BY <2>1, <2>3 DEF match_limit
    <3>2. CASE s.left = 0
      <4>1. Finished(r, s)
        BY <3>1, <3>2 DEF match_rest, Result, Finished
      <4> QED
        BY <2>3, <4>1
    <3>3. CASE s.left # 0 /\ Len(s.book) >= cap
      <4>1. s.fills = << >>
        BY <1>1, <1>2, <3>3 DEF Sweeps
      <4>2. s.book = b /\ s.left = taker.qty
        <5>1. Sum(Qtys(s.fills)) = 0
          BY <4>1, NoFills
        <5> QED
          BY <1>1, <1>2, <4>1, <5>1 DEF Sweeps
      <4>3. r.rc = "pool_exhausted" /\ r.book = s.book /\ r.fills = s.fills /\ r.left = s.left /\ ~r.resting
        BY <3>1, <3>3 DEF match_rest, Result
      <4> QED
        BY <4>1, <4>2, <4>3 DEF Refused
    <3>4. CASE s.left # 0 /\ ~(Len(s.book) >= cap)
      <4>1. /\ r.rc = "ok" /\ r.book = Append(s.book, Resting(taker, s.left))
            /\ r.fills = s.fills /\ r.left = s.left /\ r.resting
        BY <3>1, <3>4 DEF match_rest, Result
      <4>2. s.left > 0 /\ Len(s.book) < cap
        BY <1>2, <3>4
      <4> QED
        BY <2>3, <4>1, <4>2 DEF Rested
    <3> QED
      BY <3>2, <3>3, <3>4
  <2> QED
    BY <2>2, <2>3
<1>5. CASE type = "ioc"
  <2>1. r = match_ioc(b, band, taker)
    BY <1>5 DEF Submit
  <2>2. CASE taker.price \notin band \/ s.fills = << >>
    <3>1. \E rc \in {"price_limit", "no_liquidity"} : r = Rejected(rc, b, taker)
      BY <2>1, <2>2 DEF match_ioc
    <3> QED
      BY <1>3, <3>1
  <2>3. CASE taker.price \in band /\ s.fills # << >>
    <3>1. r.rc = "ok" /\ r.book = s.book /\ r.fills = s.fills /\ r.left = s.left /\ ~r.resting
      BY <2>1, <2>3 DEF match_ioc, Result
    <3> QED
      BY <2>3, <3>1 DEF Finished
  <2> QED
    BY <2>2, <2>3
<1>6. CASE type = "fok"
  <2>1. r = match_fok(b, band, taker)
    BY <1>6 DEF Submit
  <2>2. CASE taker.price \notin band \/ book_qty_up_to(b, taker.side, taker.price) < taker.qty
    <3>1. \E rc \in {"price_limit", "no_liquidity"} : r = Rejected(rc, b, taker)
      BY <2>1, <2>2 DEF match_fok
    <3> QED
      BY <1>3, <3>1
  <2>3. CASE taker.price \in band /\ ~(book_qty_up_to(b, taker.side, taker.price) < taker.qty)
    <3>1. r.rc = "ok" /\ r.book = s.book /\ r.fills = s.fills /\ r.left = s.left /\ ~r.resting
      BY <2>1, <2>3 DEF match_fok, Result
    <3> QED
      BY <2>3, <3>1 DEF Finished
  <2> QED
    BY <2>2, <2>3
<1> QED
  BY <1>4, <1>5, <1>6 DEF OrderType

\* What everybody gets out of an order: no share is lost or made up, the fills
\* are fair, each owner has resting what it had less what it got, the taker what
\* is left if it rests, nobody else's order has lost its place, and a refused
\* order has done nothing.
Dealt(r, b, cap, taker) ==
  /\ r.left \in Nat /\ r.fills \in Seq(Fill) /\ Sum(Qtys(r.fills)) + r.left = taker.qty
  /\ BookOK(r.book) /\ Len(r.book) <= cap
  /\ \A k \in DOMAIN r.fills : Fair(r.fills[k], b, taker)
  /\ \A u \in Nat \ {0}, q \in Nat :
       u # taker.owner /\ Rests(b, u, q) =>
         Sum(Got(r.fills, u)) <= q /\ Rests(r.book, u, q - Sum(Got(r.fills, u)))
  /\ taker.owner > 0 => /\ r.resting => r.rc = "ok" /\ r.left > 0 /\ Rests(r.book, taker.owner, r.left)
                        /\ ~r.resting => Rests(r.book, taker.owner, 0)
                        /\ \A k \in DOMAIN r.fills : r.fills[k].maker # taker.owner
  /\ \A i \in DOMAIN r.book :
       \/ \E j \in DOMAIN b : /\ r.book[i].owner = b[j].owner /\ r.book[i].side = b[j].side
                              /\ r.book[i].price = b[j].price
       \/ /\ r.book[i].owner = taker.owner /\ r.book[i].side = taker.side
          /\ r.book[i].price = taker.price
  /\ Onward(r.book, b, taker.owner)
  /\ r.rc # "ok" => r.book = b /\ r.fills = << >> /\ ~r.resting

LEMMA SubmitContract ==
  ASSUME NEW b, BookOK(b), NEW taker, taker.side \in Side, taker.qty \in Nat, taker.owner \in Int,
         taker.owner > 0 => Rests(b, taker.owner, 0),
         NEW type \in OrderType, NEW band \in SUBSET Price, NEW cap \in Nat, Len(b) <= cap
  PROVE  Dealt(Submit(type, b, band, cap, taker), b, cap, taker)
<1>1. PICK s : s = match_sweep(b, taker)
  OBVIOUS
<1>2. PICK r : r = Submit(type, b, band, cap, taker)
  OBVIOUS
<1>3. Sweeps(s, b, taker) /\ (s.left = 0 \/ Makers(s.book, taker.side, taker.price) = {})
  BY <1>1, SweepContract
<1>4. s \in Sweeping /\ s.left \in Nat /\ s.fills \in Seq(Fill) /\ Len(s.book) \in Nat /\ Len(b) \in Nat
  BY <1>3 DEF Sweeps, Sweeping, BookOK
<1>5. \A k \in DOMAIN s.fills : s.fills[k] \in Fill /\ s.fills[k].qty \in Nat \ {0}
  <2>1. \A k \in DOMAIN s.fills : s.fills[k] \in Fill
    BY <1>4
  <2> QED
    BY <2>1 DEF Fill
<1>6. ASSUME taker.owner > 0
      PROVE  /\ Rests(s.book, taker.owner, 0)
             /\ \A k \in DOMAIN s.fills : s.fills[k].maker # taker.owner
  <2>1. taker.owner \in Nat \ {0} /\ Rests(b, taker.owner, 0)
    BY <1>6
  <2>2. PICK g : g = Sum(Got(s.fills, taker.owner))
    OBVIOUS
  <2>3. g <= 0 /\ Rests(s.book, taker.owner, 0 - g)
    BY <1>3, <2>1, <2>2 DEF Sweeps
  <2>4. g \in Nat /\ g = Part(Got(s.fills, taker.owner), DOMAIN s.fills)
    BY <1>4, <2>2, SumsOfFills
  <2>5. g = 0 /\ 0 - g = 0
    BY <2>3, <2>4
  <2>6. ASSUME NEW k \in DOMAIN s.fills, s.fills[k].maker = taker.owner PROVE FALSE
    <3>1. IsFiniteSet(DOMAIN s.fills)
      BY <1>4, IndicesFinite
    <3>2. \A j \in DOMAIN s.fills : Got(s.fills, taker.owner)[j] \in Nat
      BY <1>5 DEF Got
    <3>3. Got(s.fills, taker.owner)[k] = s.fills[k].qty
      BY <2>6 DEF Got
    <3>4. Got(s.fills, taker.owner)[k] <= g
      BY <2>4, <3>1, <3>2, PartNat
    <3> QED
      BY <1>5, <2>5, <3>3, <3>4
  <2> QED
    BY <2>3, <2>5, <2>6
<1>7. CASE Refused(r, b, taker)
  <2>1. r.rc # "ok" /\ r.book = b /\ r.fills = << >> /\ r.left = taker.qty /\ ~r.resting
    BY <1>7 DEF Refused
  <2>2. r.fills \in Seq(Fill) /\ DOMAIN r.fills = {}
    BY <2>1
  <2>3. \A u : Sum(Got(r.fills, u)) = 0
    BY <2>1, NoFills
  <2>4. Sum(Qtys(r.fills)) = 0
    BY <2>1, NoFills
  <2>5. \A q \in Nat : q - 0 = q /\ 0 <= q /\ 0 + q = q
    OBVIOUS
  <2>6. \A u \in Nat \ {0}, q \in Nat :
          u # taker.owner /\ Rests(b, u, q) =>
            Sum(Got(r.fills, u)) <= q /\ Rests(r.book, u, q - Sum(Got(r.fills, u)))
    BY <2>1, <2>3, <2>5
  <2>7. Sum(Qtys(r.fills)) + r.left = taker.qty /\ r.left \in Nat
    BY <2>1, <2>4
  <2>8. Onward(r.book, b, taker.owner)
    BY <2>1, ComesFromItself, OnwardFrom DEF BookOK
  <2> QED
    BY <1>2, <2>1, <2>2, <2>6, <2>7, <2>8 DEF Dealt
<1>8. CASE Finished(r, s)
  <2>1. r.rc = "ok" /\ r.book = s.book /\ r.fills = s.fills /\ r.left = s.left /\ ~r.resting
    BY <1>8 DEF Finished
  <2>2. BookOK(r.book) /\ Len(r.book) <= cap /\ Sum(Qtys(r.fills)) + r.left = taker.qty
    BY <1>3, <1>4, <2>1 DEF Sweeps
  <2>3. /\ \A k \in DOMAIN r.fills : Fair(r.fills[k], b, taker)
        /\ \A u \in Nat \ {0}, q \in Nat :
             Rests(b, u, q) =>
               Sum(Got(r.fills, u)) <= q /\ Rests(r.book, u, q - Sum(Got(r.fills, u)))
    BY <1>3, <2>1 DEF Sweeps
  <2>4. \A i \in DOMAIN r.book : \E j \in DOMAIN b :
          /\ r.book[i].owner = b[j].owner /\ r.book[i].side = b[j].side
          /\ r.book[i].price = b[j].price
    BY <1>3, <2>1 DEF Sweeps, ComesFrom, Stood
  <2>5. Onward(r.book, b, taker.owner)
    BY <1>3, <2>1, OnwardFrom DEF Sweeps
  <2> QED
    BY <1>2, <1>4, <1>6, <2>1, <2>2, <2>3, <2>4, <2>5 DEF Dealt
<1>9. CASE Rested(r, s, cap, taker) /\ taker.price \in band
  <2>1. /\ s.left > 0 /\ Len(s.book) < cap
        /\ r.rc = "ok" /\ r.book = Append(s.book, Resting(taker, s.left))
        /\ r.fills = s.fills /\ r.left = s.left /\ r.resting
    BY <1>9 DEF Rested
  <2>2. PICK o : o = Resting(taker, s.left)
    OBVIOUS
  <2>3. /\ o \in BookOrder /\ Rem(o) = s.left
        /\ o.owner = taker.owner /\ o.side = taker.side /\ o.price = taker.price
    <3>1. o = [owner |-> taker.owner, side |-> taker.side, price |-> taker.price,
               qty |-> taker.qty, filled |-> taker.qty - s.left]
      BY <2>2 DEF Resting
    <3>2. o \in BookOrder
      BY <1>4, <1>9, <3>1 DEF BookOrder
    <3>3. Rem(o) = taker.qty - (taker.qty - s.left)
      BY <3>1 DEF Rem
    <3> QED
      BY <1>4, <3>1, <3>2, <3>3
  <2>4. BookOK(s.book) /\ Makers(s.book, o.side, o.price) = {}
    BY <1>3, <2>1, <2>3 DEF Sweeps
  <2>5. o.owner > 0 => Rests(s.book, o.owner, 0)
    BY <1>6, <2>3
  <2>6. /\ BookOK(r.book) /\ Len(r.book) = Len(s.book) + 1
        /\ Rests(r.book, o.owner, Rem(o))
        /\ \A u \in Int, q \in Int : u # o.owner /\ Rests(s.book, u, q) => Rests(r.book, u, q)
        /\ \A k \in DOMAIN r.book : (k \in DOMAIN s.book /\ r.book[k] = s.book[k]) \/ r.book[k] = o
    <3>1. r.book = Append(s.book, o) /\ Rem(o) > 0
      BY <2>1, <2>2, <2>3
    <3> QED
      BY <2>3, <2>4, <2>5, <3>1, BookAppend
  <2>7. ASSUME NEW u \in Nat \ {0}, NEW q \in Nat, u # taker.owner, Rests(b, u, q)
        PROVE  Sum(Got(r.fills, u)) <= q /\ Rests(r.book, u, q - Sum(Got(r.fills, u)))
    <3>1. PICK g : g = Sum(Got(s.fills, u))
      OBVIOUS
    <3>2. g \in Nat /\ g <= q /\ Rests(s.book, u, q - g)
      BY <1>3, <1>4, <2>7, <3>1, SumsOfFills DEF Sweeps
    <3>3. q - g \in Int /\ u \in Int
      BY <3>2
    <3> QED
      BY <2>1, <2>3, <2>6, <2>7, <3>1, <3>2, <3>3
  <2>8. ASSUME NEW i \in DOMAIN r.book
        PROVE  \/ \E j \in DOMAIN b : /\ r.book[i].owner = b[j].owner /\ r.book[i].side = b[j].side
                                      /\ r.book[i].price = b[j].price
               \/ /\ r.book[i].owner = taker.owner /\ r.book[i].side = taker.side
                  /\ r.book[i].price = taker.price
    BY <1>3, <2>3, <2>6 DEF Sweeps, ComesFrom, Stood
  <2>9. /\ Len(r.book) <= cap /\ Sum(Qtys(r.fills)) + r.left = taker.qty
        /\ \A k \in DOMAIN r.fills : Fair(r.fills[k], b, taker)
    BY <1>3, <1>4, <2>1, <2>6 DEF Sweeps
  <2>10. Onward(r.book, b, taker.owner)
    <3>1. Onward(s.book, b, taker.owner)
      BY <1>3, OnwardFrom DEF Sweeps
    <3>2. \A i \in DOMAIN r.book : r.book[i].owner # o.owner => Stood(r.book, i, s.book)
      BY <2>1, <2>2, <2>3, <2>4, AppendedStood DEF BookOK
    <3>3. Onward(r.book, s.book, taker.owner)
      BY <2>3, <3>2 DEF Onward
    <3> QED
      BY <3>1, <3>3, OnwardFurther
  <2> QED
    BY <1>2, <1>4, <1>6, <2>1, <2>3, <2>6, <2>7, <2>8, <2>9, <2>10 DEF Dealt
<1> QED
  BY <1>1, <1>2, <1>7, <1>8, <1>9, SubmitCases

\* A cancel takes the order out and tells what it had, or finds nothing.
Withdrawn(r, b, owner) ==
  /\ BookOK(r.book) /\ Len(r.book) <= Len(b) /\ ComesFrom(r.book, b)
  /\ \A u \in Int, q \in Int : u # owner /\ Rests(b, u, q) => Rests(r.book, u, q)
  /\ r.rc = "ok" => r.left \in Nat \ {0} /\ Rests(b, owner, r.left)
  /\ r.rc # "ok" => r.book = b /\ Rests(b, owner, 0)
  /\ owner > 0 => Rests(r.book, owner, 0)

LEMMA CancelContract ==
  ASSUME NEW b, BookOK(b), NEW owner \in Int
  PROVE  Withdrawn(match_cancel(b, owner), b, owner)
<1>0. b \in Seq(BookOrder) /\ Len(b) \in Nat
  BY DEF BookOK
<1>1. PICK mine : mine = {i \in DOMAIN b : b[i].owner = owner}
  OBVIOUS
<1>2. PICK i : i = CHOOSE k \in mine : TRUE
  OBVIOUS
<1>3. PICK r : r = match_cancel(b, owner)
  OBVIOUS
<1>4. CASE mine = {}
  <2>1. Rests(b, owner, 0)
    BY <1>1, <1>4 DEF Rests
  <2>2. r.rc = "not_found" /\ r.book = b
    BY <1>1, <1>3, <1>4 DEF match_cancel, Result
  <2> QED
    BY <1>0, <1>3, <2>1, <2>2, ComesFromItself DEF Withdrawn
<1>5. CASE mine # {}
  <2>1. i \in DOMAIN b /\ b[i].owner = owner
    BY <1>1, <1>2, <1>5
  <2>2. r.rc = "ok" /\ r.book = RemoveAt(b, i) /\ r.left = Rem(b[i])
    BY <1>1, <1>2, <1>3, <1>5 DEF match_cancel, Result
  <2>3. Rem(b[i]) > 0 /\ Rem(b[i]) \in Nat \ {0}
    <3>1. PICK o \in BookOrder : o = b[i]
      BY <1>0, <2>1
    <3>2. Rem(o) \in Int
      BY DEF BookOrder, Rem
    <3>3. Rem(b[i]) > 0
      BY <2>1 DEF BookOK
    <3> QED
      BY <3>1, <3>2, <3>3
  <2>4. Rests(b, owner, r.left)
    BY <2>1, <2>2, <2>3 DEF Rests
  <2>5. /\ BookOK(r.book) /\ Len(r.book) = Len(b) - 1 /\ ComesFrom(r.book, b)
        /\ owner > 0 => Rests(r.book, owner, 0)
        /\ \A u \in Int, q \in Int : u # owner /\ Rests(b, u, q) => Rests(r.book, u, q)
    BY <2>1, <2>2, BookRemove
  <2>6. Len(r.book) <= Len(b) /\ r.left \in Nat \ {0}
    BY <1>0, <2>2, <2>3, <2>5
  <2>7. Withdrawn(r, b, owner)
    BY <2>2, <2>4, <2>5, <2>6, ZenonT(60) DEF Withdrawn
  <2> QED
    BY <1>3, <2>7
<1> QED
  BY <1>4, <1>5

-----------------------------------------------------------------------------
(* Legs and orders.                                                         *)

LegRec == [sent : Nat, filled : Nat, canceled : Nat, notional : Nat,
           live : BOOLEAN, accepted : BOOLEAN]

\* What every leg of the map is: it has done no more than was sent, is live as
\* long as something is left, and has money booked where shares were.
LegOK(l) ==
  /\ l \in LegRec /\ LegLeft(l) >= 0
  /\ l.live <=> LegLeft(l) > 0
  /\ l.filled = 0 <=> l.notional = 0

LEMMA NewLegFacts ==
  ASSUME NEW qty \in Nat \ {0}
  PROVE  LET l == NewLeg(qty)
         IN  LegOK(l) /\ LegLeft(l) = qty /\ l.sent = qty /\ l.filled = 0 /\ l.canceled = 0
             /\ l.notional = 0 /\ ~l.accepted
<1>1. PICK l : l = NewLeg(qty)
  OBVIOUS
<1>2. /\ l.sent = qty /\ l.filled = 0 /\ l.canceled = 0 /\ l.notional = 0
      /\ l.live = TRUE /\ l.accepted = FALSE /\ l \in LegRec
  BY <1>1 DEF NewLeg, LegRec
<1>3. LegLeft(l) = qty
  BY <1>2 DEF LegLeft
<1> QED
  BY <1>1, <1>2, <1>3 DEF LegOK

LEMMA ClosedFacts ==
  ASSUME NEW z \in LegRec, NEW t, t = Closed(z)
  PROVE  /\ t \in LegRec /\ t.sent = z.sent /\ t.filled = z.filled /\ t.canceled = z.canceled
         /\ t.notional = z.notional /\ t.accepted = z.accepted
         /\ t.live <=> z.live /\ LegLeft(z) > 0
<1>1. t = [z EXCEPT !.live = z.live /\ LegLeft(z) > 0]
  BY DEF Closed
<1>2. /\ t.sent = z.sent /\ t.filled = z.filled /\ t.canceled = z.canceled
      /\ t.notional = z.notional /\ t.accepted = z.accepted
  BY <1>1 DEF LegRec
<1>3. t.live = (z.live /\ LegLeft(z) > 0)
  BY <1>1 DEF LegRec
<1>4. t \in LegRec
  <2>1. (z.live /\ LegLeft(z) > 0) \in BOOLEAN
    OBVIOUS
  <2> QED
    BY <1>1, <2>1 DEF LegRec
<1> QED
  BY <1>2, <1>3, <1>4

\* A fill takes from what the leg has left and closes it when that was all.
LEMMA FilledLeg ==
  ASSUME NEW l, LegOK(l), NEW q, q \in Nat, Takes(l, q), NEW n \in Nat \ {0},
         NEW t, t = omap_on_fill(l, q, n)
  PROVE  /\ LegOK(t) /\ LegLeft(t) = LegLeft(l) - q
         /\ t.sent = l.sent /\ t.canceled = l.canceled /\ t.accepted = l.accepted
         /\ t.filled = l.filled + q /\ t.notional = l.notional + n
<1>1. /\ l \in LegRec /\ l.sent \in Nat /\ l.filled \in Nat /\ l.canceled \in Nat /\ l.notional \in Nat
      /\ q > 0 /\ q <= LegLeft(l)
  BY DEF LegOK, LegRec, Takes
<1>2. PICK z : z = [l EXCEPT !.filled = l.filled + q, !.notional = l.notional + n]
  OBVIOUS
<1>3. l.filled + q \in Nat /\ l.notional + n \in Nat
  BY <1>1
<1>4. /\ z \in LegRec /\ z.sent = l.sent /\ z.canceled = l.canceled /\ z.live = l.live
      /\ z.accepted = l.accepted /\ z.filled = l.filled + q /\ z.notional = l.notional + n
  BY <1>1, <1>2, <1>3 DEF LegRec
<1>5. t = Closed(z)
  BY <1>2 DEF omap_on_fill
<1>6. /\ t \in LegRec /\ t.sent = z.sent /\ t.filled = z.filled /\ t.canceled = z.canceled
      /\ t.notional = z.notional /\ t.accepted = z.accepted
      /\ t.live <=> z.live /\ LegLeft(z) > 0
  BY <1>4, <1>5, ClosedFacts
<1>7. LegLeft(z) = LegLeft(l) - q /\ LegLeft(t) = LegLeft(z)
  BY <1>1, <1>4, <1>6 DEF LegLeft
<1>8. LegLeft(l) \in Int
  BY <1>1 DEF LegLeft
<1>9. z.live
  BY <1>1, <1>4, <1>8 DEF LegOK
<1>10. LegLeft(t) >= 0 /\ (t.live <=> LegLeft(t) > 0)
  BY <1>1, <1>6, <1>7, <1>8, <1>9
<1>11. t.filled # 0 /\ t.notional # 0
  BY <1>1, <1>4, <1>6
<1> QED
  BY <1>4, <1>6, <1>7, <1>10, <1>11 DEF LegOK

LEMMA CanceledLeg ==
  ASSUME NEW l, LegOK(l), NEW q, q \in Nat, Takes(l, q), NEW t, t = omap_on_cancel(l, q)
  PROVE  /\ LegOK(t) /\ LegLeft(t) = LegLeft(l) - q
         /\ t.sent = l.sent /\ t.filled = l.filled /\ t.accepted = l.accepted
         /\ t.canceled = l.canceled + q /\ t.notional = l.notional
<1>1. /\ l \in LegRec /\ l.sent \in Nat /\ l.filled \in Nat /\ l.canceled \in Nat /\ l.notional \in Nat
      /\ q > 0 /\ q <= LegLeft(l)
  BY DEF LegOK, LegRec, Takes
<1>2. PICK z : z = [l EXCEPT !.canceled = l.canceled + q]
  OBVIOUS
<1>3. l.canceled + q \in Nat
  BY <1>1
<1>4. /\ z \in LegRec /\ z.sent = l.sent /\ z.filled = l.filled /\ z.live = l.live
      /\ z.accepted = l.accepted /\ z.canceled = l.canceled + q /\ z.notional = l.notional
  BY <1>1, <1>2, <1>3 DEF LegRec
<1>5. t = Closed(z)
  BY <1>2 DEF omap_on_cancel
<1>6. /\ t \in LegRec /\ t.sent = z.sent /\ t.filled = z.filled /\ t.canceled = z.canceled
      /\ t.notional = z.notional /\ t.accepted = z.accepted
      /\ t.live <=> z.live /\ LegLeft(z) > 0
  BY <1>4, <1>5, ClosedFacts
<1>7. LegLeft(z) = LegLeft(l) - q /\ LegLeft(t) = LegLeft(z)
  BY <1>1, <1>4, <1>6 DEF LegLeft
<1>8. LegLeft(l) \in Int
  BY <1>1 DEF LegLeft
<1>9. z.live
  BY <1>1, <1>4, <1>8 DEF LegOK
<1>10. LegLeft(t) >= 0 /\ (t.live <=> LegLeft(t) > 0)
  BY <1>1, <1>6, <1>7, <1>8, <1>9
<1>11. t.filled = 0 <=> t.notional = 0
  BY <1>4, <1>6 DEF LegOK
<1> QED
  BY <1>4, <1>6, <1>7, <1>10, <1>11 DEF LegOK

LEMMA AcceptedLeg ==
  ASSUME NEW l, LegOK(l), NEW t, t = omap_on_accept(l)
  PROVE  /\ LegOK(t) /\ LegLeft(t) = LegLeft(l) /\ t.accepted
         /\ t.sent = l.sent /\ t.filled = l.filled /\ t.canceled = l.canceled /\ t.notional = l.notional
<1>1. l \in LegRec
  BY DEF LegOK
<1>2. t = [l EXCEPT !.accepted = TRUE]
  BY DEF omap_on_accept
<1>3. /\ t \in LegRec /\ t.accepted = TRUE /\ t.live = l.live
      /\ t.sent = l.sent /\ t.filled = l.filled /\ t.canceled = l.canceled /\ t.notional = l.notional
  BY <1>1, <1>2 DEF LegRec
<1>4. LegLeft(t) = LegLeft(l)
  BY <1>3 DEF LegLeft
<1> QED
  BY <1>3, <1>4 DEF LegOK

LEMMA MarketsFinite == IsFiniteSet(Markets)
<1>1. PICK n \in Nat : DOMAIN Venues = 1..n
  BY VenuesAssumption
<1>2. IsFiniteSet(1..n)
  BY <1>1, FS_Interval
<1>3. Venues \in Surjection(1..n, Markets)
  BY <1>1, VenuesAssumption DEF Surjection, Markets, Range
<1> QED
  BY <1>2, <1>3, FS_Surjection

Field(legs, field) == [m \in DOMAIN legs |-> legs[m][field]]
Left(legs)         == [m \in DOMAIN legs |-> LegLeft(legs[m])]

LEMMA OverIsPart ==
  ASSUME NEW legs, NEW field
  PROVE  Over(legs, field) = Part(Field(legs, field), DOMAIN legs)
<1>1. DOMAIN Field(legs, field) = DOMAIN legs
  BY DEF Field
<1>2. Over(legs, field) = Part(Field(legs, field), DOMAIN Field(legs, field))
  BY DEF Over, Part, FoldFunction, Field
<1> QED
  BY <1>1, <1>2

LegsOK(legs) == DOMAIN legs \in SUBSET Markets /\ \A m \in DOMAIN legs : LegOK(legs[m])

LEMMA LegTypes ==
  ASSUME NEW l, LegOK(l)
  PROVE  /\ l.sent \in Nat /\ l.filled \in Nat /\ l.canceled \in Nat /\ l.notional \in Nat
         /\ LegLeft(l) \in Nat /\ LegLeft(l) = l.sent - l.filled - l.canceled
<1>1. l.sent \in Nat /\ l.filled \in Nat /\ l.canceled \in Nat /\ l.notional \in Nat
  BY DEF LegOK, LegRec
<1>2. LegLeft(l) = l.sent - l.filled - l.canceled /\ LegLeft(l) >= 0
  BY DEF LegOK, LegLeft
<1> QED
  BY <1>1, <1>2

\* The totals of an order are natural numbers, and no leg has more than they.
LEMMA Totals ==
  ASSUME NEW legs, LegsOK(legs), NEW field \in {"sent", "filled", "canceled", "notional"}
  PROVE  /\ IsFiniteSet(DOMAIN legs)
         /\ Over(legs, field) \in Nat /\ Over(legs, field) = Part(Field(legs, field), DOMAIN legs)
         /\ \A m \in DOMAIN legs : /\ Field(legs, field)[m] \in Nat
                                   /\ Field(legs, field)[m] <= Over(legs, field)
<1>1. IsFiniteSet(DOMAIN legs)
  BY MarketsFinite, FS_Subset DEF LegsOK
<1>2. ASSUME NEW m \in DOMAIN legs PROVE Field(legs, field)[m] \in Nat
  <2>1. LegOK(legs[m])
    BY DEF LegsOK
  <2>2. PICK l : l = legs[m]
    OBVIOUS
  <2>3. l.sent \in Nat /\ l.filled \in Nat /\ l.canceled \in Nat /\ l.notional \in Nat
    BY <2>1, <2>2, LegTypes
  <2>4. l[field] \in Nat
    BY <2>3
  <2> QED
    BY <2>2, <2>4 DEF Field
<1> QED
  BY <1>1, <1>2, PartNat, OverIsPart

\* What one leg's change does to a total.
LEMMA TotalChange ==
  ASSUME NEW legs, LegsOK(legs), NEW m \in DOMAIN legs, NEW l, LegOK(l),
         NEW legs2, legs2 = [legs EXCEPT ![m] = l],
         NEW field \in {"sent", "filled", "canceled", "notional"}
  PROVE  LegsOK(legs2) /\ Over(legs2, field) = Over(legs, field) - legs[m][field] + l[field]
<1>1. DOMAIN legs2 = DOMAIN legs /\ legs2[m] = l /\ \A k \in DOMAIN legs : k # m => legs2[k] = legs[k]
  OBVIOUS
<1>2. LegsOK(legs2)
  BY <1>1 DEF LegsOK
<1>3. /\ IsFiniteSet(DOMAIN legs)
      /\ Over(legs, field) = Part(Field(legs, field), DOMAIN legs)
      /\ \A k \in DOMAIN legs : Field(legs, field)[k] \in Nat
  BY Totals
<1>4. /\ Over(legs2, field) = Part(Field(legs2, field), DOMAIN legs)
      /\ \A k \in DOMAIN legs : Field(legs2, field)[k] \in Nat
  BY <1>1, <1>2, Totals
<1>5. PICK f, g : f = Field(legs, field) /\ g = Field(legs2, field)
  OBVIOUS
<1>6. \A k \in DOMAIN legs \ {m} : g[k] = f[k]
  BY <1>1, <1>5 DEF Field
<1>7. f[m] = legs[m][field] /\ g[m] = l[field]
  BY <1>1, <1>5 DEF Field
<1>8. Part(g, DOMAIN legs) = Part(f, DOMAIN legs) - f[m] + g[m]
  <2>1. \A k \in DOMAIN legs : f[k] \in Nat /\ g[k] \in Nat
    BY <1>3, <1>4, <1>5, Zenon
  <2> QED
    BY <1>3, <1>6, <2>1, PartChange, SMTT(30)
<1> QED
  BY <1>2, <1>3, <1>4, <1>5, <1>7, <1>8

\* An order of the map: its legs are sound and were sent its whole quantity.
MarketNames == {r.market : r \in Requests}

OrderRec == [acct : Accounts, side : Side, limit : Nat \ {0}, qty : Nat \ {0},
             market : MarketNames, legs : UNION {[D -> LegRec] : D \in SUBSET Markets}]

OrderOK(lo) == lo \in OrderRec /\ LegsOK(lo.legs) /\ Over(lo.legs, "sent") = lo.qty

LEMMA OrderTypes ==
  ASSUME NEW lo \in OrderRec
  PROVE  /\ lo.acct \in Accounts /\ lo.side \in Side /\ lo.limit \in Nat \ {0} /\ lo.qty \in Nat \ {0}
         /\ lo.market \in MarketNames /\ DOMAIN lo.legs \in SUBSET Markets
         /\ lo.legs \in [DOMAIN lo.legs -> LegRec]
         /\ lo = [acct |-> lo.acct, side |-> lo.side, limit |-> lo.limit, qty |-> lo.qty,
                  market |-> lo.market, legs |-> lo.legs]
  BY DEF OrderRec

\* What the map says remains of an order is what its legs have left.
LEMMA OrderTotals ==
  ASSUME NEW lo, OrderOK(lo)
  PROVE  /\ omap_filled_qty(lo) \in Nat /\ omap_canceled_qty(lo) \in Nat /\ omap_notional(lo) \in Nat
         /\ omap_remaining(lo) \in Nat
         /\ omap_remaining(lo) = lo.qty - omap_filled_qty(lo) - omap_canceled_qty(lo)
         /\ \A m \in DOMAIN lo.legs : LegLeft(lo.legs[m]) <= omap_remaining(lo)
         /\ omap_remaining(lo) = 0 <=> \A m \in DOMAIN lo.legs : LegLeft(lo.legs[m]) = 0
<1> DEFINE D == DOMAIN lo.legs
<1>1. LegsOK(lo.legs) /\ Over(lo.legs, "sent") = lo.qty
  BY DEF OrderOK
<1>2. PICK S, F, C, L : /\ S = Field(lo.legs, "sent") /\ F = Field(lo.legs, "filled")
                        /\ C = Field(lo.legs, "canceled") /\ L = Left(lo.legs)
  OBVIOUS
<1>3. /\ IsFiniteSet(D)
      /\ Part(S, D) = lo.qty /\ Part(S, D) \in Nat
      /\ Part(F, D) = omap_filled_qty(lo) /\ Part(F, D) \in Nat
      /\ Part(C, D) = omap_canceled_qty(lo) /\ Part(C, D) \in Nat
      /\ omap_notional(lo) \in Nat
  <2>1. IsFiniteSet(D) /\ Over(lo.legs, "sent") \in Nat /\ Over(lo.legs, "sent") = Part(S, D)
    BY <1>1, <1>2, Totals
  <2>2. Over(lo.legs, "filled") \in Nat /\ Over(lo.legs, "filled") = Part(F, D)
    BY <1>1, <1>2, Totals
  <2>3. Over(lo.legs, "canceled") \in Nat /\ Over(lo.legs, "canceled") = Part(C, D)
    BY <1>1, <1>2, Totals
  <2>4. Over(lo.legs, "notional") \in Nat
    BY <1>1, Totals
  <2> QED
    BY <1>1, <2>1, <2>2, <2>3, <2>4 DEF omap_filled_qty, omap_canceled_qty, omap_notional
<1>4. ASSUME NEW m \in D
      PROVE  /\ S[m] \in Nat /\ F[m] \in Nat /\ C[m] \in Nat /\ L[m] \in Nat
             /\ L[m] = LegLeft(lo.legs[m]) /\ L[m] = S[m] - F[m] - C[m]
  <2>1. PICK l : l = lo.legs[m]
    OBVIOUS
  <2>2. LegOK(l)
    BY <1>1, <2>1 DEF LegsOK
  <2>3. /\ l.sent \in Nat /\ l.filled \in Nat /\ l.canceled \in Nat
        /\ LegLeft(l) \in Nat /\ LegLeft(l) = l.sent - l.filled - l.canceled
    BY <2>2, LegTypes
  <2>4. S[m] = l.sent /\ F[m] = l.filled /\ C[m] = l.canceled /\ L[m] = LegLeft(l)
    BY <1>2, <2>1 DEF Field, Left
  <2> QED
    BY <2>1, <2>3, <2>4
<1>5. Part(S, D) = Part(L, D) + Part(F, D) + Part(C, D)
  <2> DEFINE E == [m \in D |-> L[m] + F[m]]
  <2>1. \A m \in D : L[m] \in Int /\ F[m] \in Int /\ C[m] \in Int
    BY <1>4
  <2>2. \A m \in D : E[m] = L[m] + F[m] /\ E[m] \in Int
    BY <2>1
  <2>3. \A m \in D : S[m] = E[m] + C[m]
    <3> TAKE m \in D
    <3>1. PICK sm, fm, cm, lm : sm = S[m] /\ fm = F[m] /\ cm = C[m] /\ lm = L[m]
      OBVIOUS
    <3>2. sm \in Nat /\ fm \in Nat /\ cm \in Nat /\ lm = sm - fm - cm
      BY <1>4, <3>1
    <3>3. sm = (lm + fm) + cm
      BY <3>2
    <3> QED
      BY <2>2, <3>1, <3>3
  <2> HIDE DEF E
  <2>4. Part(E, D) = Part(L, D) + Part(F, D)
    BY <1>3, <2>1, <2>2, PartPlus
  <2>5. Part(S, D) = Part(E, D) + Part(C, D)
    BY <1>3, <2>1, <2>2, <2>3, PartPlus
  <2> QED
    BY <2>4, <2>5
<1>6. /\ Part(L, D) \in Nat /\ \A m \in D : L[m] <= Part(L, D)
  BY <1>3, <1>4, PartNat
<1>7. omap_remaining(lo) = Part(L, D)
  <2>1. omap_remaining(lo) = lo.qty - omap_filled_qty(lo) - omap_canceled_qty(lo)
    BY DEF omap_remaining
  <2>2. PICK s, f, c, l : s = Part(S, D) /\ f = Part(F, D) /\ c = Part(C, D) /\ l = Part(L, D)
    OBVIOUS
  <2>3. s = l + f + c /\ s \in Nat /\ f \in Nat /\ c \in Nat /\ l \in Nat /\ omap_remaining(lo) = s - f - c
    BY <1>3, <1>5, <1>6, <2>1, <2>2
  <2> QED
    BY <2>2, <2>3
<1>8. Part(L, D) = 0 <=> \A m \in D : L[m] = 0
  <2>1. ASSUME Part(L, D) = 0, NEW m \in D PROVE L[m] = 0
    BY <1>4, <1>6, <2>1
  <2>2. ASSUME \A m \in D : L[m] = 0 PROVE Part(L, D) = 0
    BY <1>3, <2>2, PartZero
  <2> QED
    BY <2>1, <2>2
<1> QED
  BY <1>3, <1>4, <1>6, <1>7, <1>8 DEF omap_remaining

-----------------------------------------------------------------------------
(* What an account operation makes of an account.                           *)

LEMMA FieldNames ==
  /\ "cash" \in Fields /\ "reserved" \in Fields /\ "qty" \in Fields
  /\ "cost" \in Fields /\ "held" \in Fields /\ "realized" \in Fields
  /\ Fields = {"cash", "reserved", "qty", "cost", "held", "realized"}
  BY DEF Fields, CashFields, PosFields

LEMMA FieldTypes ==
  ASSUME NEW a \in Account
  PROVE  /\ a.cash \in Int /\ a.reserved \in Int /\ a.qty \in Int
         /\ a.cost \in Int /\ a.held \in Int /\ a.realized \in Int
  BY FieldNames DEF Account

LEMMA OneField ==
  ASSUME NEW a \in Account, NEW f \in Fields, NEW v \in Int, NEW b, b = [a EXCEPT ![f] = v]
  PROVE  b \in Account /\ b[f] = v /\ \A g \in Fields : g # f => b[g] = a[g]
  BY DEF Account

LEMMA DepositIs ==
  ASSUME NEW a \in Account, NEW n \in Int, NEW b, b = Outcome(a, Ask("deposit", n))
  PROVE  /\ b \in Account /\ b.cash = a.cash + n /\ b.reserved = a.reserved
         /\ b.qty = a.qty /\ b.cost = a.cost /\ b.held = a.held /\ b.realized = a.realized
<1>1. b = [a EXCEPT !["cash"] = a.cash + n]
  BY DEF Outcome, Ask
<1>2. a.cash + n \in Int
  BY FieldTypes
<1> QED
  BY <1>1, <1>2, OneField, FieldNames

LEMMA ReserveIs ==
  ASSUME NEW a \in Account, NEW n \in Int, NEW b, b = Outcome(a, Ask("reserve", n))
  PROVE  /\ b \in Account /\ b.cash = a.cash /\ b.reserved = a.reserved + n
         /\ b.qty = a.qty /\ b.cost = a.cost /\ b.held = a.held /\ b.realized = a.realized
<1>1. b = [a EXCEPT !["reserved"] = a.reserved + n]
  BY DEF Outcome, Ask
<1>2. a.reserved + n \in Int
  BY FieldTypes
<1> QED
  BY <1>1, <1>2, OneField, FieldNames

LEMMA ReleaseIs ==
  ASSUME NEW a \in Account, NEW n \in Int, NEW b, b = Outcome(a, Ask("release", n))
  PROVE  /\ b \in Account /\ b.cash = a.cash /\ b.reserved = a.reserved - n
         /\ b.qty = a.qty /\ b.cost = a.cost /\ b.held = a.held /\ b.realized = a.realized
<1>1. b = [a EXCEPT !["reserved"] = a.reserved - n]
  BY DEF Outcome, Ask
<1>2. a.reserved - n \in Int
  BY FieldTypes
<1> QED
  BY <1>1, <1>2, OneField, FieldNames

LEMMA SettleIs ==
  ASSUME NEW a \in Account, NEW n \in Int, NEW b, b = Outcome(a, Ask("settle", n))
  PROVE  /\ b \in Account /\ b.cash = a.cash - n /\ b.reserved = a.reserved - n
         /\ b.qty = a.qty /\ b.cost = a.cost /\ b.held = a.held /\ b.realized = a.realized
<1>1. b = [a EXCEPT !["cash"] = a.cash - n, !["reserved"] = a.reserved - n]
  BY DEF Outcome, Ask
<1>2. a.cash - n \in Int /\ a.reserved - n \in Int
  BY FieldTypes
<1>3. PICK c : c = [a EXCEPT !["cash"] = a.cash - n]
  OBVIOUS
<1>4. /\ c \in Account /\ c.cash = a.cash - n /\ c.reserved = a.reserved
      /\ c.qty = a.qty /\ c.cost = a.cost /\ c.held = a.held /\ c.realized = a.realized
  <2>1. c \in Account /\ c["cash"] = a.cash - n /\ \A g \in Fields : g # "cash" => c[g] = a[g]
    BY <1>2, <1>3, FieldNames DEF Account
  <2> QED
    BY <2>1, FieldNames
<1>5. b = [c EXCEPT !["reserved"] = a.reserved - n]
  BY <1>1, <1>3
<1> QED
  BY <1>2, <1>4, <1>5, OneField, FieldNames

Bought(b, a, q, p) ==
  /\ b \in Account /\ b.cash = a.cash /\ b.reserved = a.reserved
  /\ b.qty = a.qty + q /\ b.cost = a.cost + p * q /\ b.held = a.held /\ b.realized = a.realized

LEMMA BuyFillIs ==
  ASSUME NEW a \in Account, NEW q \in Int, NEW p \in Int
  PROVE  Bought(Outcome(a, AskAt("buy_fill", q, p)), a, q, p)
<1>0. PICK b : b = Outcome(a, AskAt("buy_fill", q, p))
  OBVIOUS
<1>1. PICK w : w = p * q
  OBVIOUS
<1>2. b = [a EXCEPT !["qty"] = a.qty + q, !["cost"] = a.cost + w]
  BY <1>0, <1>1 DEF Outcome, AskAt
<1>3. a.qty + q \in Int /\ a.cost + w \in Int
  BY <1>1, FieldTypes
<1>4. PICK c : c = [a EXCEPT !["qty"] = a.qty + q]
  OBVIOUS
<1>5. /\ c \in Account /\ c.cash = a.cash /\ c.reserved = a.reserved
      /\ c.qty = a.qty + q /\ c.cost = a.cost /\ c.held = a.held /\ c.realized = a.realized
  <2>1. c \in Account /\ c["qty"] = a.qty + q /\ \A g \in Fields : g # "qty" => c[g] = a[g]
    BY <1>3, <1>4, FieldNames DEF Account
  <2> QED
    BY <2>1, FieldNames
<1>6. b = [c EXCEPT !["cost"] = a.cost + w]
  BY <1>2, <1>4
<1>7. /\ b \in Account /\ b.cash = a.cash /\ b.reserved = a.reserved
      /\ b.qty = a.qty + q /\ b.cost = a.cost + w /\ b.held = a.held /\ b.realized = a.realized
  BY <1>3, <1>5, <1>6, FieldNames DEF Account
<1> QED
  BY <1>0, <1>1, <1>7 DEF Bought

LEMMA SellReserveIs ==
  ASSUME NEW a \in Account, NEW n \in Int, NEW b, b = Outcome(a, Ask("sell_reserve", n))
  PROVE  /\ b \in Account /\ b.cash = a.cash /\ b.reserved = a.reserved
         /\ b.qty = a.qty /\ b.cost = a.cost /\ b.held = a.held + n /\ b.realized = a.realized
<1>1. b = [a EXCEPT !["held"] = a.held + n]
  BY DEF Outcome, Ask
<1>2. a.held + n \in Int
  BY FieldTypes
<1> QED
  BY <1>1, <1>2, OneField, FieldNames

LEMMA SellReleaseIs ==
  ASSUME NEW a \in Account, NEW n \in Int, NEW b, b = Outcome(a, Ask("sell_release", n))
  PROVE  /\ b \in Account /\ b.cash = a.cash /\ b.reserved = a.reserved
         /\ b.qty = a.qty /\ b.cost = a.cost /\ b.held = a.held - n /\ b.realized = a.realized
<1>1. b = [a EXCEPT !["held"] = a.held - n]
  BY DEF Outcome, Ask
<1>2. a.held - n \in Int
  BY FieldTypes
<1> QED
  BY <1>1, <1>2, OneField, FieldNames

\* The share of the cost a sale takes out is between nothing and all of it,
\* and all of it when everything is sold.
LEMMA CostOutIs ==
  ASSUME NEW a \in Account, NEW q \in Int, 0 < q, q <= a.qty, a.cost >= 0
  PROVE  /\ CostOut(a, q) \in Int /\ 0 <= CostOut(a, q) /\ CostOut(a, q) <= a.cost
         /\ q = a.qty => CostOut(a, q) = a.cost
<1>1. a.cost \in Int /\ a.qty \in Int
  BY FieldTypes
<1>2. CASE q = a.qty
  BY <1>1, <1>2 DEF CostOut
<1>3. CASE q # a.qty
  <2>1. PICK c, n : c = a.cost /\ n = a.qty
    OBVIOUS
  <2>2. c \in Nat /\ n \in Nat \ {0} /\ q \in Nat /\ q < n
    BY <1>1, <1>3, <2>1
  <2>3. PICK x : x = (c * q) \div n
    OBVIOUS
  <2>4. CostOut(a, q) = x
    BY <1>3, <2>1, <2>3 DEF CostOut
  <2>5. c * q \in Nat /\ c * q <= c * n
    BY <2>2, SMTT(20)
  <2>6. PICK w : w = c * q
    OBVIOUS
  <2>7. x \in Int /\ 0 <= x /\ n * x <= w
    BY <2>2, <2>3, <2>5, <2>6, SMTT(20)
  <2>8. ~(x > c)
    <3>1. ASSUME x > c PROVE FALSE
      <4>1. n * x >= n * (c + 1)
        BY <2>2, <2>7, <3>1, SMTT(20)
      <4>2. n * (c + 1) = c * n + n
        BY <2>2, SMTT(20)
      <4> QED
        BY <2>2, <2>5, <2>6, <2>7, <4>1, <4>2, SMTT(20)
    <3> QED
      BY <3>1
  <2> QED
    BY <1>3, <2>1, <2>2, <2>4, <2>7, <2>8
<1> QED
  BY <1>2, <1>3

Sold(b, a, q, p) ==
  /\ b \in Account /\ b.cash = a.cash /\ b.reserved = a.reserved
  /\ b.qty = a.qty - q /\ b.held = a.held - q /\ b.cost = a.cost - CostOut(a, q)
  /\ b.realized = a.realized + p * q - CostOut(a, q)

LEMMA SellFillIs ==
  ASSUME NEW a \in Account, NEW q \in Int, NEW p \in Int, CostOut(a, q) \in Int
  PROVE  Sold(Outcome(a, AskAt("sell_fill", q, p)), a, q, p)
<1>0. PICK b : b = Outcome(a, AskAt("sell_fill", q, p))
  OBVIOUS
<1>1. PICK w, x : w = p * q /\ x = CostOut(a, q)
  OBVIOUS
<1>2. b = [a EXCEPT !["qty"] = a.qty - q, !["held"] = a.held - q, !["cost"] = a.cost - x,
                    !["realized"] = a.realized + w - x]
  BY <1>0, <1>1 DEF Outcome, AskAt
<1>3. a.qty - q \in Int /\ a.held - q \in Int /\ a.cost - x \in Int /\ a.realized + w - x \in Int
  BY <1>1, FieldTypes
<1>4. PICK c : c = [a EXCEPT !["qty"] = a.qty - q]
  OBVIOUS
<1>5. /\ c \in Account /\ c.cash = a.cash /\ c.reserved = a.reserved
      /\ c.qty = a.qty - q /\ c.cost = a.cost /\ c.held = a.held /\ c.realized = a.realized
  <2>1. c \in Account /\ c["qty"] = a.qty - q /\ \A g \in Fields : g # "qty" => c[g] = a[g]
    BY <1>3, <1>4, FieldNames DEF Account
  <2> QED
    BY <2>1, FieldNames
<1>6. PICK d : d = [c EXCEPT !["held"] = a.held - q]
  OBVIOUS
<1>7. /\ d \in Account /\ d.cash = a.cash /\ d.reserved = a.reserved
      /\ d.qty = a.qty - q /\ d.cost = a.cost /\ d.held = a.held - q /\ d.realized = a.realized
  <2>1. d \in Account /\ d["held"] = a.held - q /\ \A g \in Fields : g # "held" => d[g] = c[g]
    BY <1>3, <1>5, <1>6, FieldNames DEF Account
  <2> QED
    BY <1>5, <2>1, FieldNames
<1>8. PICK e : e = [d EXCEPT !["cost"] = a.cost - x]
  OBVIOUS
<1>9. /\ e \in Account /\ e.cash = a.cash /\ e.reserved = a.reserved
      /\ e.qty = a.qty - q /\ e.cost = a.cost - x /\ e.held = a.held - q /\ e.realized = a.realized
  <2>1. e \in Account /\ e["cost"] = a.cost - x /\ \A g \in Fields : g # "cost" => e[g] = d[g]
    BY <1>3, <1>7, <1>8, FieldNames DEF Account
  <2> QED
    BY <1>7, <2>1, FieldNames
<1>10. b = [e EXCEPT !["realized"] = a.realized + w - x]
  BY <1>2, <1>4, <1>6, <1>8
<1>11. /\ b \in Account /\ b.cash = a.cash /\ b.reserved = a.reserved
       /\ b.qty = a.qty - q /\ b.held = a.held - q /\ b.cost = a.cost - x
       /\ b.realized = a.realized + w - x
  BY <1>3, <1>9, <1>10, FieldNames DEF Account
<1> QED
  BY <1>0, <1>1, <1>11 DEF Sold

\* An account as the ledger keeps it between two operations.
Balanced(a)  == a \in Account /\ Sound(a) /\ (a.qty = 0 => a.cost = 0)
WorthOf(a)   == a.cash + a.cost - a.realized

LEMMA BalancedIs ==
  ASSUME NEW a
  PROVE  Balanced(a) <=> /\ a \in Account
                         /\ 0 <= a.cash /\ 0 <= a.reserved /\ a.reserved <= a.cash
                         /\ 0 <= a.qty /\ 0 <= a.cost /\ 0 <= a.held /\ a.held <= a.qty
                         /\ a.qty = 0 => a.cost = 0
<1>1. CASE a \in Account
  BY <1>1, FieldTypes DEF Balanced, Sound, invariant_ok, pos_ok
<1> QED
  BY <1>1 DEF Balanced

\* A buyer who has the limit price of its shares reserved can pay for them.
LEMMA BuyerPays ==
  ASSUME NEW a, Balanced(a), NEW p \in Nat \ {0}, NEW q \in Nat \ {0}, NEW limit \in Nat, p <= limit,
         limit * q <= a.reserved,
         NEW b, b = Outcome(a, Ask("settle", p * q)),
         NEW c, c = IF (limit - p) * q > 0 THEN Outcome(b, Ask("release", (limit - p) * q)) ELSE b,
         NEW d, d = Outcome(c, AskAt("buy_fill", q, p))
  PROVE  /\ p * q \in Int /\ (limit - p) * q \in Int /\ (limit - p) * q >= 0
         /\ Accepts(a, Ask("settle", p * q))
         /\ (limit - p) * q > 0 => Accepts(b, Ask("release", (limit - p) * q))
         /\ Accepts(c, AskAt("buy_fill", q, p))
         /\ Balanced(d) /\ WorthOf(d) = WorthOf(a)
         /\ d.reserved = a.reserved - limit * q /\ d.held = a.held
         /\ d.cash = a.cash - p * q /\ d.qty = a.qty + q
<1>1. PICK w, gain, all : w = p * q /\ gain = (limit - p) * q /\ all = limit * q
  OBVIOUS
<1>2. w \in Nat /\ w > 0 /\ all \in Nat /\ gain \in Nat /\ gain = all - w
  <2>1. (limit - p) * q = limit * q - p * q
    BY SMTT(20)
  <2>2. p * q \in Nat /\ p * q > 0 /\ limit * q \in Nat
    BY SMTT(20)
  <2>3. limit - p \in Nat
    OBVIOUS
  <2>4. (limit - p) * q \in Nat
    BY <2>3, SMTT(20)
  <2> QED
    BY <1>1, <2>1, <2>2, <2>4
<1>3. /\ a \in Account /\ 0 <= a.cash /\ 0 <= a.reserved /\ a.reserved <= a.cash
      /\ 0 <= a.qty /\ 0 <= a.cost /\ 0 <= a.held /\ a.held <= a.qty
  BY BalancedIs
<1>4. /\ a.cash \in Int /\ a.reserved \in Int /\ a.qty \in Int
      /\ a.cost \in Int /\ a.held \in Int /\ a.realized \in Int
  BY <1>3, FieldTypes
<1>5. /\ b \in Account /\ b.cash = a.cash - w /\ b.reserved = a.reserved - w
      /\ b.qty = a.qty /\ b.cost = a.cost /\ b.held = a.held /\ b.realized = a.realized
  <2>1. b = Outcome(a, Ask("settle", w)) /\ w \in Int
    BY <1>1, <1>2
  <2> QED
    BY <1>3, <2>1, SettleIs, ZenonT(60)
<1>6. /\ c \in Account /\ c.cash = a.cash - w /\ c.reserved = a.reserved - all
      /\ c.qty = a.qty /\ c.cost = a.cost /\ c.held = a.held /\ c.realized = a.realized
  <2>1. CASE gain > 0
    <3>1. c = Outcome(b, Ask("release", gain)) /\ gain \in Int
      BY <1>1, <1>2, <2>1
    <3>2. /\ c \in Account /\ c.cash = b.cash /\ c.reserved = b.reserved - gain
          /\ c.qty = b.qty /\ c.cost = b.cost /\ c.held = b.held /\ c.realized = b.realized
      BY <1>5, <3>1, ReleaseIs, ZenonT(60)
    <3> QED
      BY <1>2, <1>4, <1>5, <3>2
  <2>2. CASE ~(gain > 0)
    <3>1. c = b /\ gain = 0
      BY <1>1, <1>2, <2>2
    <3> QED
      BY <1>2, <1>4, <1>5, <3>1
  <2> QED
    BY <2>1, <2>2
<1>7. /\ d \in Account /\ d.cash = c.cash /\ d.reserved = c.reserved
      /\ d.qty = c.qty + q /\ d.cost = c.cost + w /\ d.held = c.held /\ d.realized = c.realized
  <2>1. q \in Int /\ p \in Int
    OBVIOUS
  <2>2. Bought(d, c, q, p)
    BY <1>6, <2>1, BuyFillIs
  <2> QED
    BY <1>1, <2>2 DEF Bought
<1>8. Accepts(a, Ask("settle", w))
  <2>1. b = Outcome(a, Ask("settle", w))
    BY <1>1
  <2>2. invariant_ok(b)
    BY <1>1, <1>2, <1>3, <1>4, <1>5 DEF invariant_ok
  <2> QED
    BY <1>2, <2>1, <2>2 DEF Accepts, Ask, CashOps
<1>9. gain > 0 => Accepts(b, Ask("release", gain))
  <2>1. SUFFICES ASSUME gain > 0 PROVE Accepts(b, Ask("release", gain))
    OBVIOUS
  <2>2. c = Outcome(b, Ask("release", gain))
    BY <1>1, <2>1
  <2>3. invariant_ok(c)
    BY <1>1, <1>2, <1>3, <1>4, <1>6 DEF invariant_ok
  <2> QED
    BY <2>1, <2>2, <2>3 DEF Accepts, Ask, CashOps
<1>10. Accepts(c, AskAt("buy_fill", q, p))
  <2>1. pos_ok(d)
    BY <1>2, <1>3, <1>4, <1>6, <1>7 DEF pos_ok
  <2> QED
    BY <2>1 DEF Accepts, AskAt, CashOps
<1>11. Balanced(d)
  <2>1. /\ 0 <= d.cash /\ 0 <= d.reserved /\ d.reserved <= d.cash
        /\ 0 <= d.qty /\ 0 <= d.cost /\ 0 <= d.held /\ d.held <= d.qty /\ d.qty # 0
    BY <1>1, <1>2, <1>3, <1>4, <1>6, <1>7
  <2> QED
    BY <1>7, <2>1, BalancedIs
<1>12. WorthOf(d) = WorthOf(a)
  BY <1>2, <1>4, <1>6, <1>7 DEF WorthOf
<1> QED
  BY <1>1, <1>2, <1>4, <1>6, <1>7, <1>8, <1>9, <1>10, <1>11, <1>12

\* A seller whose shares are held is paid for them and can give them up.
LEMMA SellerIsPaid ==
  ASSUME NEW a, Balanced(a), NEW p \in Nat \ {0}, NEW q \in Nat \ {0}, q <= a.held,
         NEW b, b = Outcome(a, Ask("deposit", p * q)),
         NEW d, d = Outcome(b, AskAt("sell_fill", q, p))
  PROVE  /\ p * q \in Int
         /\ Accepts(a, Ask("deposit", p * q)) /\ Accepts(b, AskAt("sell_fill", q, p))
         /\ Balanced(d) /\ WorthOf(d) = WorthOf(a)
         /\ d.reserved = a.reserved /\ d.held = a.held - q
         /\ d.cash = a.cash + p * q /\ d.qty = a.qty - q
<1>1. PICK w : w = p * q
  OBVIOUS
<1>2. w \in Nat /\ w > 0
  BY <1>1, SMTT(20)
<1>3. /\ a \in Account /\ 0 <= a.cash /\ 0 <= a.reserved /\ a.reserved <= a.cash
      /\ 0 <= a.qty /\ 0 <= a.cost /\ 0 <= a.held /\ a.held <= a.qty
  BY BalancedIs
<1>4. /\ a.cash \in Int /\ a.reserved \in Int /\ a.qty \in Int
      /\ a.cost \in Int /\ a.held \in Int /\ a.realized \in Int
  BY <1>3, FieldTypes
<1>5. /\ b \in Account /\ b.cash = a.cash + w /\ b.reserved = a.reserved
      /\ b.qty = a.qty /\ b.cost = a.cost /\ b.held = a.held /\ b.realized = a.realized
  <2>1. b = Outcome(a, Ask("deposit", w)) /\ w \in Int
    BY <1>1, <1>2
  <2> QED
    BY <1>3, <2>1, DepositIs, ZenonT(60)
<1>6. PICK x : x = CostOut(b, q)
  OBVIOUS
<1>7. x \in Int /\ 0 <= x /\ x <= a.cost /\ (q = a.qty => x = a.cost)
  <2>1. q \in Int /\ 0 < q /\ q <= b.qty /\ b.cost >= 0
    BY <1>3, <1>4, <1>5
  <2> QED
    BY <1>5, <1>6, <2>1, CostOutIs
<1>8. /\ d \in Account /\ d.cash = b.cash /\ d.reserved = b.reserved
      /\ d.qty = b.qty - q /\ d.held = b.held - q /\ d.cost = b.cost - x
      /\ d.realized = b.realized + w - x
  <2>1. q \in Int /\ p \in Int /\ CostOut(b, q) \in Int
    BY <1>6, <1>7
  <2>2. Sold(d, b, q, p)
    BY <1>5, <2>1, SellFillIs
  <2> QED
    BY <1>1, <1>6, <2>2 DEF Sold
<1>9. Accepts(a, Ask("deposit", w))
  <2>1. b = Outcome(a, Ask("deposit", w))
    BY <1>1
  <2>2. invariant_ok(b)
    BY <1>2, <1>3, <1>4, <1>5 DEF invariant_ok
  <2> QED
    BY <1>2, <2>1, <2>2 DEF Accepts, Ask, CashOps
<1>10. Accepts(b, AskAt("sell_fill", q, p))
  <2>1. pos_ok(d) /\ q <= b.qty /\ q <= b.held
    BY <1>3, <1>4, <1>5, <1>7, <1>8 DEF pos_ok
  <2> QED
    BY <2>1 DEF Accepts, AskAt, CashOps
<1>11. Balanced(d)
  <2>1. /\ 0 <= d.cash /\ 0 <= d.reserved /\ d.reserved <= d.cash
        /\ 0 <= d.qty /\ 0 <= d.cost /\ 0 <= d.held /\ d.held <= d.qty
    BY <1>2, <1>3, <1>4, <1>5, <1>7, <1>8
  <2>2. d.qty = 0 => d.cost = 0
    <3>1. d.qty = a.qty - q /\ d.cost = a.cost - x
      BY <1>5, <1>8
    <3> QED
      BY <1>4, <1>7, <3>1
  <2> QED
    BY <1>8, <2>1, <2>2, BalancedIs
<1>12. WorthOf(d) = WorthOf(a)
  BY <1>2, <1>4, <1>5, <1>7, <1>8 DEF WorthOf
<1> QED
  BY <1>1, <1>2, <1>4, <1>5, <1>8, <1>9, <1>10, <1>11, <1>12

\* What is reserved can be released, and what is held given back.
LEMMA MoneyReleased ==
  ASSUME NEW a, Balanced(a), NEW n \in Nat \ {0}, n <= a.reserved,
         NEW d, d = Outcome(a, Ask("release", n))
  PROVE  /\ Accepts(a, Ask("release", n)) /\ Balanced(d) /\ WorthOf(d) = WorthOf(a)
         /\ d.reserved = a.reserved - n /\ d.held = a.held /\ d.cash = a.cash /\ d.qty = a.qty
<1>1. /\ a \in Account /\ 0 <= a.cash /\ 0 <= a.reserved /\ a.reserved <= a.cash
      /\ 0 <= a.qty /\ 0 <= a.cost /\ 0 <= a.held /\ a.held <= a.qty /\ (a.qty = 0 => a.cost = 0)
  BY BalancedIs
<1>2. /\ a.cash \in Int /\ a.reserved \in Int /\ a.qty \in Int
      /\ a.cost \in Int /\ a.held \in Int /\ a.realized \in Int
  BY <1>1, FieldTypes
<1>3. /\ d \in Account /\ d.cash = a.cash /\ d.reserved = a.reserved - n
      /\ d.qty = a.qty /\ d.cost = a.cost /\ d.held = a.held /\ d.realized = a.realized
  BY <1>1, ReleaseIs
<1>4. Balanced(d)
  BY <1>1, <1>2, <1>3, BalancedIs
<1>5. invariant_ok(d)
  BY <1>4 DEF Balanced, Sound
<1>6. Accepts(a, Ask("release", n))
  BY <1>5 DEF Accepts, Ask, CashOps
<1> QED
  BY <1>3, <1>4, <1>6 DEF WorthOf

LEMMA SharesReleased ==
  ASSUME NEW a, Balanced(a), NEW n \in Nat \ {0}, n <= a.held,
         NEW d, d = Outcome(a, Ask("sell_release", n))
  PROVE  /\ Accepts(a, Ask("sell_release", n)) /\ Balanced(d) /\ WorthOf(d) = WorthOf(a)
         /\ d.reserved = a.reserved /\ d.held = a.held - n /\ d.cash = a.cash /\ d.qty = a.qty
<1>1. /\ a \in Account /\ 0 <= a.cash /\ 0 <= a.reserved /\ a.reserved <= a.cash
      /\ 0 <= a.qty /\ 0 <= a.cost /\ 0 <= a.held /\ a.held <= a.qty /\ (a.qty = 0 => a.cost = 0)
  BY BalancedIs
<1>2. /\ a.cash \in Int /\ a.reserved \in Int /\ a.qty \in Int
      /\ a.cost \in Int /\ a.held \in Int /\ a.realized \in Int
  BY <1>1, FieldTypes
<1>3. /\ d \in Account /\ d.cash = a.cash /\ d.reserved = a.reserved
      /\ d.qty = a.qty /\ d.cost = a.cost /\ d.held = a.held - n /\ d.realized = a.realized
  BY <1>1, SellReleaseIs
<1>4. Balanced(d)
  BY <1>1, <1>2, <1>3, BalancedIs
<1>5. pos_ok(d)
  BY <1>4 DEF Balanced, Sound
<1>6. Accepts(a, Ask("sell_release", n))
  BY <1>5 DEF Accepts, Ask, CashOps
<1> QED
  BY <1>3, <1>4, <1>6 DEF WorthOf

\* An accepted reservation takes it from what is free.
LEMMA MoneyReserved ==
  ASSUME NEW a, Balanced(a), NEW n \in Nat \ {0}, Accepts(a, Ask("reserve", n)),
         NEW d, d = Outcome(a, Ask("reserve", n))
  PROVE  /\ Balanced(d) /\ WorthOf(d) = WorthOf(a)
         /\ d.reserved = a.reserved + n /\ d.held = a.held /\ d.cash = a.cash /\ d.qty = a.qty
<1>1. /\ a \in Account /\ 0 <= a.cash /\ 0 <= a.reserved /\ a.reserved <= a.cash
      /\ 0 <= a.qty /\ 0 <= a.cost /\ 0 <= a.held /\ a.held <= a.qty /\ (a.qty = 0 => a.cost = 0)
  BY BalancedIs
<1>2. /\ a.cash \in Int /\ a.reserved \in Int
  BY <1>1, FieldTypes
<1>3. /\ d \in Account /\ d.cash = a.cash /\ d.reserved = a.reserved + n
      /\ d.qty = a.qty /\ d.cost = a.cost /\ d.held = a.held /\ d.realized = a.realized
  BY <1>1, ReserveIs
<1>4. invariant_ok(d)
  BY DEF Accepts, Ask, CashOps
<1>5. Balanced(d)
  BY <1>1, <1>2, <1>3, <1>4, BalancedIs DEF invariant_ok
<1> QED
  BY <1>3, <1>5 DEF WorthOf

LEMMA SharesReserved ==
  ASSUME NEW a, Balanced(a), NEW n \in Nat \ {0}, Accepts(a, Ask("sell_reserve", n)),
         NEW d, d = Outcome(a, Ask("sell_reserve", n))
  PROVE  /\ Balanced(d) /\ WorthOf(d) = WorthOf(a)
         /\ d.reserved = a.reserved /\ d.held = a.held + n /\ d.cash = a.cash /\ d.qty = a.qty
<1>1. /\ a \in Account /\ 0 <= a.cash /\ 0 <= a.reserved /\ a.reserved <= a.cash
      /\ 0 <= a.qty /\ 0 <= a.cost /\ 0 <= a.held /\ a.held <= a.qty /\ (a.qty = 0 => a.cost = 0)
  BY BalancedIs
<1>2. /\ a.held \in Int /\ a.qty \in Int
  BY <1>1, FieldTypes
<1>3. /\ d \in Account /\ d.cash = a.cash /\ d.reserved = a.reserved
      /\ d.qty = a.qty /\ d.cost = a.cost /\ d.held = a.held + n /\ d.realized = a.realized
  BY <1>1, SellReserveIs
<1>4. pos_ok(d)
  BY DEF Accepts, Ask, CashOps
<1>5. Balanced(d)
  BY <1>1, <1>2, <1>3, <1>4, BalancedIs DEF pos_ok
<1> QED
  BY <1>3, <1>5 DEF WorthOf

-----------------------------------------------------------------------------
(* What the orders account for. An order keeps back money or shares for    *)
(* what may still trade, and has paid or been paid for what has. While an  *)
(* order is being submitted its claim is what no leg's record shows yet.   *)

Slots    == 1..OrderCap
TermsRec == [acct : Accounts, side : Side, limit : Nat \ {0}]
Claim    == [left : Nat, money : Nat, shares : Nat]
NoClaim  == [left |-> 0, money |-> 0, shares |-> 0]
Kept     == {"reserved", "held", "cash", "qty"}

TermsOf(lo) == [acct |-> lo.acct, side |-> lo.side, limit |-> lo.limit]
NoTerms     == [acct |-> FirstAccount, side |-> "buy", limit |-> 1]
ClaimOf(lo) == [left |-> omap_remaining(lo), money |-> omap_notional(lo),
                shares |-> omap_filled_qty(lo)]

Listed(os, u)       == u \in DOMAIN os /\ IsOrder(os[u])
Terms(os)           == [u \in Slots |-> IF Listed(os, u) THEN TermsOf(os[u]) ELSE NoTerms]
Claims(os, id, own) == [u \in Slots |-> IF u = id THEN own
                                        ELSE IF Listed(os, u) THEN ClaimOf(os[u]) ELSE NoClaim]

\* The part of an account's field that an order of these terms accounts for.
Stake(k, c, f) ==
  IF f = "reserved" THEN (IF k.side = "buy" THEN k.limit * c.left ELSE 0)
  ELSE IF f = "held" THEN (IF k.side = "buy" THEN 0 ELSE c.left)
  ELSE IF f = "cash" THEN (IF k.side = "buy" THEN 0 - c.money ELSE c.money)
  ELSE (IF k.side = "buy" THEN c.shares ELSE 0 - c.shares)

Due(K, C, a, f) == [u \in Slots |-> IF K[u].acct = a THEN Stake(K[u], C[u], f) ELSE 0]

Base == [Accounts -> [reserved : {0}, held : {0}, cash : Int, qty : Int, worth : Int]]

\* Every account holds its base and what its orders account for, and is worth
\* what it was.
Posted(ac, K, C, base) ==
  /\ \A a \in Accounts : Balanced(ac[a]) /\ WorthOf(ac[a]) = base[a].worth
  /\ \A a \in Accounts, f \in Kept : ac[a][f] = base[a][f] + Part(Due(K, C, a, f), Slots)

LEMMA ClaimTypes ==
  ASSUME NEW c \in Claim
  PROVE  c.left \in Nat /\ c.money \in Nat /\ c.shares \in Nat
  BY DEF Claim

LEMMA TermTypes ==
  ASSUME NEW k \in TermsRec
  PROVE  k.acct \in Accounts /\ k.side \in Side /\ k.limit \in Nat \ {0}
  BY DEF TermsRec

LEMMA StakeTypes ==
  ASSUME NEW k \in TermsRec, NEW c \in Claim
  PROVE  /\ \A f \in Kept : Stake(k, c, f) \in Int
         /\ Stake(k, c, "reserved") \in Nat /\ Stake(k, c, "held") \in Nat
<1>1. c.left \in Nat /\ c.money \in Nat /\ c.shares \in Nat /\ k.limit \in Nat
  BY ClaimTypes, TermTypes
<1>2. PICK w : w = k.limit * c.left
  OBVIOUS
<1>3. w \in Nat
  BY <1>1, <1>2, SMTT(20)
<1>4. Stake(k, c, "reserved") \in Nat
  BY <1>2, <1>3 DEF Stake
<1>5. Stake(k, c, "held") \in Nat
  BY <1>1 DEF Stake
<1>6. Stake(k, c, "cash") \in Int /\ Stake(k, c, "qty") \in Int
  BY <1>1 DEF Stake
<1> QED
  BY <1>4, <1>5, <1>6 DEF Kept

LEMMA SlotsFinite == IsFiniteSet(Slots) /\ OrderCap \in Nat
  BY LedgerAssumption, FS_Interval DEF Slots

LEMMA DueTypes ==
  ASSUME NEW K \in [Slots -> TermsRec], NEW C \in [Slots -> Claim], NEW a, NEW f \in Kept
  PROVE  /\ \A u \in Slots : Due(K, C, a, f)[u] \in Int
         /\ f \in {"reserved", "held"} => \A u \in Slots : Due(K, C, a, f)[u] \in Nat
         /\ \A u \in Slots : Due(K, C, a, f)[u] = IF K[u].acct = a THEN Stake(K[u], C[u], f) ELSE 0
<1>1. ASSUME NEW u \in Slots
      PROVE  /\ Stake(K[u], C[u], f) \in Int
             /\ f \in {"reserved", "held"} => Stake(K[u], C[u], f) \in Nat
  <2>1. K[u] \in TermsRec /\ C[u] \in Claim
    OBVIOUS
  <2> QED
    BY <2>1, StakeTypes
<1> QED
  BY <1>1 DEF Due

\* What an order accounts for is there.
LEMMA Covered ==
  ASSUME NEW K \in [Slots -> TermsRec], NEW C \in [Slots -> Claim], NEW base \in Base,
         NEW ac, Posted(ac, K, C, base), NEW u \in Slots
  PROVE  /\ K[u].acct \in Accounts /\ Balanced(ac[K[u].acct])
         /\ Stake(K[u], C[u], "reserved") <= ac[K[u].acct].reserved
         /\ Stake(K[u], C[u], "held") <= ac[K[u].acct].held
<1>1. PICK a : a = K[u].acct
  OBVIOUS
<1>2. a \in Accounts
  BY <1>1, TermTypes
<1>3. base[a].reserved = 0 /\ base[a].held = 0
  BY <1>2 DEF Base
<1>4. ASSUME NEW f \in {"reserved", "held"} PROVE Stake(K[u], C[u], f) <= ac[a][f]
  <2>1. f \in Kept
    BY DEF Kept
  <2>2. PICK D : D = Due(K, C, a, f)
    OBVIOUS
  <2>3. (\A v \in Slots : D[v] \in Nat) /\ D[u] = Stake(K[u], C[u], f)
    BY <1>1, <2>1, <2>2, DueTypes
  <2>4. Part(D, Slots) \in Nat /\ D[u] <= Part(D, Slots)
    BY <2>3, SlotsFinite, PartNat
  <2>5. ac[a][f] = base[a][f] + Part(D, Slots)
    BY <1>2, <2>1, <2>2 DEF Posted
  <2>6. base[a][f] = 0
    BY <1>3
  <2> QED
    BY <2>3, <2>4, <2>5, <2>6
<1>5. Stake(K[u], C[u], "reserved") <= ac[a]["reserved"] /\ Stake(K[u], C[u], "held") <= ac[a]["held"]
  BY <1>4
<1> QED
  BY <1>1, <1>2, <1>5 DEF Posted

\* D is C but for the claim of u.
Becomes(D, C, u, c) == /\ D \in [Slots -> Claim] /\ D[u] = c
                       /\ \A v \in Slots : v # u => D[v] = C[v]

\* An account x becomes r by what the claim of an order of terms k does.
Moves(x, r, k, c, d) == /\ Balanced(r) /\ WorthOf(r) = WorthOf(x)
                        /\ \A f \in Kept : r[f] = x[f] - Stake(k, c, f) + Stake(k, d, f)

OneAccount(ac2, ac, a, r) == ac2[a] = r /\ \A b \in Accounts : b # a => ac2[b] = ac[b]

\* One account changes by what one order's claim does.
LEMMA Reposted ==
  ASSUME NEW K \in [Slots -> TermsRec], NEW C \in [Slots -> Claim], NEW base \in Base,
         NEW ac, Posted(ac, K, C, base), NEW u \in Slots, NEW c \in Claim, NEW r,
         Moves(ac[K[u].acct], r, K[u], C[u], c),
         NEW ac2, OneAccount(ac2, ac, K[u].acct, r), NEW C2, Becomes(C2, C, u, c)
  PROVE  Posted(ac2, K, C2, base)
<1>0. /\ Balanced(r) /\ WorthOf(r) = WorthOf(ac[K[u].acct])
      /\ \A f \in Kept : r[f] = ac[K[u].acct][f] - Stake(K[u], C[u], f) + Stake(K[u], c, f)
      /\ ac2[K[u].acct] = r /\ \A a \in Accounts : a # K[u].acct => ac2[a] = ac[a]
      /\ C2 \in [Slots -> Claim] /\ C2[u] = c /\ \A v \in Slots : v # u => C2[v] = C[v]
  BY DEF Moves, OneAccount, Becomes
<1>1. PICK b : b = K[u].acct
  OBVIOUS
<1>2. b \in Accounts /\ ac2[b] = r /\ \A a \in Accounts : a # b => ac2[a] = ac[a]
  BY <1>0, <1>1, TermTypes
<1>4. ASSUME NEW a \in Accounts PROVE Balanced(ac2[a]) /\ WorthOf(ac2[a]) = base[a].worth
  BY <1>0, <1>1, <1>2 DEF Posted
<1>5. ASSUME NEW a \in Accounts, NEW f \in Kept
      PROVE  ac2[a][f] = base[a][f] + Part(Due(K, C2, a, f), Slots)
  <2>1. PICK D, E : D = Due(K, C, a, f) /\ E = Due(K, C2, a, f)
    OBVIOUS
  <2>2. \A v \in Slots : /\ D[v] \in Int /\ E[v] \in Int
                         /\ D[v] = (IF K[v].acct = a THEN Stake(K[v], C[v], f) ELSE 0)
                         /\ E[v] = (IF K[v].acct = a THEN Stake(K[v], C2[v], f) ELSE 0)
    BY <1>0, <2>1, DueTypes
  <2>3. \A v \in Slots \ {u} : E[v] = D[v]
    BY <1>0, <2>2
  <2>4. Part(E, Slots) = Part(D, Slots) - D[u] + E[u] /\ Part(D, Slots) \in Int
    <3>1. \A v \in Slots : D[v] \in Int /\ E[v] \in Int
      BY <2>2
    <3>2. Part(D, Slots) \in Int
      BY <3>1, SlotsFinite, PartType
    <3> QED
      BY <2>3, <3>1, <3>2, SlotsFinite, PartChange
  <2>5. ac[a][f] = base[a][f] + Part(D, Slots)
    BY <2>1 DEF Posted
  <2>6. base[a][f] \in Int
    BY DEF Base, Kept
  <2>7. CASE a = b
    <3>1. D[u] = Stake(K[u], C[u], f) /\ E[u] = Stake(K[u], c, f) /\ D[u] \in Int /\ E[u] \in Int
      BY <1>0, <1>1, <2>2, <2>7
    <3>2. ac2[a][f] = ac[a][f] - D[u] + E[u]
      BY <1>0, <1>1, <1>2, <2>7, <3>1
    <3> QED
      BY <2>1, <2>4, <2>5, <2>6, <3>1, <3>2
  <2>8. CASE a # b
    <3>1. D[u] = 0 /\ E[u] = 0
      BY <1>1, <2>2, <2>8
    <3> QED
      BY <1>2, <2>1, <2>4, <2>5, <2>8, <3>1
  <2> QED
    BY <2>7, <2>8
<1> QED
  BY <1>4, <1>5 DEF Posted

\* Only the terms of an order with a claim matter.
LEMMA PostedAnyway ==
  ASSUME NEW K \in [Slots -> TermsRec], NEW K2 \in [Slots -> TermsRec], NEW C \in [Slots -> Claim],
         NEW base, NEW ac, Posted(ac, K, C, base), \A u \in Slots : C[u] = NoClaim \/ K2[u] = K[u]
  PROVE  Posted(ac, K2, C, base)
<1>1. ASSUME NEW a \in Accounts, NEW f \in Kept PROVE Part(Due(K2, C, a, f), Slots) = Part(Due(K, C, a, f), Slots)
  <2>1. PICK D, E : D = Due(K, C, a, f) /\ E = Due(K2, C, a, f)
    OBVIOUS
  <2>2. \A v \in Slots : /\ D[v] \in Int /\ E[v] \in Int
                         /\ D[v] = (IF K[v].acct = a THEN Stake(K[v], C[v], f) ELSE 0)
                         /\ E[v] = (IF K2[v].acct = a THEN Stake(K2[v], C[v], f) ELSE 0)
    BY <2>1, DueTypes
  <2>3. ASSUME NEW v \in Slots PROVE D[v] = E[v]
    <3>1. CASE K2[v] = K[v]
      BY <2>2, <3>1
    <3>2. CASE C[v] = NoClaim
      <4>1. ASSUME NEW k \in TermsRec PROVE Stake(k, C[v], f) = 0
        <5>1. C[v].left = 0 /\ C[v].money = 0 /\ C[v].shares = 0 /\ k.limit \in Nat
          BY <3>2, TermTypes DEF NoClaim
        <5>2. (\A n \in Nat : n * 0 = 0) /\ 0 - 0 = 0
          OBVIOUS
        <5>3. k.limit * C[v].left = 0 /\ 0 - C[v].money = 0 /\ 0 - C[v].shares = 0
          BY <5>1, <5>2, Zenon
        <5> QED
          BY <5>1, <5>3, Zenon DEF Stake
      <4>2. K[v] \in TermsRec /\ K2[v] \in TermsRec
        OBVIOUS
      <4> QED
        BY <2>2, <4>1, <4>2
    <3> QED
      BY <3>1, <3>2
  <2>4. Part(D, Slots) = Part(E, Slots)
    BY <2>2, <2>3, SlotsFinite, PartSame
  <2> QED
    BY <2>1, <2>4
<1> QED
  BY <1>1 DEF Posted

-----------------------------------------------------------------------------
(* Account operations of a handler.                                         *)

OrderMaps == {os \in Seq(OrderRec \cup {NoOrder}) :
                Len(os) <= OrderCap /\ \A u \in DOMAIN os : IsOrder(os[u]) => OrderOK(os[u])}

HandlerState == [acct : [Accounts -> Account], orders : OrderMaps,
                 book : [Markets -> Seq(BookOrder)], failed : SUBSET Assertions,
                 refused : Nat, filled : Nat, canceled : Nat]

\* Nothing but accounts, and assertions that failed on the way.
OnlyAcct(t, s) ==
  /\ t \in HandlerState /\ t.orders = s.orders /\ t.book = s.book
  /\ t.refused = s.refused /\ t.filled = s.filled /\ t.canceled = s.canceled

LEMMA OrderMapFacts ==
  ASSUME NEW os \in OrderMaps
  PROVE  /\ DOMAIN os = 1..Len(os) /\ Len(os) \in Nat /\ Len(os) <= OrderCap /\ DOMAIN os \subseteq Slots
         /\ os \in Seq(OrderRec \cup {NoOrder})
         /\ \A u : Listed(os, u) => OrderOK(os[u]) /\ os[u] \in OrderRec /\ u \in Slots /\ u \in Nat \ {0}
<1>1. os \in Seq(OrderRec \cup {NoOrder}) /\ Len(os) <= OrderCap
      /\ \A u \in DOMAIN os : IsOrder(os[u]) => OrderOK(os[u])
  BY DEF OrderMaps
<1>2. DOMAIN os = 1..Len(os) /\ Len(os) \in Nat /\ OrderCap \in Nat
  BY <1>1, LedgerAssumption
<1>3. DOMAIN os \subseteq Slots
  BY <1>1, <1>2 DEF Slots
<1>4. ASSUME NEW u, Listed(os, u)
      PROVE  OrderOK(os[u]) /\ os[u] \in OrderRec /\ u \in Slots /\ u \in Nat \ {0}
  <2>1. u \in DOMAIN os /\ OrderOK(os[u])
    BY <1>1, <1>4 DEF Listed
  <2>2. u \in Nat \ {0}
    BY <1>2, <2>1
  <2> QED
    BY <1>3, <2>1, <2>2 DEF OrderOK
<1> QED
  BY <1>1, <1>2, <1>3, <1>4

LEMMA StateFields ==
  ASSUME NEW s \in HandlerState
  PROVE  /\ s.acct \in [Accounts -> Account] /\ s.orders \in OrderMaps
         /\ s.book \in [Markets -> Seq(BookOrder)] /\ s.failed \in SUBSET Assertions
         /\ s.refused \in Nat /\ s.filled \in Nat /\ s.canceled \in Nat
  BY DEF HandlerState

LEMMA OnlyAcctTwice ==
  ASSUME NEW r, NEW s, NEW t, OnlyAcct(t, s), OnlyAcct(s, r)
  PROVE  OnlyAcct(t, r)
  BY DEF OnlyAcct

LEMMA FailsIs ==
  ASSUME NEW s \in HandlerState, NEW assertion \in Assertions, NEW t, t = Fails(s, assertion)
  PROVE  OnlyAcct(t, s) /\ t.acct = s.acct
<1>1. t = [s EXCEPT !.failed = s.failed \cup {assertion}]
  BY DEF Fails
<1>2. s.failed \cup {assertion} \in SUBSET Assertions
  BY StateFields
<1> QED
  BY <1>1, <1>2 DEF HandlerState, OnlyAcct

\* An operation that is accepted makes its outcome of the account; any other
\* is noted.
Accepted(t, s, a, o) ==
  /\ OnlyAcct(t, s) /\ t.failed = s.failed
  /\ t.acct[a] = o /\ \A b \in Accounts : b # a => t.acct[b] = s.acct[b]

LEMMA AcctCallIs ==
  ASSUME NEW s \in HandlerState, NEW a \in Accounts, NEW r, NEW t, t = AcctCall(s, a, r),
         Accepts(s.acct[a], r) => Outcome(s.acct[a], r) \in Account
  PROVE  /\ OnlyAcct(t, s)
         /\ Accepts(s.acct[a], r) => Accepted(t, s, a, Outcome(s.acct[a], r))
<1>1. CASE Accepts(s.acct[a], r)
  <2>1. PICK o \in Account : o = Outcome(s.acct[a], r)
    BY <1>1
  <2>2. PICK ac : ac = [s.acct EXCEPT ![a] = o]
    OBVIOUS
  <2>3. t = [s EXCEPT !.acct = ac]
    BY <1>1, <2>1, <2>2 DEF AcctCall
  <2>4. ac \in [Accounts -> Account] /\ ac[a] = o /\ \A b \in Accounts : b # a => ac[b] = s.acct[b]
    BY <2>2, StateFields
  <2>5. OnlyAcct(t, s) /\ t.acct = ac /\ t.failed = s.failed
    BY <2>3, <2>4 DEF HandlerState, OnlyAcct
  <2> QED
    BY <2>1, <2>2, <2>4, <2>5 DEF Accepted
<1>2. CASE ~Accepts(s.acct[a], r)
  <2>1. t = Fails(s, "account") /\ "account" \in Assertions
    BY <1>2 DEF AcctCall, Assertions
  <2> QED
    BY <1>2, <2>1, FailsIs
<1> QED
  BY <1>1, <1>2

LEMMA SoldIsAccount ==
  ASSUME NEW a \in Account, NEW q \in Int, NEW p \in Int, Accepts(a, AskAt("sell_fill", q, p))
  PROVE  Outcome(a, AskAt("sell_fill", q, p)) \in Account
<1>1. 0 < q /\ q <= a.qty
  BY DEF Accepts, AskAt, CashOps
<1>2. CostOut(a, q) \in Int
  <2>1. PICK c, n : c = a.cost /\ n = a.qty
    OBVIOUS
  <2>2. c \in Int /\ n \in Nat \ {0}
    BY <1>1, <2>1, FieldTypes
  <2>3. PICK w : w = c * q
    OBVIOUS
  <2>4. w \in Int
    BY <2>2, <2>3, SMTT(20)
  <2>5. w \div n \in Int
    BY <2>2, <2>4
  <2> QED
    BY <2>1, <2>2, <2>3, <2>5 DEF CostOut
<1>3. Sold(Outcome(a, AskAt("sell_fill", q, p)), a, q, p)
  BY <1>2, SellFillIs
<1> QED
  BY <1>3 DEF Sold

LEMMA SettleFrame ==
  ASSUME NEW s \in HandlerState, NEW id, Listed(s.orders, id), NEW p \in Nat \ {0}, NEW q \in Nat \ {0}
  PROVE  OnlyAcct(settle_fill(s, id, p, q), s)
<1>1. PICK lo : lo = s.orders[id]
  OBVIOUS
<1>2. lo.acct \in Accounts /\ lo.limit \in Nat /\ lo.side \in Side
  BY <1>1, StateFields, OrderMapFacts, OrderTypes
<1>3. PICK a : a = lo.acct
  OBVIOUS
<1>4. PICK w, gain : w = p * q /\ gain = (lo.limit - p) * q
  OBVIOUS
<1>5. w \in Int /\ gain \in Int
  <2>1. p * q \in Int
    BY SMTT(20)
  <2>2. lo.limit - p \in Int
    BY <1>2
  <2>3. (lo.limit - p) * q \in Int
    BY <2>2, SMTT(20)
  <2> QED
    BY <1>4, <2>1, <2>3
<1>6. OnlyAcct(s, s)
  BY DEF OnlyAcct
<1>7. CASE lo.side = "buy"
  <2>1. PICK paid : paid = AcctCall(s, a, Ask("settle", w))
    OBVIOUS
  <2>2. OnlyAcct(paid, s)
    <3>1. s.acct[a] \in Account
      BY <1>2, <1>3, StateFields
    <3>2. Outcome(s.acct[a], Ask("settle", w)) \in Account
      BY <1>5, <3>1, SettleIs
    <3> QED
      BY <1>2, <1>3, <2>1, <3>2, AcctCallIs
  <2>3. PICK back : back = IF gain > 0 THEN AcctCall(paid, a, Ask("release", gain)) ELSE paid
    OBVIOUS
  <2>4. OnlyAcct(back, s)
    <3>1. paid \in HandlerState
      BY <2>2 DEF OnlyAcct
    <3>2. CASE gain > 0
      <4>1. paid.acct[a] \in Account
        BY <1>2, <1>3, <3>1, StateFields
      <4>2. Outcome(paid.acct[a], Ask("release", gain)) \in Account
        BY <1>5, <4>1, ReleaseIs
      <4>3. OnlyAcct(back, paid)
        BY <1>2, <1>3, <2>3, <3>1, <3>2, <4>2, AcctCallIs
      <4> QED
        BY <2>2, <4>3, OnlyAcctTwice
    <3>3. CASE ~(gain > 0)
      BY <2>2, <2>3, <3>3
    <3> QED
      BY <3>2, <3>3
  <2>5. PICK seen : seen = IF gain < 0 THEN Fails(back, "improvement") ELSE back
    OBVIOUS
  <2>6. OnlyAcct(seen, s)
    <3>1. back \in HandlerState /\ "improvement" \in Assertions
      BY <2>4 DEF OnlyAcct, Assertions
    <3>2. CASE gain < 0
      <4>1. OnlyAcct(seen, back)
        BY <2>5, <3>1, <3>2, FailsIs
      <4> QED
        BY <2>4, <4>1, OnlyAcctTwice
    <3>3. CASE ~(gain < 0)
      BY <2>4, <2>5, <3>3
    <3> QED
      BY <3>2, <3>3
  <2>7. PICK t : t = AcctCall(seen, a, AskAt("buy_fill", q, p))
    OBVIOUS
  <2>8. OnlyAcct(t, s)
    <3>1. seen \in HandlerState
      BY <2>6 DEF OnlyAcct
    <3>2. seen.acct[a] \in Account
      BY <1>2, <1>3, <3>1, StateFields
    <3>3. Outcome(seen.acct[a], AskAt("buy_fill", q, p)) \in Account
      <4>1. q \in Int /\ p \in Int
        OBVIOUS
      <4>2. Bought(Outcome(seen.acct[a], AskAt("buy_fill", q, p)), seen.acct[a], q, p)
        BY <3>2, <4>1, BuyFillIs
      <4> QED
        BY <4>2 DEF Bought
    <3>4. OnlyAcct(t, seen)
      BY <1>2, <1>3, <2>7, <3>1, <3>3, AcctCallIs
    <3> QED
      BY <2>6, <3>4, OnlyAcctTwice
  <2>9. settle_fill(s, id, p, q) = t
    BY <1>1, <1>3, <1>4, <1>7, <2>1, <2>3, <2>5, <2>7 DEF settle_fill
  <2> QED
    BY <2>8, <2>9
<1>8. CASE lo.side # "buy"
  <2>1. PICK paid : paid = AcctCall(s, a, Ask("deposit", w))
    OBVIOUS
  <2>2. OnlyAcct(paid, s)
    <3>1. s.acct[a] \in Account
      BY <1>2, <1>3, StateFields
    <3>2. Outcome(s.acct[a], Ask("deposit", w)) \in Account
      BY <1>5, <3>1, DepositIs
    <3> QED
      BY <1>2, <1>3, <2>1, <3>2, AcctCallIs
  <2>3. PICK t : t = AcctCall(paid, a, AskAt("sell_fill", q, p))
    OBVIOUS
  <2>4. OnlyAcct(t, s)
    <3>1. paid \in HandlerState
      BY <2>2 DEF OnlyAcct
    <3>2. paid.acct[a] \in Account
      BY <1>2, <1>3, <3>1, StateFields
    <3>3. q \in Int /\ p \in Int
      OBVIOUS
    <3>4. Accepts(paid.acct[a], AskAt("sell_fill", q, p))
            => Outcome(paid.acct[a], AskAt("sell_fill", q, p)) \in Account
      BY <3>2, <3>3, SoldIsAccount
    <3>5. OnlyAcct(t, paid)
      BY <1>2, <1>3, <2>3, <3>1, <3>4, AcctCallIs
    <3> QED
      BY <2>2, <3>5, OnlyAcctTwice
  <2>5. settle_fill(s, id, p, q) = t
    BY <1>1, <1>3, <1>4, <1>8, <2>1, <2>3 DEF settle_fill
  <2> QED
    BY <2>4, <2>5
<1> QED
  BY <1>7, <1>8

\* What a fill of q shares at p leaves of a claim, and what releasing n does.
Spent(c, p, q) == [left |-> c.left - q, money |-> c.money + p * q, shares |-> c.shares + q]
Freed(c, n)    == [left |-> c.left - n, money |-> c.money, shares |-> c.shares]

LEMMA SpentIs ==
  ASSUME NEW c \in Claim, NEW p \in Nat \ {0}, NEW q \in Nat \ {0}, q <= c.left, NEW d, d = Spent(c, p, q)
  PROVE  d \in Claim /\ d.left = c.left - q /\ d.money = c.money + p * q /\ d.shares = c.shares + q
<1>1. c.left \in Nat /\ c.money \in Nat /\ c.shares \in Nat
  BY ClaimTypes
<1>2. PICK w : w = p * q
  OBVIOUS
<1>3. w \in Nat
  BY <1>2, SMTT(20)
<1>4. d = [left |-> c.left - q, money |-> c.money + w, shares |-> c.shares + q]
  BY <1>2 DEF Spent
<1>5. c.left - q \in Nat /\ c.money + w \in Nat /\ c.shares + q \in Nat
  BY <1>1, <1>3
<1> QED
  BY <1>2, <1>4, <1>5 DEF Claim

LEMMA FreedIs ==
  ASSUME NEW c \in Claim, NEW n \in Nat, n <= c.left, NEW d, d = Freed(c, n)
  PROVE  d \in Claim /\ d.left = c.left - n /\ d.money = c.money /\ d.shares = c.shares
<1>1. c.left \in Nat /\ c.money \in Nat /\ c.shares \in Nat
  BY ClaimTypes
<1>2. c.left - n \in Nat
  BY <1>1
<1> QED
  BY <1>1, <1>2 DEF Claim, Freed

\* The order of terms K[id] has the claim for the fill, at a price it can pay.
MaySettle(s, id, p, q, K, C, base) ==
  /\ s \in HandlerState /\ Listed(s.orders, id)
  /\ K \in [Slots -> TermsRec] /\ K[id] = TermsOf(s.orders[id])
  /\ C \in [Slots -> Claim] /\ base \in Base /\ Posted(s.acct, K, C, base)
  /\ q <= C[id].left /\ (K[id].side = "buy" => p <= K[id].limit)

\* A fill an order has the claim for, at a price it can pay, is settled.
LEMMA SettlePosted ==
  ASSUME NEW s, NEW id, NEW p \in Nat \ {0}, NEW q \in Nat \ {0}, NEW K, NEW C, NEW base,
         MaySettle(s, id, p, q, K, C, base),
         NEW D, Becomes(D, C, id, Spent(C[id], p, q)),
         NEW t, t = settle_fill(s, id, p, q)
  PROVE  t.failed = s.failed /\ Posted(t.acct, K, D, base)
<1>0. /\ s \in HandlerState /\ Listed(s.orders, id)
      /\ K \in [Slots -> TermsRec] /\ K[id] = TermsOf(s.orders[id])
      /\ C \in [Slots -> Claim] /\ base \in Base /\ Posted(s.acct, K, C, base)
      /\ q <= C[id].left /\ (K[id].side = "buy" => p <= K[id].limit)
  BY DEF MaySettle
<1> USE <1>0
<1>1. PICK lo, c, d : lo = s.orders[id] /\ c = C[id] /\ d = Spent(c, p, q)
  OBVIOUS
<1>2. id \in Slots /\ lo.acct \in Accounts /\ lo.limit \in Nat \ {0} /\ lo.side \in Side
  BY <1>1, StateFields, OrderMapFacts, OrderTypes
<1>3. PICK a, x : a = lo.acct /\ x = s.acct[a]
  OBVIOUS
<1>4. K[id].acct = a /\ K[id].side = lo.side /\ K[id].limit = lo.limit
  BY <1>1, <1>3 DEF TermsOf
<1>5. /\ Balanced(x) /\ x \in Account
      /\ Stake(K[id], c, "reserved") <= x.reserved /\ Stake(K[id], c, "held") <= x.held
  BY <1>1, <1>2, <1>3, <1>4, Covered DEF Balanced
<1>6. c \in Claim /\ c.left \in Nat /\ c.money \in Nat /\ c.shares \in Nat /\ q <= c.left
  BY <1>1, <1>2, ClaimTypes
<1>7. d \in Claim /\ d.left = c.left - q /\ d.money = c.money + p * q /\ d.shares = c.shares + q
  BY <1>1, <1>6, SpentIs
<1>8. D \in [Slots -> Claim] /\ D[id] = d /\ \A v \in Slots : v # id => D[v] = C[v]
  BY <1>1 DEF Becomes
<1>9. PICK w, gain : w = p * q /\ gain = (lo.limit - p) * q
  OBVIOUS
<1>10. w \in Nat
  BY <1>9, SMTT(20)
<1>11. x.reserved \in Int /\ x.held \in Int /\ x.cash \in Int /\ x.qty \in Int
  BY <1>5, FieldTypes
<1>12. CASE lo.side = "buy"
  <2>1. p <= lo.limit
    BY <1>4, <1>12
  <2>2. PICK all, limit : all = lo.limit * q /\ limit = lo.limit
    OBVIOUS
  <2>3. /\ lo.limit * q <= x.reserved
        /\ all \in Int /\ lo.limit * c.left \in Int /\ lo.limit * d.left = lo.limit * c.left - all
    <3>1. Stake(K[id], c, "reserved") = lo.limit * c.left
      BY <1>4, <1>12 DEF Stake
    <3>2. lo.limit * q <= lo.limit * c.left /\ all \in Int /\ lo.limit * c.left \in Int
      BY <1>2, <1>6, <2>2, SMTT(20)
    <3>3. lo.limit * (c.left - q) = lo.limit * c.left - lo.limit * q
      BY <1>2, <1>6, SMTT(20)
    <3> QED
      BY <1>5, <1>7, <1>11, <2>2, <3>1, <3>2, <3>3
  <2>4. PICK b : b = Outcome(x, Ask("settle", p * q))
    OBVIOUS
  <2>5. PICK e : e = IF (limit - p) * q > 0 THEN Outcome(b, Ask("release", (limit - p) * q)) ELSE b
    OBVIOUS
  <2>6. PICK f : f = Outcome(e, AskAt("buy_fill", q, p))
    OBVIOUS
  <2>7. /\ p * q \in Int /\ (limit - p) * q \in Int /\ (limit - p) * q >= 0
        /\ Accepts(x, Ask("settle", p * q))
        /\ (limit - p) * q > 0 => Accepts(b, Ask("release", (limit - p) * q))
        /\ Accepts(e, AskAt("buy_fill", q, p))
        /\ Balanced(f) /\ WorthOf(f) = WorthOf(x)
        /\ f.reserved = x.reserved - limit * q /\ f.held = x.held
        /\ f.cash = x.cash - p * q /\ f.qty = x.qty + q
    <3>1. limit \in Nat /\ p <= limit /\ limit * q <= x.reserved
      BY <1>2, <2>1, <2>2, <2>3
    <3> QED
      BY <1>5, <2>4, <2>5, <2>6, <3>1, BuyerPays, SMTT(30)
  <2>8. gain \in Int /\ gain >= 0 /\ gain = (limit - p) * q
    BY <1>9, <2>2, <2>7
  <2>9. PICK paid : paid = AcctCall(s, a, Ask("settle", w))
    OBVIOUS
  <2>10. /\ OnlyAcct(paid, s) /\ paid.failed = s.failed
         /\ paid.acct[a] = b /\ \A k \in Accounts : k # a => paid.acct[k] = s.acct[k]
    <3>1. b = Outcome(s.acct[a], Ask("settle", w)) /\ Accepts(s.acct[a], Ask("settle", w))
      BY <1>3, <1>9, <2>4, <2>7
    <3>2. b \in Account
      BY <1>3, <1>5, <1>10, <3>1, SettleIs
    <3>3. Accepted(paid, s, a, b)
      BY <1>2, <1>3, <2>9, <3>1, <3>2, AcctCallIs
    <3> QED
      BY <3>3 DEF Accepted
  <2>11. PICK back : back = IF gain > 0 THEN AcctCall(paid, a, Ask("release", gain)) ELSE paid
    OBVIOUS
  <2>12. /\ back \in HandlerState /\ back.failed = s.failed
         /\ back.acct[a] = e /\ \A k \in Accounts : k # a => back.acct[k] = s.acct[k]
    <3>1. paid \in HandlerState /\ b \in Account
      BY <1>2, <1>3, <2>10, StateFields DEF OnlyAcct
    <3>2. CASE gain > 0
      <4>1. e = Outcome(paid.acct[a], Ask("release", gain)) /\ Accepts(paid.acct[a], Ask("release", gain))
        BY <2>5, <2>7, <2>8, <2>10, <3>2
      <4>2. e \in Account
        BY <2>8, <2>10, <3>1, <4>1, ReleaseIs
      <4>3. Accepted(back, paid, a, e)
        BY <1>2, <1>3, <2>11, <3>1, <3>2, <4>1, <4>2, AcctCallIs
      <4> QED
        BY <2>10, <4>3 DEF OnlyAcct, Accepted
    <3>3. CASE ~(gain > 0)
      BY <2>5, <2>8, <2>10, <2>11, <3>1, <3>3
    <3> QED
      BY <3>2, <3>3
  <2>13. t = AcctCall(back, a, AskAt("buy_fill", q, p))
    <3>1. ~(gain < 0)
      BY <2>8
    <3> QED
      BY <1>1, <1>3, <1>9, <1>12, <2>9, <2>11, <3>1 DEF settle_fill
  <2>14. /\ t.failed = s.failed
         /\ t.acct[a] = f /\ \A k \in Accounts : k # a => t.acct[k] = s.acct[k]
    <3>1. f = Outcome(back.acct[a], AskAt("buy_fill", q, p)) /\ Accepts(back.acct[a], AskAt("buy_fill", q, p))
      BY <2>6, <2>7, <2>12
    <3>2. f \in Account
      BY <2>7 DEF Balanced
    <3>3. Accepted(t, back, a, f)
      BY <1>2, <1>3, <2>12, <2>13, <3>1, <3>2, AcctCallIs
    <3> QED
      BY <2>12, <3>3 DEF Accepted
  <2>15. ASSUME NEW g \in Kept PROVE f[g] = x[g] - Stake(K[id], c, g) + Stake(K[id], d, g)
    <3>1. f["reserved"] = x["reserved"] - Stake(K[id], c, "reserved") + Stake(K[id], d, "reserved")
      <4>1. Stake(K[id], c, "reserved") = lo.limit * c.left /\ Stake(K[id], d, "reserved") = lo.limit * d.left
        BY <1>4, <1>12 DEF Stake
      <4>2. PICK l : l = lo.limit * c.left
        OBVIOUS
      <4>3. x.reserved - all = x.reserved - l + (l - all)
        BY <1>11, <2>3, <4>2
      <4> QED
        BY <2>2, <2>3, <2>7, <4>1, <4>2, <4>3, Zenon
    <3>2. f["held"] = x["held"] - Stake(K[id], c, "held") + Stake(K[id], d, "held")
      <4>1. Stake(K[id], c, "held") = 0 /\ Stake(K[id], d, "held") = 0
        BY <1>4, <1>12 DEF Stake
      <4> QED
        BY <1>11, <2>7, <4>1
    <3>3. f["cash"] = x["cash"] - Stake(K[id], c, "cash") + Stake(K[id], d, "cash")
      <4>1. Stake(K[id], c, "cash") = 0 - c.money /\ Stake(K[id], d, "cash") = 0 - d.money
        BY <1>4, <1>12 DEF Stake
      <4>2. f.cash = x.cash - w /\ d.money = c.money + w
        BY <1>7, <1>9, <2>7
      <4> QED
        BY <1>6, <1>10, <1>11, <4>1, <4>2
    <3>4. f["qty"] = x["qty"] - Stake(K[id], c, "qty") + Stake(K[id], d, "qty")
      <4>1. Stake(K[id], c, "qty") = c.shares /\ Stake(K[id], d, "qty") = d.shares
        BY <1>4, <1>12 DEF Stake
      <4> QED
        BY <1>6, <1>7, <1>11, <2>7, <4>1
    <3> QED
      BY <3>1, <3>2, <3>3, <3>4 DEF Kept
  <2>16. Posted(t.acct, K, D, base)
    <3>1. Moves(s.acct[K[id].acct], f, K[id], C[id], d)
      BY <1>1, <1>3, <1>4, <2>7, <2>15 DEF Moves
    <3>2. OneAccount(t.acct, s.acct, K[id].acct, f)
      BY <1>4, <2>14 DEF OneAccount
    <3>3. Becomes(D, C, id, d)
      BY <1>1
    <3> QED
      BY <1>2, <1>7, <3>1, <3>2, <3>3, Reposted
  <2> QED
    BY <2>14, <2>16
<1>13. CASE lo.side # "buy"
  <2>1. q <= x.held
    <3>1. Stake(K[id], c, "held") = c.left
      BY <1>4, <1>13 DEF Stake
    <3> QED
      BY <1>5, <1>6, <1>11, <3>1
  <2>2. PICK b : b = Outcome(x, Ask("deposit", p * q))
    OBVIOUS
  <2>3. PICK f : f = Outcome(b, AskAt("sell_fill", q, p))
    OBVIOUS
  <2>4. /\ Accepts(x, Ask("deposit", p * q)) /\ Accepts(b, AskAt("sell_fill", q, p))
        /\ Balanced(f) /\ WorthOf(f) = WorthOf(x)
        /\ f.reserved = x.reserved /\ f.held = x.held - q
        /\ f.cash = x.cash + p * q /\ f.qty = x.qty - q
    BY <1>5, <2>1, <2>2, <2>3, SellerIsPaid
  <2>5. PICK paid : paid = AcctCall(s, a, Ask("deposit", w))
    OBVIOUS
  <2>6. /\ OnlyAcct(paid, s) /\ paid.failed = s.failed
        /\ paid.acct[a] = b /\ \A k \in Accounts : k # a => paid.acct[k] = s.acct[k]
    <3>1. b = Outcome(s.acct[a], Ask("deposit", w)) /\ Accepts(s.acct[a], Ask("deposit", w))
      BY <1>3, <1>9, <2>2, <2>4
    <3>2. b \in Account
      BY <1>3, <1>5, <1>10, <3>1, DepositIs
    <3>3. Accepted(paid, s, a, b)
      BY <1>2, <1>3, <2>5, <3>1, <3>2, AcctCallIs
    <3> QED
      BY <3>3 DEF Accepted
  <2>7. t = AcctCall(paid, a, AskAt("sell_fill", q, p))
    BY <1>1, <1>3, <1>9, <1>13, <2>5 DEF settle_fill
  <2>8. /\ t.failed = s.failed
        /\ t.acct[a] = f /\ \A k \in Accounts : k # a => t.acct[k] = s.acct[k]
    <3>1. f = Outcome(paid.acct[a], AskAt("sell_fill", q, p)) /\ Accepts(paid.acct[a], AskAt("sell_fill", q, p))
      BY <2>3, <2>4, <2>6
    <3>2. f \in Account /\ paid \in HandlerState
      BY <2>4, <2>6 DEF Balanced, OnlyAcct
    <3>3. Accepted(t, paid, a, f)
      BY <1>2, <1>3, <2>7, <3>1, <3>2, AcctCallIs
    <3> QED
      BY <2>6, <3>3 DEF Accepted
  <2>9. ASSUME NEW g \in Kept PROVE f[g] = x[g] - Stake(K[id], c, g) + Stake(K[id], d, g)
    <3>1. f["reserved"] = x["reserved"] - Stake(K[id], c, "reserved") + Stake(K[id], d, "reserved")
      <4>1. Stake(K[id], c, "reserved") = 0 /\ Stake(K[id], d, "reserved") = 0
        BY <1>4, <1>13 DEF Stake
      <4> QED
        BY <1>11, <2>4, <4>1
    <3>2. f["held"] = x["held"] - Stake(K[id], c, "held") + Stake(K[id], d, "held")
      <4>1. Stake(K[id], c, "held") = c.left /\ Stake(K[id], d, "held") = d.left
        BY <1>4, <1>13 DEF Stake
      <4> QED
        BY <1>6, <1>7, <1>11, <2>4, <4>1
    <3>3. f["cash"] = x["cash"] - Stake(K[id], c, "cash") + Stake(K[id], d, "cash")
      <4>1. Stake(K[id], c, "cash") = c.money /\ Stake(K[id], d, "cash") = d.money
        BY <1>4, <1>13 DEF Stake
      <4>2. f.cash = x.cash + w /\ d.money = c.money + w
        BY <1>7, <1>9, <2>4
      <4> QED
        BY <1>6, <1>10, <1>11, <4>1, <4>2
    <3>4. f["qty"] = x["qty"] - Stake(K[id], c, "qty") + Stake(K[id], d, "qty")
      <4>1. Stake(K[id], c, "qty") = 0 - c.shares /\ Stake(K[id], d, "qty") = 0 - d.shares
        BY <1>4, <1>13 DEF Stake
      <4> QED
        BY <1>6, <1>7, <1>11, <2>4, <4>1
    <3> QED
      BY <3>1, <3>2, <3>3, <3>4 DEF Kept
  <2>10. Posted(t.acct, K, D, base)
    <3>1. Moves(s.acct[K[id].acct], f, K[id], C[id], d)
      BY <1>1, <1>3, <1>4, <2>4, <2>9 DEF Moves
    <3>2. OneAccount(t.acct, s.acct, K[id].acct, f)
      BY <1>4, <2>8 DEF OneAccount
    <3>3. Becomes(D, C, id, d)
      BY <1>1
    <3> QED
      BY <1>2, <1>7, <3>1, <3>2, <3>3, Reposted
  <2> QED
    BY <2>8, <2>10
<1> QED
  BY <1>12, <1>13

\* What release_unused asks of the account.
Return(lo, n) == IF lo.side = "buy" THEN Ask("release", lo.limit * n) ELSE Ask("sell_release", n)

LEMMA ReleaseCalls ==
  ASSUME NEW s, NEW lo, NEW n \in Int, NEW t, t = release_unused(s, lo, n)
  PROVE  /\ n <= 0 => t = s
         /\ n > 0 => t = AcctCall(s, lo.acct, Return(lo, n))
  BY DEF release_unused, Return

LEMMA ReleaseFrame ==
  ASSUME NEW s \in HandlerState, NEW lo, TermsOf(lo) \in TermsRec, NEW n \in Int
  PROVE  OnlyAcct(release_unused(s, lo, n), s)
<1>1. PICK t : t = release_unused(s, lo, n)
  OBVIOUS
<1>2. /\ n <= 0 => t = s
      /\ n > 0 => t = AcctCall(s, lo.acct, Return(lo, n))
  BY <1>1, ReleaseCalls
<1>3. lo.acct \in Accounts /\ lo.limit \in Nat /\ lo.side \in Side
  BY TermTypes DEF TermsOf
<1>4. CASE n <= 0
  BY <1>1, <1>2, <1>4 DEF OnlyAcct
<1>5. CASE n > 0
  <2>1. PICK w : w = lo.limit * n
    OBVIOUS
  <2>2. w \in Int
    BY <1>3, <2>1, SMTT(20)
  <2>3. PICK x : x = s.acct[lo.acct]
    OBVIOUS
  <2>4. x \in Account
    BY <1>3, <2>3, StateFields
  <2>5. Outcome(x, Ask("release", w)) \in Account /\ Outcome(x, Ask("sell_release", n)) \in Account
    BY <2>2, <2>4, ReleaseIs, SellReleaseIs
  <2>6. Outcome(x, Return(lo, n)) \in Account
    BY <2>1, <2>5 DEF Return
  <2>7. OnlyAcct(t, s)
    BY <1>2, <1>3, <1>5, <2>3, <2>6, AcctCallIs
  <2> QED
    BY <1>1, <2>7
<1> QED
  BY <1>4, <1>5

LEMMA SameClaims ==
  ASSUME NEW C \in [Slots -> Claim], NEW D, NEW u \in Slots, Becomes(D, C, u, C[u])
  PROVE  D = C
  BY DEF Becomes

\* What an order has a claim for can be released.
LEMMA ReleasePosted ==
  ASSUME NEW s \in HandlerState, NEW lo, NEW u \in Slots, NEW n \in Nat,
         NEW K \in [Slots -> TermsRec], K[u] = TermsOf(lo),
         NEW C \in [Slots -> Claim], NEW base \in Base, Posted(s.acct, K, C, base),
         n <= C[u].left, NEW D, Becomes(D, C, u, Freed(C[u], n)),
         NEW t, t = release_unused(s, lo, n)
  PROVE  t.failed = s.failed /\ Posted(t.acct, K, D, base)
<1>1. PICK c, d, a : c = C[u] /\ d = Freed(c, n) /\ a = lo.acct
  OBVIOUS
<1>2. PICK x : x = s.acct[a]
  OBVIOUS
<1>3. TermsOf(lo) \in TermsRec /\ K[u].acct = a /\ K[u].side = lo.side /\ K[u].limit = lo.limit
  <2>1. K[u] \in TermsRec
    OBVIOUS
  <2> QED
    BY <1>1, <2>1 DEF TermsOf
<1>4. a \in Accounts /\ lo.limit \in Nat \ {0} /\ lo.side \in Side
  BY <1>1, <1>3, TermTypes DEF TermsOf
<1>5. c \in Claim /\ c.left \in Nat /\ c.money \in Nat /\ c.shares \in Nat
  BY <1>1, ClaimTypes
<1>6. d \in Claim /\ d.left = c.left - n /\ d.money = c.money /\ d.shares = c.shares
  BY <1>1, <1>5, FreedIs
<1>7. /\ n <= 0 => t = s
      /\ n > 0 => t = AcctCall(s, a, Return(lo, n))
  BY <1>1, ReleaseCalls
<1>8. CASE n = 0
  <2>1. Freed(C[u], n) = C[u]
    <3>1. c = [left |-> c.left, money |-> c.money, shares |-> c.shares] /\ c.left - 0 = c.left
      BY <1>5 DEF Claim
    <3> QED
      BY <1>1, <1>8, <3>1 DEF Freed
  <2>2. D = C
    BY <2>1, SameClaims
  <2> QED
    BY <1>7, <1>8, <2>2
<1>9. CASE n # 0
  <2>1. n \in Nat \ {0} /\ n > 0
    BY <1>9
  <2>2. /\ Balanced(x) /\ x \in Account
        /\ Stake(K[u], c, "reserved") <= x.reserved /\ Stake(K[u], c, "held") <= x.held
    BY <1>1, <1>2, <1>3, Covered DEF Balanced
  <2>3. x.reserved \in Int /\ x.held \in Int /\ x.cash \in Int /\ x.qty \in Int
    BY <2>2, FieldTypes
  <2>4. PICK f : f = Outcome(x, Return(lo, n))
    OBVIOUS
  <2>5. Accepts(x, Return(lo, n)) /\ Moves(x, f, K[u], c, d)
    <3>1. CASE lo.side = "buy"
      <4>1. PICK w, l : w = lo.limit * n /\ l = lo.limit * c.left
        OBVIOUS
      <4>2. w \in Nat \ {0} /\ l \in Nat /\ w <= l /\ lo.limit * d.left = l - w
        <5>1. lo.limit * n \in Nat /\ lo.limit * n > 0 /\ lo.limit * c.left \in Nat
          BY <1>4, <1>5, <2>1, SMTT(20)
        <5>2. lo.limit * n <= lo.limit * c.left
          BY <1>1, <1>4, <1>5, <2>1, SMTT(20)
        <5>3. lo.limit * (c.left - n) = lo.limit * c.left - lo.limit * n
          BY <1>4, <1>5, <2>1, SMTT(20)
        <5> QED
          BY <1>6, <4>1, <5>1, <5>2, <5>3
      <4>3. Stake(K[u], c, "reserved") = l /\ Stake(K[u], d, "reserved") = l - w
        BY <1>3, <3>1, <4>1, <4>2 DEF Stake
      <4>4. Return(lo, n) = Ask("release", w)
        BY <3>1, <4>1 DEF Return
      <4>5. /\ Accepts(x, Ask("release", w)) /\ Balanced(f) /\ WorthOf(f) = WorthOf(x)
            /\ f.reserved = x.reserved - w /\ f.held = x.held /\ f.cash = x.cash /\ f.qty = x.qty
        <5>1. w <= x.reserved
          BY <2>2, <2>3, <4>2, <4>3
        <5> QED
          BY <2>2, <2>4, <4>2, <4>4, <5>1, MoneyReleased
      <4>6. /\ Stake(K[u], c, "held") = 0 /\ Stake(K[u], d, "held") = 0
            /\ Stake(K[u], c, "cash") = 0 - c.money /\ Stake(K[u], d, "cash") = 0 - d.money
            /\ Stake(K[u], c, "qty") = c.shares /\ Stake(K[u], d, "qty") = d.shares
        BY <1>3, <3>1 DEF Stake
      <4>7. /\ f["reserved"] = x["reserved"] - Stake(K[u], c, "reserved") + Stake(K[u], d, "reserved")
            /\ f["held"] = x["held"] - Stake(K[u], c, "held") + Stake(K[u], d, "held")
            /\ f["cash"] = x["cash"] - Stake(K[u], c, "cash") + Stake(K[u], d, "cash")
            /\ f["qty"] = x["qty"] - Stake(K[u], c, "qty") + Stake(K[u], d, "qty")
        BY <1>5, <1>6, <2>3, <4>2, <4>3, <4>5, <4>6
      <4> QED
        BY <4>4, <4>5, <4>7 DEF Moves, Kept
    <3>2. CASE lo.side # "buy"
      <4>1. Stake(K[u], c, "held") = c.left /\ Stake(K[u], d, "held") = d.left
        BY <1>3, <3>2 DEF Stake
      <4>2. Return(lo, n) = Ask("sell_release", n)
        BY <3>2 DEF Return
      <4>3. /\ Accepts(x, Ask("sell_release", n)) /\ Balanced(f) /\ WorthOf(f) = WorthOf(x)
            /\ f.reserved = x.reserved /\ f.held = x.held - n /\ f.cash = x.cash /\ f.qty = x.qty
        <5>1. n <= x.held
          BY <1>1, <1>5, <2>1, <2>2, <2>3, <4>1
        <5> QED
          BY <2>1, <2>2, <2>4, <4>2, <5>1, SharesReleased
      <4>4. /\ Stake(K[u], c, "reserved") = 0 /\ Stake(K[u], d, "reserved") = 0
            /\ Stake(K[u], c, "cash") = c.money /\ Stake(K[u], d, "cash") = d.money
            /\ Stake(K[u], c, "qty") = 0 - c.shares /\ Stake(K[u], d, "qty") = 0 - d.shares
        BY <1>3, <3>2 DEF Stake
      <4>5. /\ f["reserved"] = x["reserved"] - Stake(K[u], c, "reserved") + Stake(K[u], d, "reserved")
            /\ f["held"] = x["held"] - Stake(K[u], c, "held") + Stake(K[u], d, "held")
            /\ f["cash"] = x["cash"] - Stake(K[u], c, "cash") + Stake(K[u], d, "cash")
            /\ f["qty"] = x["qty"] - Stake(K[u], c, "qty") + Stake(K[u], d, "qty")
        BY <1>5, <1>6, <2>3, <4>1, <4>3, <4>4
      <4> QED
        BY <4>2, <4>3, <4>5 DEF Moves, Kept
    <3> QED
      BY <3>1, <3>2
  <2>6. Accepted(t, s, a, f)
    <3>1. f \in Account
      BY <2>5 DEF Moves, Balanced
    <3> QED
      BY <1>2, <1>4, <1>7, <2>1, <2>4, <2>5, <3>1, AcctCallIs
  <2>7. Posted(t.acct, K, D, base)
    <3>1. Moves(s.acct[K[u].acct], f, K[u], C[u], d)
      BY <1>1, <1>2, <1>3, <2>5
    <3>2. OneAccount(t.acct, s.acct, K[u].acct, f)
      BY <1>3, <2>6 DEF OneAccount, Accepted
    <3>3. Becomes(D, C, u, d)
      BY <1>1
    <3> QED
      BY <1>6, <3>1, <3>2, <3>3, Reposted
  <2> QED
    BY <2>6, <2>7 DEF Accepted
<1> QED
  BY <1>8, <1>9

\* An accepted reservation is what the new order claims.
NewClaim(n) == [left |-> n, money |-> 0, shares |-> 0]

LEMMA ReservePosted ==
  ASSUME NEW s \in HandlerState, NEW a \in Accounts, NEW r, r.side \in Side,
         r.price \in Nat \ {0}, r.qty \in Nat \ {0}, Accepts(s.acct[a], Reservation(r)),
         NEW u \in Slots, NEW K \in [Slots -> TermsRec],
         K[u] = [acct |-> a, side |-> r.side, limit |-> r.price],
         NEW C \in [Slots -> Claim], NEW base \in Base, Posted(s.acct, K, C, base),
         C[u] = NoClaim, NEW D, Becomes(D, C, u, NewClaim(r.qty)),
         NEW t, t = AcctCall(s, a, Reservation(r))
  PROVE  t.failed = s.failed /\ Posted(t.acct, K, D, base)
<1>1. PICK c, d, n, x : c = C[u] /\ d = NewClaim(r.qty) /\ n = r.qty /\ x = s.acct[a]
  OBVIOUS
<1>2. c.left = 0 /\ c.money = 0 /\ c.shares = 0 /\ d.left = n /\ d.money = 0 /\ d.shares = 0 /\ d \in Claim
  BY <1>1 DEF NoClaim, NewClaim, Claim
<1>3. K[u].acct = a /\ K[u].side = r.side /\ K[u].limit = r.price
  OBVIOUS
<1>4. Balanced(x) /\ x \in Account
  BY <1>1 DEF Posted, Balanced
<1>5. x.reserved \in Int /\ x.held \in Int /\ x.cash \in Int /\ x.qty \in Int
  BY <1>4, FieldTypes
<1>6. PICK f : f = Outcome(x, Reservation(r))
  OBVIOUS
<1>7. Moves(x, f, K[u], c, d)
  <2>1. CASE r.side = "buy"
    <3>1. PICK w : w = r.price * n
      OBVIOUS
    <3>2. w \in Nat \ {0}
      BY <1>1, <3>1, SMTT(20)
    <3>3. Reservation(r) = Ask("reserve", w)
      BY <1>1, <2>1, <3>1 DEF Reservation
    <3>4. /\ Balanced(f) /\ WorthOf(f) = WorthOf(x)
          /\ f.reserved = x.reserved + w /\ f.held = x.held /\ f.cash = x.cash /\ f.qty = x.qty
      BY <1>1, <1>4, <1>6, <3>2, <3>3, MoneyReserved
    <3>5. Stake(K[u], c, "reserved") = 0 /\ Stake(K[u], d, "reserved") = w
      <4>1. \A l \in Nat : l * 0 = 0
        OBVIOUS
      <4>2. r.price * 0 = 0
        BY <4>1
      <4>3. Stake(K[u], c, "reserved") = r.price * 0
        BY <1>2, <1>3, <2>1 DEF Stake
      <4>4. Stake(K[u], d, "reserved") = r.price * n
        BY <1>2, <1>3, <2>1 DEF Stake
      <4> QED
        BY <3>1, <4>2, <4>3, <4>4
    <3>6. /\ Stake(K[u], c, "held") = 0 /\ Stake(K[u], d, "held") = 0
          /\ Stake(K[u], c, "cash") = 0 - 0 /\ Stake(K[u], d, "cash") = 0 - 0
          /\ Stake(K[u], c, "qty") = 0 /\ Stake(K[u], d, "qty") = 0
      BY <1>2, <1>3, <2>1 DEF Stake
    <3>7. /\ f["reserved"] = x["reserved"] - Stake(K[u], c, "reserved") + Stake(K[u], d, "reserved")
          /\ f["held"] = x["held"] - Stake(K[u], c, "held") + Stake(K[u], d, "held")
          /\ f["cash"] = x["cash"] - Stake(K[u], c, "cash") + Stake(K[u], d, "cash")
          /\ f["qty"] = x["qty"] - Stake(K[u], c, "qty") + Stake(K[u], d, "qty")
      BY <1>5, <3>2, <3>4, <3>5, <3>6
    <3> QED
      BY <3>4, <3>7 DEF Moves, Kept
  <2>2. CASE r.side # "buy"
    <3>1. Reservation(r) = Ask("sell_reserve", n) /\ n \in Nat \ {0}
      BY <1>1, <2>2 DEF Reservation
    <3>2. /\ Balanced(f) /\ WorthOf(f) = WorthOf(x)
          /\ f.reserved = x.reserved /\ f.held = x.held + n /\ f.cash = x.cash /\ f.qty = x.qty
      BY <1>1, <1>4, <1>6, <3>1, SharesReserved
    <3>3. /\ Stake(K[u], c, "reserved") = 0 /\ Stake(K[u], d, "reserved") = 0
          /\ Stake(K[u], c, "held") = 0 /\ Stake(K[u], d, "held") = n
          /\ Stake(K[u], c, "cash") = 0 /\ Stake(K[u], d, "cash") = 0
          /\ Stake(K[u], c, "qty") = 0 - 0 /\ Stake(K[u], d, "qty") = 0 - 0
      BY <1>2, <1>3, <2>2 DEF Stake
    <3>4. /\ f["reserved"] = x["reserved"] - Stake(K[u], c, "reserved") + Stake(K[u], d, "reserved")
          /\ f["held"] = x["held"] - Stake(K[u], c, "held") + Stake(K[u], d, "held")
          /\ f["cash"] = x["cash"] - Stake(K[u], c, "cash") + Stake(K[u], d, "cash")
          /\ f["qty"] = x["qty"] - Stake(K[u], c, "qty") + Stake(K[u], d, "qty")
      BY <1>5, <3>1, <3>2, <3>3
    <3> QED
      BY <3>2, <3>4 DEF Moves, Kept
  <2> QED
    BY <2>1, <2>2
<1>8. Accepted(t, s, a, f)
  <2>1. f \in Account
    BY <1>7 DEF Moves, Balanced
  <2> QED
    BY <1>1, <1>6, <2>1, AcctCallIs
<1>9. Posted(t.acct, K, D, base)
  <2>1. Moves(s.acct[K[u].acct], f, K[u], C[u], d)
    BY <1>1, <1>3, <1>7
  <2>2. OneAccount(t.acct, s.acct, K[u].acct, f)
    BY <1>3, <1>8 DEF OneAccount, Accepted
  <2>3. Becomes(D, C, u, d)
    BY <1>1
  <2> QED
    BY <1>2, <2>1, <2>2, <2>3, Reposted
<1> QED
  BY <1>8, <1>9 DEF Accepted

-----------------------------------------------------------------------------
(* Record updates of a handler.                                             *)

WithLeg(os, u, m, l) == [os EXCEPT ![u].legs[m] = l]

\* os2 is os but for the leg in m of order u, which is l.
Relegged(os2, os, u, m, l) ==
  /\ os2 \in OrderMaps /\ Len(os2) = Len(os)
  /\ \A v \in DOMAIN os : v # u => os2[v] = os[v]
  /\ Listed(os2, u) /\ TermsOf(os2[u]) = TermsOf(os[u])
  /\ os2[u].qty = os[u].qty /\ os2[u].market = os[u].market
  /\ DOMAIN os2[u].legs = DOMAIN os[u].legs /\ os2[u].legs[m] = l
  /\ \A k \in DOMAIN os[u].legs : k # m => os2[u].legs[k] = os[u].legs[k]
  /\ omap_filled_qty(os2[u]) = omap_filled_qty(os[u]) - os[u].legs[m].filled + l.filled
  /\ omap_canceled_qty(os2[u]) = omap_canceled_qty(os[u]) - os[u].legs[m].canceled + l.canceled
  /\ omap_notional(os2[u]) = omap_notional(os[u]) - os[u].legs[m].notional + l.notional

LEMMA OrdersAreOrders == ASSUME NEW lo \in OrderRec PROVE IsOrder(lo)
<1>1. DOMAIN lo = {"acct", "side", "limit", "qty", "market", "legs"}
  BY DEF OrderRec
<1>2. DOMAIN NoOrder = {"acct"}
  BY DEF NoOrder
<1>3. "side" \in DOMAIN lo /\ "side" \notin DOMAIN NoOrder
  BY <1>1, <1>2
<1>4. DOMAIN lo # DOMAIN NoOrder
  BY <1>3, Zenon
<1> QED
  BY <1>4, Zenon DEF IsOrder

LEMMA WithLegIs ==
  ASSUME NEW os \in OrderMaps, NEW u, Listed(os, u), NEW m \in DOMAIN os[u].legs,
         NEW l, LegOK(l), l.sent = os[u].legs[m].sent
  PROVE  Relegged(WithLeg(os, u, m, l), os, u, m, l)
<1>1. PICK os2 : os2 = WithLeg(os, u, m, l)
  OBVIOUS
<1>2. PICK lo : lo = os[u]
  OBVIOUS
<1>3. u \in DOMAIN os /\ OrderOK(lo) /\ lo \in OrderRec /\ os \in Seq(OrderRec \cup {NoOrder})
  BY <1>2, OrderMapFacts DEF Listed
<1>4. /\ lo.acct \in Accounts /\ lo.side \in Side /\ lo.limit \in Nat \ {0} /\ lo.qty \in Nat \ {0}
      /\ lo.market \in MarketNames /\ DOMAIN lo.legs \in SUBSET Markets
      /\ lo.legs \in [DOMAIN lo.legs -> LegRec] /\ LegsOK(lo.legs) /\ Over(lo.legs, "sent") = lo.qty
  BY <1>3, OrderTypes DEF OrderOK
<1>5. PICK legs : legs = [lo.legs EXCEPT ![m] = l]
  OBVIOUS
<1>6. PICK lo2 : lo2 = [lo EXCEPT !.legs = legs]
  OBVIOUS
<1>7. os2 = [os EXCEPT ![u] = lo2]
  BY <1>1, <1>2, <1>5, <1>6 DEF WithLeg
<1>8. m \in DOMAIN lo.legs /\ l \in LegRec
  BY <1>2 DEF LegOK
<1>9. DOMAIN legs = DOMAIN lo.legs /\ legs[m] = l /\ \A k \in DOMAIN lo.legs : k # m => legs[k] = lo.legs[k]
  BY <1>5, <1>8
<1>10. legs \in [DOMAIN lo.legs -> LegRec]
  BY <1>4, <1>5, <1>8
<1>11. /\ lo2 \in OrderRec /\ lo2.acct = lo.acct /\ lo2.side = lo.side /\ lo2.limit = lo.limit
       /\ lo2.qty = lo.qty /\ lo2.market = lo.market /\ lo2.legs = legs
  <2>1. legs \in UNION {[D -> LegRec] : D \in SUBSET Markets}
    BY <1>4, <1>10
  <2>2. lo2 = [acct |-> lo.acct, side |-> lo.side, limit |-> lo.limit, qty |-> lo.qty,
               market |-> lo.market, legs |-> legs]
    BY <1>3, <1>6 DEF OrderRec
  <2> QED
    BY <1>4, <2>1, <2>2 DEF OrderRec
<1>12. ASSUME NEW field \in {"sent", "filled", "canceled", "notional"}
       PROVE  LegsOK(legs) /\ Over(legs, field) = Over(lo.legs, field) - lo.legs[m][field] + l[field]
  BY <1>4, <1>5, <1>8, TotalChange
<1>13. LegsOK(legs) /\ Over(legs, "sent") = lo.qty
  <2>1. LegsOK(legs) /\ Over(legs, "sent") = Over(lo.legs, "sent") - lo.legs[m]["sent"] + l["sent"]
    BY <1>12
  <2>2. l.sent \in Nat /\ lo.legs[m].sent = l.sent
    BY <1>2, LegTypes
  <2> QED
    BY <1>4, <2>1, <2>2
<1>14. OrderOK(lo2) /\ IsOrder(lo2)
  BY <1>11, <1>13, OrdersAreOrders DEF OrderOK
<1>15. os2 \in OrderMaps /\ Len(os2) = Len(os) /\ DOMAIN os2 = DOMAIN os
       /\ os2[u] = lo2 /\ \A v \in DOMAIN os : v # u => os2[v] = os[v]
  <2>1. DOMAIN os2 = DOMAIN os /\ os2[u] = lo2 /\ \A v \in DOMAIN os : v # u => os2[v] = os[v]
    BY <1>3, <1>7
  <2>2. os2 \in Seq(OrderRec \cup {NoOrder}) /\ Len(os2) = Len(os)
    BY <1>3, <1>7, <1>11
  <2>3. \A v \in DOMAIN os2 : IsOrder(os2[v]) => OrderOK(os2[v])
    BY <1>14, <2>1 DEF OrderMaps
  <2>4. Len(os) <= OrderCap
    BY OrderMapFacts
  <2> QED
    BY <2>1, <2>2, <2>3, <2>4 DEF OrderMaps
<1>16. /\ omap_filled_qty(lo2) = omap_filled_qty(lo) - lo.legs[m].filled + l.filled
       /\ omap_canceled_qty(lo2) = omap_canceled_qty(lo) - lo.legs[m].canceled + l.canceled
       /\ omap_notional(lo2) = omap_notional(lo) - lo.legs[m].notional + l.notional
  <2>1. Over(legs, "filled") = Over(lo.legs, "filled") - lo.legs[m]["filled"] + l["filled"]
    BY <1>12
  <2>2. Over(legs, "canceled") = Over(lo.legs, "canceled") - lo.legs[m]["canceled"] + l["canceled"]
    BY <1>12
  <2>3. Over(legs, "notional") = Over(lo.legs, "notional") - lo.legs[m]["notional"] + l["notional"]
    BY <1>12
  <2> QED
    BY <1>11, <2>1, <2>2, <2>3 DEF omap_filled_qty, omap_canceled_qty, omap_notional
<1>17. Listed(os2, u) /\ TermsOf(lo2) = TermsOf(lo)
  BY <1>3, <1>11, <1>14, <1>15 DEF Listed, TermsOf
<1>18. Relegged(os2, os, u, m, l)
  BY <1>2, <1>9, <1>11, <1>15, <1>16, <1>17 DEF Relegged
<1> QED
  BY <1>1, <1>18

\* What the map says order u has left in m.
LeftOf(os, u, m) ==
  IF Listed(os, u) /\ m \in DOMAIN os[u].legs THEN LegLeft(os[u].legs[m]) ELSE 0

LEMMA LeftOfType ==
  ASSUME NEW os \in OrderMaps, NEW u, NEW m
  PROVE  LeftOf(os, u, m) \in Nat
<1>1. CASE Listed(os, u) /\ m \in DOMAIN os[u].legs
  <2>1. LegOK(os[u].legs[m])
    BY <1>1, OrderMapFacts DEF OrderOK, LegsOK
  <2>2. LegLeft(os[u].legs[m]) \in Nat
    BY <2>1, LegTypes
  <2> QED
    BY <1>1, <2>2 DEF LeftOf
<1> QED
  BY <1>1 DEF LeftOf

LEMMA ReleggedElsewhere ==
  ASSUME NEW os \in OrderMaps, NEW u, Listed(os, u), NEW m \in DOMAIN os[u].legs, NEW l,
         NEW os2, Relegged(os2, os, u, m, l)
  PROVE  /\ DOMAIN os2 = DOMAIN os /\ Terms(os2) = Terms(os)
         /\ \A v : Listed(os2, v) <=> Listed(os, v)
         /\ LeftOf(os2, u, m) = LegLeft(l)
         /\ \A v, k : ~(v = u /\ k = m) => LeftOf(os2, v, k) = LeftOf(os, v, k)
<1>1. DOMAIN os = 1..Len(os) /\ DOMAIN os2 = 1..Len(os2)
  BY OrderMapFacts DEF Relegged
<1>2. DOMAIN os2 = DOMAIN os
  BY <1>1 DEF Relegged
<1>3. ASSUME NEW v PROVE Listed(os2, v) <=> Listed(os, v)
  BY <1>2 DEF Relegged, Listed
<1>4. ASSUME NEW v, Listed(os, v) PROVE TermsOf(os2[v]) = TermsOf(os[v])
  BY <1>4 DEF Relegged, Listed
<1>5. Terms(os2) = Terms(os)
  BY <1>3, <1>4, Zenon DEF Terms
<1>6. ASSUME NEW v, NEW k, ~(v = u /\ k = m) PROVE LeftOf(os2, v, k) = LeftOf(os, v, k)
  <2>1. CASE v = u
    BY <1>3, <1>6, <2>1 DEF Relegged, LeftOf
  <2>2. CASE v # u
    BY <1>3, <2>2 DEF Relegged, LeftOf, Listed
  <2> QED
    BY <2>1, <2>2
<1>7. LeftOf(os2, u, m) = LegLeft(l)
  BY DEF Relegged, LeftOf
<1> QED
  BY <1>2, <1>3, <1>5, <1>6, <1>7

\* Nothing but the record of orders.
OnlyOrders(t, s) ==
  /\ t \in HandlerState /\ t.acct = s.acct /\ t.book = s.book /\ t.failed = s.failed
  /\ t.refused = s.refused /\ t.filled = s.filled /\ t.canceled = s.canceled

LEMMA OrdersSet ==
  ASSUME NEW s \in HandlerState, NEW os \in OrderMaps, NEW t, t = [s EXCEPT !.orders = os]
  PROVE  OnlyOrders(t, s) /\ t.orders = os
  BY DEF HandlerState, OnlyOrders

LEMMA LegFillIs ==
  ASSUME NEW s \in HandlerState, NEW u, Listed(s.orders, u), NEW m \in DOMAIN s.orders[u].legs,
         NEW q \in Nat \ {0}, NEW n \in Nat \ {0}, Takes(s.orders[u].legs[m], q),
         NEW t, t = LegFill(s, u, m, q, n)
  PROVE  \E l : /\ LegOK(l) /\ l = omap_on_fill(s.orders[u].legs[m], q, n)
                /\ OnlyOrders(t, s) /\ Relegged(t.orders, s.orders, u, m, l)
<1>1. PICK l : l = omap_on_fill(s.orders[u].legs[m], q, n)
  OBVIOUS
<1>2. s.orders \in OrderMaps /\ LegOK(s.orders[u].legs[m])
  BY StateFields, OrderMapFacts DEF OrderOK, LegsOK
<1>3. LegOK(l) /\ l.sent = s.orders[u].legs[m].sent
  BY <1>1, <1>2, FilledLeg
<1>4. PICK os : os = WithLeg(s.orders, u, m, l)
  OBVIOUS
<1>5. Relegged(os, s.orders, u, m, l)
  BY <1>2, <1>3, <1>4, WithLegIs
<1>6. t = [s EXCEPT !.orders = os]
  BY <1>1, <1>4 DEF LegFill, WithLeg
<1>7. OnlyOrders(t, s) /\ t.orders = os
  BY <1>5, <1>6, OrdersSet DEF Relegged
<1> QED
  BY <1>1, <1>3, <1>5, <1>7

LEMMA LegCancelIs ==
  ASSUME NEW s \in HandlerState, NEW u, Listed(s.orders, u), NEW m \in DOMAIN s.orders[u].legs,
         NEW q \in Nat \ {0}, Takes(s.orders[u].legs[m], q),
         NEW t, t = LegCancel(s, u, m, q)
  PROVE  \E l : /\ LegOK(l) /\ l = omap_on_cancel(s.orders[u].legs[m], q)
                /\ OnlyOrders(t, s) /\ Relegged(t.orders, s.orders, u, m, l)
<1>1. PICK l : l = omap_on_cancel(s.orders[u].legs[m], q)
  OBVIOUS
<1>2. s.orders \in OrderMaps /\ LegOK(s.orders[u].legs[m])
  BY StateFields, OrderMapFacts DEF OrderOK, LegsOK
<1>3. LegOK(l) /\ l.sent = s.orders[u].legs[m].sent
  BY <1>1, <1>2, CanceledLeg
<1>4. PICK os : os = WithLeg(s.orders, u, m, l)
  OBVIOUS
<1>5. Relegged(os, s.orders, u, m, l)
  BY <1>2, <1>3, <1>4, WithLegIs
<1>6. t = [s EXCEPT !.orders = os]
  BY <1>1, <1>4 DEF LegCancel, WithLeg
<1>7. OnlyOrders(t, s) /\ t.orders = os
  BY <1>5, <1>6, OrdersSet DEF Relegged
<1> QED
  BY <1>1, <1>3, <1>5, <1>7

\* Order lo has become lo2 by filling q shares of its leg in m.
Filled(lo2, lo, m, q) ==
  /\ q \in Nat /\ OrderOK(lo2) /\ TermsOf(lo2) = TermsOf(lo) /\ lo2.qty = lo.qty
  /\ lo2.market = lo.market /\ DOMAIN lo2.legs = DOMAIN lo.legs
  /\ \A k \in DOMAIN lo.legs :
       /\ lo2.legs[k].accepted = lo.legs[k].accepted
       /\ LegLeft(lo2.legs[k]) = LegLeft(lo.legs[k]) - (IF k = m THEN q ELSE 0)
  /\ omap_filled_qty(lo2) = omap_filled_qty(lo) + q
  /\ omap_canceled_qty(lo2) = omap_canceled_qty(lo)
  /\ m \notin DOMAIN lo.legs => q = 0
  /\ q = 0 => lo2 = lo

LEMMA FilledNothing ==
  ASSUME NEW lo, OrderOK(lo), NEW m
  PROVE  Filled(lo, lo, m, 0)
<1>1. ASSUME NEW k \in DOMAIN lo.legs PROVE LegLeft(lo.legs[k]) \in Nat
  BY LegTypes DEF OrderOK, LegsOK
<1>2. omap_filled_qty(lo) \in Nat
  BY OrderTotals
<1> QED
  BY <1>1, <1>2 DEF Filled

LEMMA FilledMore ==
  ASSUME NEW lo, OrderOK(lo), NEW m, NEW p, NEW q, NEW lo2, NEW lo3,
         Filled(lo2, lo, m, p), Filled(lo3, lo2, m, q)
  PROVE  Filled(lo3, lo, m, p + q)
<1>1. p \in Nat /\ q \in Nat
  BY DEF Filled
<1>2. DOMAIN lo3.legs = DOMAIN lo.legs /\ DOMAIN lo2.legs = DOMAIN lo.legs
  BY DEF Filled
<1>3. ASSUME NEW k \in DOMAIN lo.legs
      PROVE  /\ lo3.legs[k].accepted = lo.legs[k].accepted
             /\ LegLeft(lo3.legs[k]) = LegLeft(lo.legs[k]) - (IF k = m THEN p + q ELSE 0)
  <2>1. PICK l, l2, l3 : l = LegLeft(lo.legs[k]) /\ l2 = LegLeft(lo2.legs[k]) /\ l3 = LegLeft(lo3.legs[k])
    OBVIOUS
  <2>2. l \in Nat
    BY <2>1, LegTypes DEF OrderOK, LegsOK
  <2>3. l2 = l - (IF k = m THEN p ELSE 0) /\ l3 = l2 - (IF k = m THEN q ELSE 0)
    BY <1>2, <2>1 DEF Filled
  <2>4. l3 = l - (IF k = m THEN p + q ELSE 0)
    BY <1>1, <2>2, <2>3
  <2>5. lo3.legs[k].accepted = lo.legs[k].accepted
    BY <1>2 DEF Filled
  <2> QED
    BY <2>1, <2>4, <2>5
<1>4. omap_filled_qty(lo3) = omap_filled_qty(lo) + (p + q)
  <2>1. PICK f, f2, f3 : f = omap_filled_qty(lo) /\ f2 = omap_filled_qty(lo2) /\ f3 = omap_filled_qty(lo3)
    OBVIOUS
  <2>2. f \in Nat /\ f2 = f + p /\ f3 = f2 + q
    BY <2>1, OrderTotals DEF Filled
  <2> QED
    BY <1>1, <2>1, <2>2
<1>5. p + q = 0 => lo3 = lo
  BY <1>1 DEF Filled
<1>6. m \notin DOMAIN lo.legs => p + q = 0
  BY <1>1, <1>2 DEF Filled
<1>7. p + q \in Nat
  BY <1>1
<1> QED
  BY <1>2, <1>3, <1>4, <1>5, <1>6, <1>7 DEF Filled

\* A filled leg of the map fills its order.
LEMMA FillFills ==
  ASSUME NEW os \in OrderMaps, NEW u, Listed(os, u), NEW m \in DOMAIN os[u].legs,
         NEW q \in Nat \ {0}, NEW n \in Nat \ {0}, Takes(os[u].legs[m], q),
         NEW l, l = omap_on_fill(os[u].legs[m], q, n), NEW os2, Relegged(os2, os, u, m, l)
  PROVE  /\ Filled(os2[u], os[u], m, q)
         /\ omap_notional(os2[u]) = omap_notional(os[u]) + n
         /\ omap_remaining(os2[u]) = omap_remaining(os[u]) - q
<1>1. PICK lo, lo2, k : lo = os[u] /\ lo2 = os2[u] /\ k = lo.legs[m]
  OBVIOUS
<1>2. OrderOK(lo) /\ LegOK(k)
  BY <1>1, OrderMapFacts DEF OrderOK, LegsOK
<1>3. OrderOK(lo2)
  BY <1>1, OrderMapFacts DEF Relegged
<1>4. /\ LegOK(l) /\ LegLeft(l) = LegLeft(k) - q /\ l.sent = k.sent /\ l.canceled = k.canceled
      /\ l.accepted = k.accepted /\ l.filled = k.filled + q /\ l.notional = k.notional + n
  <2>1. q \in Nat /\ Takes(k, q)
    BY <1>1
  <2> QED
    BY <1>1, <1>2, <2>1, FilledLeg
<1>5. /\ TermsOf(lo2) = TermsOf(lo) /\ lo2.qty = lo.qty /\ lo2.market = lo.market
      /\ DOMAIN lo2.legs = DOMAIN lo.legs /\ lo2.legs[m] = l
      /\ \A j \in DOMAIN lo.legs : j # m => lo2.legs[j] = lo.legs[j]
      /\ omap_filled_qty(lo2) = omap_filled_qty(lo) - k.filled + l.filled
      /\ omap_canceled_qty(lo2) = omap_canceled_qty(lo) - k.canceled + l.canceled
      /\ omap_notional(lo2) = omap_notional(lo) - k.notional + l.notional
  BY <1>1 DEF Relegged
<1>6. k.filled \in Nat /\ k.canceled \in Nat /\ k.notional \in Nat
  BY <1>2, LegTypes
<1>7. /\ omap_filled_qty(lo) \in Nat /\ omap_canceled_qty(lo) \in Nat /\ omap_notional(lo) \in Nat
      /\ omap_remaining(lo) = lo.qty - omap_filled_qty(lo) - omap_canceled_qty(lo)
      /\ omap_remaining(lo2) = lo2.qty - omap_filled_qty(lo2) - omap_canceled_qty(lo2)
      /\ lo.qty \in Nat
  BY <1>2, <1>3, OrderTotals, OrderTypes DEF OrderOK
<1>8. /\ omap_filled_qty(lo2) = omap_filled_qty(lo) + q
      /\ omap_canceled_qty(lo2) = omap_canceled_qty(lo)
      /\ omap_notional(lo2) = omap_notional(lo) + n
      /\ omap_remaining(lo2) = omap_remaining(lo) - q
  <2>1. PICK f, f2, c, c2, w, w2 : /\ f = omap_filled_qty(lo) /\ f2 = omap_filled_qty(lo2)
                                   /\ c = omap_canceled_qty(lo) /\ c2 = omap_canceled_qty(lo2)
                                   /\ w = omap_notional(lo) /\ w2 = omap_notional(lo2)
    OBVIOUS
  <2>2. f2 = f + q /\ c2 = c /\ w2 = w + n
    BY <1>4, <1>5, <1>6, <1>7, <2>1
  <2>3. omap_remaining(lo) = lo.qty - f - c /\ omap_remaining(lo2) = lo.qty - (f + q) - c
    BY <1>5, <1>7, <2>1, <2>2
  <2>4. lo.qty - (f + q) - c = lo.qty - f - c - q
    BY <1>7, <2>1
  <2> QED
    BY <2>1, <2>2, <2>3, <2>4
<1>9. ASSUME NEW j \in DOMAIN lo.legs
      PROVE  /\ lo2.legs[j].accepted = lo.legs[j].accepted
             /\ LegLeft(lo2.legs[j]) = LegLeft(lo.legs[j]) - (IF j = m THEN q ELSE 0)
  <2>1. CASE j = m
    BY <1>1, <1>4, <1>5, <2>1
  <2>2. CASE j # m
    <3>1. lo2.legs[j] = lo.legs[j]
      BY <1>5, <2>2
    <3>2. LegLeft(lo.legs[j]) \in Nat
      BY <1>2, LegTypes DEF OrderOK, LegsOK
    <3> QED
      BY <2>2, <3>1, <3>2
  <2> QED
    BY <2>1, <2>2
<1>10. m \in DOMAIN lo.legs /\ q # 0 /\ q \in Nat
  BY <1>1
<1>11. Filled(lo2, lo, m, q)
  BY <1>3, <1>5, <1>8, <1>9, <1>10 DEF Filled
<1> QED
  BY <1>1, <1>8, <1>11

-----------------------------------------------------------------------------
(* One fill.                                                                *)

LEMMA ClaimOfType ==
  ASSUME NEW lo, OrderOK(lo)
  PROVE  /\ ClaimOf(lo) \in Claim /\ ClaimOf(lo).left = omap_remaining(lo)
         /\ ClaimOf(lo).money = omap_notional(lo) /\ ClaimOf(lo).shares = omap_filled_qty(lo)
  BY OrderTotals DEF ClaimOf, Claim

LEMMA TermsType ==
  ASSUME NEW os \in OrderMaps
  PROVE  /\ Terms(os) \in [Slots -> TermsRec]
         /\ \A u : Listed(os, u) => u \in Slots /\ Terms(os)[u] = TermsOf(os[u])
<1>1. ASSUME NEW u, Listed(os, u) PROVE u \in Slots /\ TermsOf(os[u]) \in TermsRec
  BY <1>1, OrderMapFacts, OrderTypes DEF TermsOf, TermsRec
<1>2. NoTerms \in TermsRec
  BY LedgerAssumption DEF NoTerms, TermsRec, Side
<1> QED
  BY <1>1, <1>2 DEF Terms

LEMMA ClaimsType ==
  ASSUME NEW os \in OrderMaps, NEW id, NEW own, id \in Slots => own \in Claim
  PROVE  /\ Claims(os, id, own) \in [Slots -> Claim]
         /\ id \in Slots => Claims(os, id, own)[id] = own
         /\ \A u : Listed(os, u) /\ u # id => Claims(os, id, own)[u] = ClaimOf(os[u])
         /\ \A u \in Slots : ~Listed(os, u) /\ u # id => Claims(os, id, own)[u] = NoClaim
<1>1. ASSUME NEW u, Listed(os, u) PROVE u \in Slots /\ ClaimOf(os[u]) \in Claim
  BY <1>1, OrderMapFacts, ClaimOfType
<1>2. NoClaim \in Claim
  BY DEF NoClaim, Claim
<1> QED
  BY <1>1, <1>2 DEF Claims

LEMMA OwnBecomes ==
  ASSUME NEW os \in OrderMaps, NEW id \in Slots, NEW c \in Claim, NEW d \in Claim
  PROVE  Becomes(Claims(os, id, d), Claims(os, id, c), id, d)
<1>1. Claims(os, id, d) \in [Slots -> Claim] /\ Claims(os, id, d)[id] = d
  BY ClaimsType
<1>2. \A v \in Slots : v # id => Claims(os, id, d)[v] = Claims(os, id, c)[v]
  BY DEF Claims
<1> QED
  BY <1>1, <1>2 DEF Becomes

LEMMA ClaimsBecome ==
  ASSUME NEW os \in OrderMaps, NEW id, NEW own, id \in Slots => own \in Claim,
         NEW u, u # id, Listed(os, u), NEW m \in DOMAIN os[u].legs, NEW l,
         NEW os2, Relegged(os2, os, u, m, l)
  PROVE  Becomes(Claims(os2, id, own), Claims(os, id, own), u, ClaimOf(os2[u]))
<1>1. os2 \in OrderMaps /\ Listed(os2, u)
  BY DEF Relegged
<1>2. Claims(os2, id, own) \in [Slots -> Claim] /\ Claims(os2, id, own)[u] = ClaimOf(os2[u])
  BY <1>1, ClaimsType
<1>3. \A v : Listed(os2, v) <=> Listed(os, v)
  BY ReleggedElsewhere
<1>4. \A v : Listed(os, v) /\ v # u => os2[v] = os[v]
  BY DEF Relegged, Listed
<1>5. \A v \in Slots : v # u => Claims(os2, id, own)[v] = Claims(os, id, own)[v]
  BY <1>3, <1>4 DEF Claims
<1> QED
  BY <1>2, <1>5 DEF Becomes

\* The side of a trade whose order is in the map: the leg and the account of
\* order u move together, and nothing else.
MakerSide(t, s, m, u, q) ==
  /\ t \in HandlerState /\ t.book = s.book
  /\ t.refused = s.refused /\ t.filled = s.filled /\ t.canceled = s.canceled
  /\ Len(t.orders) = Len(s.orders) /\ Terms(t.orders) = Terms(s.orders)
  /\ \A v \in DOMAIN s.orders : v # u => t.orders[v] = s.orders[v]
  /\ Filled(t.orders[u], s.orders[u], m, q)

LEMMA MakerEvent ==
  ASSUME NEW s \in HandlerState, NEW u, Listed(s.orders, u), NEW m \in DOMAIN s.orders[u].legs,
         NEW p \in Nat \ {0}, NEW q \in Nat \ {0}, q <= LegLeft(s.orders[u].legs[m]),
         NEW id, id # u, NEW t, t = on_event(s, m, u, p, q, id)
  PROVE  /\ MakerSide(t, s, m, u, q)
         /\ \A own, base :
              /\ base \in Base /\ (id \in Slots => own \in Claim)
              /\ Posted(s.acct, Terms(s.orders), Claims(s.orders, id, own), base)
              /\ s.orders[u].side = "buy" => p <= s.orders[u].limit
              => /\ t.failed = s.failed
                 /\ Posted(t.acct, Terms(s.orders), Claims(t.orders, id, own), base)
<1>1. PICK os, lo, n : os = s.orders /\ lo = os[u] /\ n = p * q
  OBVIOUS
<1>2. os \in OrderMaps /\ Listed(os, u) /\ OrderOK(lo) /\ u \in Nat \ {0} /\ u \in Slots /\ m \in DOMAIN os[u].legs
  BY <1>1, StateFields, OrderMapFacts
<1>3. n \in Nat \ {0}
  BY <1>1, SMTT(20)
<1>4. Takes(os[u].legs[m], q)
  BY <1>1 DEF Takes
<1>5. PICK r : r = LegFill(s, u, m, q, n)
  OBVIOUS
<1>6. PICK l : /\ LegOK(l) /\ l = omap_on_fill(os[u].legs[m], q, n)
               /\ OnlyOrders(r, s) /\ Relegged(r.orders, os, u, m, l)
  BY <1>1, <1>2, <1>3, <1>4, <1>5, LegFillIs
<1>7. PICK os2 : os2 = r.orders
  OBVIOUS
<1>8. /\ Filled(os2[u], os[u], m, q)
      /\ omap_notional(os2[u]) = omap_notional(os[u]) + n
      /\ omap_remaining(os2[u]) = omap_remaining(os[u]) - q
  BY <1>2, <1>3, <1>4, <1>6, <1>7, FillFills
<1>9. os2 \in OrderMaps /\ Listed(os2, u) /\ Len(os2) = Len(os) /\ \A v \in DOMAIN os : v # u => os2[v] = os[v]
  BY <1>6, <1>7 DEF Relegged
<1>10. Terms(os2) = Terms(os)
  BY <1>2, <1>6, <1>7, ReleggedElsewhere
<1>11. t = settle_fill(r, u, p, q)
  <2>1. IsUser(u)
    BY <1>2 DEF IsUser
  <2> QED
    BY <1>1, <1>5, <2>1 DEF on_event
<1>12. r \in HandlerState
  BY <1>6 DEF OnlyOrders
<1>13. OnlyAcct(t, r)
  BY <1>7, <1>9, <1>11, <1>12, SettleFrame
<1>14. MakerSide(t, s, m, u, q)
  BY <1>1, <1>6, <1>7, <1>8, <1>9, <1>10, <1>13 DEF MakerSide, OnlyAcct, OnlyOrders
<1>15. ASSUME NEW own, NEW base, base \in Base, id \in Slots => own \in Claim,
              Posted(s.acct, Terms(s.orders), Claims(s.orders, id, own), base),
              s.orders[u].side = "buy" => p <= s.orders[u].limit
       PROVE  /\ t.failed = s.failed
              /\ Posted(t.acct, Terms(s.orders), Claims(t.orders, id, own), base)
  <2>1. PICK K, C, D : K = Terms(os) /\ C = Claims(os, id, own) /\ D = Claims(os2, id, own)
    OBVIOUS
  <2>2. K \in [Slots -> TermsRec] /\ K[u] = TermsOf(os[u]) /\ K[u] = TermsOf(os2[u])
    BY <1>2, <1>9, <1>10, <2>1, TermsType
  <2>3. C \in [Slots -> Claim] /\ C[u] = ClaimOf(os[u])
    BY <1>2, <1>15, <2>1, ClaimsType
  <2>4. Becomes(D, C, u, ClaimOf(os2[u]))
    BY <1>2, <1>6, <1>7, <1>15, <2>1, ClaimsBecome
  <2>5. ClaimOf(os2[u]) = Spent(C[u], p, q) /\ q <= C[u].left
    <3>1. ClaimOf(os[u]) \in Claim /\ ClaimOf(os[u]).left = omap_remaining(os[u])
          /\ ClaimOf(os[u]).money = omap_notional(os[u]) /\ ClaimOf(os[u]).shares = omap_filled_qty(os[u])
      BY <1>1, <1>2, ClaimOfType
    <3>2. omap_filled_qty(os2[u]) = omap_filled_qty(os[u]) + q
      BY <1>8 DEF Filled
    <3>3. ClaimOf(os2[u]) = Spent(C[u], p, q)
      BY <1>1, <1>8, <2>3, <3>1, <3>2 DEF ClaimOf, Spent
    <3>4. LegLeft(lo.legs[m]) <= omap_remaining(lo) /\ LegLeft(lo.legs[m]) \in Nat /\ omap_remaining(lo) \in Nat
      BY <1>1, <1>2, OrderTotals, LegTypes DEF OrderOK, LegsOK
    <3>5. q <= C[u].left
      BY <1>1, <2>3, <3>1, <3>4
    <3> QED
      BY <3>3, <3>5
  <2>6. Posted(r.acct, K, C, base) /\ r.failed = s.failed
    BY <1>1, <1>6, <1>15, <2>1 DEF OnlyOrders
  <2>7. K[u].side = "buy" => p <= K[u].limit
    BY <1>1, <1>15, <2>2 DEF TermsOf
  <2>8. Listed(r.orders, u) /\ K[u] = TermsOf(r.orders[u]) /\ Becomes(D, C, u, Spent(C[u], p, q))
    BY <1>7, <1>9, <2>2, <2>4, <2>5
  <2>9. t.failed = r.failed /\ Posted(t.acct, K, D, base)
    <3>1. base \in Base
      BY <1>15
    <3>2. MaySettle(r, u, p, q, K, C, base)
      BY <1>12, <2>2, <2>3, <2>5, <2>6, <2>7, <2>8, <3>1 DEF MaySettle
    <3>3. Becomes(D, C, u, Spent(C[u], p, q))
      BY <2>8
    <3> QED
      BY <1>11, <3>2, <3>3, SettlePosted, ZenonT(60)
  <2>10. t.orders = os2
    BY <1>7, <1>13 DEF OnlyAcct
  <2> QED
    BY <1>1, <2>1, <2>6, <2>9, <2>10
<1> QED
  BY <1>14, <1>15

\* The side of a trade whose order is being submitted: only its account moves.
LEMMA TakerEvent ==
  ASSUME NEW s \in HandlerState, NEW id, Listed(s.orders, id), NEW m,
         NEW p \in Nat \ {0}, NEW q \in Nat \ {0}, NEW t, t = on_event(s, m, id, p, q, id)
  PROVE  /\ OnlyAcct(t, s)
         /\ \A own, base :
              /\ base \in Base /\ own \in Claim /\ q <= own.left
              /\ Posted(s.acct, Terms(s.orders), Claims(s.orders, id, own), base)
              /\ s.orders[id].side = "buy" => p <= s.orders[id].limit
              => /\ t.failed = s.failed
                 /\ Posted(t.acct, Terms(s.orders), Claims(s.orders, id, Spent(own, p, q)), base)
<1>1. PICK os : os = s.orders
  OBVIOUS
<1>2. os \in OrderMaps /\ Listed(os, id) /\ id \in Nat \ {0} /\ id \in Slots
  BY <1>1, StateFields, OrderMapFacts
<1>3. t = settle_fill(s, id, p, q)
  BY <1>2 DEF on_event, IsUser
<1>4. OnlyAcct(t, s)
  BY <1>3, SettleFrame
<1>5. ASSUME NEW own, NEW base, base \in Base, own \in Claim, q <= own.left,
             Posted(s.acct, Terms(s.orders), Claims(s.orders, id, own), base),
             s.orders[id].side = "buy" => p <= s.orders[id].limit
      PROVE  /\ t.failed = s.failed
             /\ Posted(t.acct, Terms(s.orders), Claims(s.orders, id, Spent(own, p, q)), base)
  <2>1. PICK K, C, D, e : /\ K = Terms(os) /\ C = Claims(os, id, own) /\ e = Spent(own, p, q)
                          /\ D = Claims(os, id, e)
    OBVIOUS
  <2>2. K \in [Slots -> TermsRec] /\ K[id] = TermsOf(os[id])
    BY <1>2, <2>1, TermsType
  <2>3. C \in [Slots -> Claim] /\ C[id] = own
    BY <1>2, <1>5, <2>1, ClaimsType
  <2>4. e \in Claim
    BY <1>5, <2>1, SpentIs
  <2>5. Becomes(D, C, id, Spent(C[id], p, q))
    BY <1>2, <1>5, <2>1, <2>3, <2>4, OwnBecomes
  <2>6. K[id].side = "buy" => p <= K[id].limit
    BY <1>1, <1>5, <2>2 DEF TermsOf
  <2>7. K[id] = TermsOf(s.orders[id]) /\ Posted(s.acct, K, C, base) /\ q <= C[id].left
    BY <1>1, <1>5, <2>1, <2>2, <2>3
  <2>8. t.failed = s.failed /\ Posted(t.acct, K, D, base)
    <3>1. base \in Base
      BY <1>5
    <3>2. MaySettle(s, id, p, q, K, C, base)
      BY <1>1, <1>2, <2>2, <2>3, <2>6, <2>7, <3>1 DEF MaySettle
    <3> QED
      BY <1>3, <2>5, <3>2, SettlePosted, SMTT(30)
  <2> QED
    BY <1>1, <2>1, <2>8
<1> QED
  BY <1>4, <1>5

-----------------------------------------------------------------------------
(* The trades of an order.                                                  *)

Moneys(fills) == [k \in DOMAIN fills |-> fills[k].price * fills[k].qty]

LEMMA FillTypes ==
  ASSUME NEW fills \in Seq(Fill), NEW k \in DOMAIN fills
  PROVE  /\ fills[k] \in Fill /\ fills[k].maker \in Int /\ fills[k].price \in Nat \ {0}
         /\ fills[k].price \in Price /\ fills[k].qty \in Nat \ {0}
         /\ fills[k].price * fills[k].qty \in Nat \ {0}
<1>1. PICK f : f = fills[k]
  OBVIOUS
<1>2. f \in Fill
  BY <1>1
<1>3. f.maker \in Int /\ f.price \in Price /\ f.qty \in Nat \ {0}
  BY <1>2 DEF Fill
<1>4. f.price \in Nat \ {0}
  BY <1>3, MaxPriceAssumption DEF Price
<1>5. f.price * f.qty \in Nat \ {0}
  BY <1>3, <1>4, SMTT(20)
<1> QED
  BY <1>1, <1>2, <1>3, <1>4, <1>5

\* What the fills so far come to, with one fill more.
LEMMA OneMore ==
  ASSUME NEW fills \in Seq(Fill), NEW J \in SUBSET (DOMAIN fills), NEW k \in J
  PROVE  /\ \A u : /\ Part(Got(fills, u), J \ {k}) \in Nat /\ Part(Got(fills, u), J) \in Nat
                   /\ Part(Got(fills, u), J) =
                        Part(Got(fills, u), J \ {k}) + (IF fills[k].maker = u THEN fills[k].qty ELSE 0)
                   /\ Part(Got(fills, u), J) <= Sum(Got(fills, u))
         /\ Part(Qtys(fills), J \ {k}) \in Nat /\ Part(Qtys(fills), J) \in Nat
         /\ Part(Qtys(fills), J) = Part(Qtys(fills), J \ {k}) + fills[k].qty
         /\ Part(Qtys(fills), J) <= Sum(Qtys(fills))
         /\ Part(Moneys(fills), J \ {k}) \in Nat /\ Part(Moneys(fills), J) \in Nat
         /\ Part(Moneys(fills), J) = Part(Moneys(fills), J \ {k}) + fills[k].price * fills[k].qty
<1>1. PICK S, J2 : S = DOMAIN fills /\ J2 = J \ {k}
  OBVIOUS
<1>2. IsFiniteSet(S) /\ J \in SUBSET S /\ J2 \in SUBSET S /\ k \in S
  BY <1>1, IndicesFinite
<1>3. IsFiniteSet(J)
  BY <1>2, FS_Subset
<1>4. ASSUME NEW f, \A x \in S : f[x] \in Nat
      PROVE  /\ Part(f, J2) \in Nat /\ Part(f, J) \in Nat /\ Part(f, J) = Part(f, J2) + f[k]
             /\ Part(f, J) <= Part(f, S)
  <2>1. \A x \in J : f[x] \in Int
    BY <1>2, <1>4
  <2>2. Part(f, J) = f[k] + Part(f, J2)
    BY <1>1, <1>3, <2>1, PartSplit
  <2>3. Part(f, J2) \in Nat /\ Part(f, J) \in Nat /\ Part(f, J) <= Part(f, S)
    BY <1>2, <1>4, PartAtMost
  <2>4. f[k] \in Nat
    BY <1>2, <1>4
  <2> QED
    BY <2>2, <2>3, <2>4
<1>5. ASSUME NEW u
      PROVE  /\ Part(Got(fills, u), J2) \in Nat /\ Part(Got(fills, u), J) \in Nat
             /\ Part(Got(fills, u), J) =
                  Part(Got(fills, u), J2) + (IF fills[k].maker = u THEN fills[k].qty ELSE 0)
             /\ Part(Got(fills, u), J) <= Sum(Got(fills, u))
  <2>1. PICK f : f = Got(fills, u)
    OBVIOUS
  <2>2. \A x \in S : f[x] \in Nat
    BY <1>1, <2>1, FillTypes DEF Got
  <2>3. f[k] = IF fills[k].maker = u THEN fills[k].qty ELSE 0
    BY <1>1, <1>2, <2>1 DEF Got
  <2>4. Sum(f) = Part(f, S)
    BY <1>1, <2>1, SumsOfFills
  <2> QED
    BY <1>4, <2>1, <2>2, <2>3, <2>4
<1>6. /\ Part(Qtys(fills), J2) \in Nat /\ Part(Qtys(fills), J) \in Nat
      /\ Part(Qtys(fills), J) = Part(Qtys(fills), J2) + fills[k].qty
      /\ Part(Qtys(fills), J) <= Sum(Qtys(fills))
  <2>1. PICK f : f = Qtys(fills)
    OBVIOUS
  <2>2. \A x \in S : f[x] \in Nat
    BY <1>1, <2>1, FillTypes DEF Qtys
  <2>3. f[k] = fills[k].qty
    BY <1>1, <1>2, <2>1 DEF Qtys
  <2>4. Sum(f) = Part(f, S)
    BY <1>1, <2>1, SumsOfFills
  <2> QED
    BY <1>4, <2>1, <2>2, <2>3, <2>4
<1>7. /\ Part(Moneys(fills), J2) \in Nat /\ Part(Moneys(fills), J) \in Nat
      /\ Part(Moneys(fills), J) = Part(Moneys(fills), J2) + fills[k].price * fills[k].qty
  <2>1. PICK f : f = Moneys(fills)
    OBVIOUS
  <2>2. \A x \in S : f[x] \in Nat
    BY <1>1, <2>1, FillTypes DEF Moneys
  <2>3. f[k] = fills[k].price * fills[k].qty
    BY <1>1, <1>2, <2>1 DEF Moneys
  <2> QED
    BY <1>4, <2>1, <2>2, <2>3
<1> QED
  BY <1>1, <1>5, <1>6, <1>7

\* The orders of the map are as in os but for the fills in J, each booked in its
\* maker's leg; order id is left as it is.
Served(os2, os, m, fills, J, id) ==
  /\ Len(os2) = Len(os)
  /\ \A u \in DOMAIN os :
       IF u # id /\ IsOrder(os[u]) THEN Filled(os2[u], os[u], m, Part(Got(fills, u), J))
                                   ELSE os2[u] = os[u]

\* Each maker has that much less left in m.
LeftLess(os2, os, m, fills, J, id) ==
  \A u : u # id /\ Listed(os, u) => LeftOf(os2, u, m) = LeftOf(os, u, m) - Part(Got(fills, u), J)

\* Whatever is not a maker's in m is left as it was.
LeftSame(os2, os, m, id) ==
  \A u, k : k # m \/ u = id \/ ~Listed(os, u) => LeftOf(os2, u, k) = LeftOf(os, u, k)

LEMMA ServedFacts ==
  ASSUME NEW os \in OrderMaps, NEW os2 \in OrderMaps, NEW m, NEW fills \in Seq(Fill),
         NEW J \in SUBSET (DOMAIN fills), NEW id, Served(os2, os, m, fills, J, id)
  PROVE  /\ DOMAIN os2 = DOMAIN os /\ Terms(os2) = Terms(os)
         /\ \A u : Listed(os2, u) <=> Listed(os, u)
         /\ \A u : Listed(os, u) => DOMAIN os2[u].legs = DOMAIN os[u].legs
         /\ LeftLess(os2, os, m, fills, J, id) /\ LeftSame(os2, os, m, id)
<1>1. DOMAIN os = 1..Len(os) /\ DOMAIN os2 = 1..Len(os2) /\ Len(os2) = Len(os)
  BY OrderMapFacts DEF Served
<1>2. DOMAIN os2 = DOMAIN os
  BY <1>1
<1>3. ASSUME NEW u, Listed(os, u), u # id
      PROVE  Listed(os2, u) /\ Filled(os2[u], os[u], m, Part(Got(fills, u), J))
  <2>1. Filled(os2[u], os[u], m, Part(Got(fills, u), J))
    BY <1>3 DEF Served, Listed
  <2>2. IsOrder(os2[u])
    BY <2>1, OrdersAreOrders DEF Filled, OrderOK
  <2> QED
    BY <1>2, <1>3, <2>1, <2>2 DEF Listed
<1>4. ASSUME NEW u \in DOMAIN os, u = id \/ ~Listed(os, u) PROVE os2[u] = os[u]
  BY <1>4 DEF Served, Listed
<1>5. ASSUME NEW u PROVE Listed(os2, u) <=> Listed(os, u)
  BY <1>2, <1>3, <1>4 DEF Listed
<1>6. ASSUME NEW u, Listed(os, u)
      PROVE  TermsOf(os2[u]) = TermsOf(os[u]) /\ DOMAIN os2[u].legs = DOMAIN os[u].legs
  <2>1. CASE u = id
    BY <1>4, <1>6, <2>1 DEF Listed
  <2>2. CASE u # id
    BY <1>3, <1>6, <2>2 DEF Filled
  <2> QED
    BY <2>1, <2>2
<1>7. Terms(os2) = Terms(os)
  BY <1>5, <1>6, Zenon DEF Terms
<1>8. ASSUME NEW u, u # id, Listed(os, u)
      PROVE  LeftOf(os2, u, m) = LeftOf(os, u, m) - Part(Got(fills, u), J)
  <2>1. Filled(os2[u], os[u], m, Part(Got(fills, u), J)) /\ Listed(os2, u)
    BY <1>3, <1>8
  <2>2. CASE m \in DOMAIN os[u].legs
    <3>1. LegLeft(os2[u].legs[m]) = LegLeft(os[u].legs[m]) - Part(Got(fills, u), J)
      BY <2>1, <2>2 DEF Filled
    <3>2. m \in DOMAIN os2[u].legs
      BY <1>6, <1>8, <2>2
    <3> QED
      BY <1>8, <2>1, <2>2, <3>1, <3>2 DEF LeftOf
  <2>3. CASE m \notin DOMAIN os[u].legs
    <3>1. Part(Got(fills, u), J) = 0 /\ m \notin DOMAIN os2[u].legs
      BY <2>1, <2>3 DEF Filled
    <3>2. LeftOf(os2, u, m) = 0 /\ LeftOf(os, u, m) = 0
      BY <2>3, <3>1 DEF LeftOf
    <3> QED
      BY <3>1, <3>2
  <2> QED
    BY <2>2, <2>3
<1>9. ASSUME NEW u, NEW k, k # m \/ u = id \/ ~Listed(os, u)
      PROVE  LeftOf(os2, u, k) = LeftOf(os, u, k)
  <2>1. CASE ~Listed(os, u)
    BY <1>5, <2>1 DEF LeftOf
  <2>2. CASE Listed(os, u) /\ u = id
    BY <1>4, <1>5, <2>2 DEF LeftOf, Listed
  <2>3. CASE Listed(os, u) /\ u # id /\ k # m
    <3>1. Filled(os2[u], os[u], m, Part(Got(fills, u), J)) /\ Listed(os2, u)
      BY <1>3, <2>3
    <3>2. DOMAIN os2[u].legs = DOMAIN os[u].legs
      BY <1>6, <2>3
    <3>3. CASE k \in DOMAIN os[u].legs
      <4>1. LegLeft(os2[u].legs[k]) = LegLeft(os[u].legs[k]) - 0
        BY <2>3, <3>1, <3>3 DEF Filled
      <4>2. LegLeft(os[u].legs[k]) \in Nat
        BY <2>3, <3>3, OrderMapFacts, LegTypes DEF OrderOK, LegsOK
      <4> QED
        BY <2>3, <3>1, <3>2, <3>3, <4>1, <4>2 DEF LeftOf
    <3>4. CASE k \notin DOMAIN os[u].legs
      BY <3>2, <3>4 DEF LeftOf
    <3> QED
      BY <3>3, <3>4
  <2> QED
    BY <1>9, <2>1, <2>2, <2>3
<1>10. LeftLess(os2, os, m, fills, J, id)
  BY <1>8 DEF LeftLess
<1>11. LeftSame(os2, os, m, id)
  BY <1>9 DEF LeftSame
<1> QED
  BY <1>2, <1>5, <1>6, <1>7, <1>10, <1>11

TradesMade(t, s, m, fills, J, id) ==
  /\ t \in HandlerState /\ t.book = s.book
  /\ t.refused = s.refused /\ t.filled = s.filled /\ t.canceled = s.canceled
  /\ Served(t.orders, s.orders, m, fills, J, id)

\* The fills an engine may report to a handler in state s: each maker that is a
\* user's works here, at its limit, for what it is filled; the taker, if it is a
\* user's, is in the map, and gets no price beyond its limit.
MayTrade(s, m, fills, id) ==
  /\ s \in HandlerState /\ fills \in Seq(Fill) /\ id \in Int
  /\ \A k \in DOMAIN fills : fills[k].maker > 0 =>
       /\ fills[k].maker # id /\ Listed(s.orders, fills[k].maker)
       /\ m \in DOMAIN s.orders[fills[k].maker].legs
       /\ fills[k].price = s.orders[fills[k].maker].limit
  /\ \A u \in Nat \ {0} : u # id => Sum(Got(fills, u)) <= LeftOf(s.orders, u, m)
  /\ id > 0 => /\ Listed(s.orders, id)
               /\ \A k \in DOMAIN fills :
                    Crosses(s.orders[id].side, s.orders[id].limit, fills[k].price)

\* The claim of the order being submitted after the fills in J.
After(own, fills, J) ==
  [left |-> own.left - Part(Qtys(fills), J), money |-> own.money + Part(Moneys(fills), J),
   shares |-> own.shares + Part(Qtys(fills), J)]

MayPay(s, fills, id, own, base) ==
  /\ base \in Base
  /\ id \in Slots => own \in Claim /\ Sum(Qtys(fills)) <= own.left
  /\ Posted(s.acct, Terms(s.orders), Claims(s.orders, id, own), base)

\* The accounts agree with the map, and with what the taker has become.
Paid(t, s, id, own, base) ==
  t.failed = s.failed /\ Posted(t.acct, Terms(s.orders), Claims(t.orders, id, own), base)

LEMMA AfterType ==
  ASSUME NEW fills \in Seq(Fill), NEW J \in SUBSET (DOMAIN fills), NEW k \in J,
         NEW own \in Claim, Sum(Qtys(fills)) <= own.left
  PROVE  /\ After(own, fills, J \ {k}) \in Claim /\ fills[k].qty <= After(own, fills, J \ {k}).left
         /\ After(own, fills, J) = Spent(After(own, fills, J \ {k}), fills[k].price, fills[k].qty)
<1>1. PICK q, w, x, x2, y, y2 :
        /\ q = fills[k].qty /\ w = fills[k].price * fills[k].qty
        /\ x = Part(Qtys(fills), J) /\ x2 = Part(Qtys(fills), J \ {k})
        /\ y = Part(Moneys(fills), J) /\ y2 = Part(Moneys(fills), J \ {k})
  OBVIOUS
<1>2. k \in DOMAIN fills
  OBVIOUS
<1>3. q \in Nat \ {0} /\ w \in Nat
  BY <1>1, <1>2, FillTypes
<1>4. x \in Nat /\ x2 \in Nat /\ y \in Nat /\ y2 \in Nat /\ x = x2 + q /\ y = y2 + w /\ x <= Sum(Qtys(fills))
  BY <1>1, OneMore
<1>5. own.left \in Nat /\ own.money \in Nat /\ own.shares \in Nat /\ Sum(Qtys(fills)) \in Nat
  BY ClaimTypes, SumsOfFills
<1>6. own.left - x2 \in Nat /\ own.money + y2 \in Nat /\ own.shares + x2 \in Nat /\ q <= own.left - x2
  <2>1. PICK a, b, c, n : a = own.left /\ b = own.money /\ c = own.shares /\ n = Sum(Qtys(fills))
    OBVIOUS
  <2>2. a \in Nat /\ b \in Nat /\ c \in Nat /\ n \in Nat /\ n <= a
    BY <1>5, <2>1
  <2>3. x \in Nat /\ x2 \in Nat /\ y2 \in Nat /\ x = x2 + q /\ x <= n
    BY <1>4, <2>1
  <2>4. a - x2 \in Nat /\ b + y2 \in Nat /\ c + x2 \in Nat /\ q <= a - x2
    BY <1>3, <2>2, <2>3
  <2> QED
    BY <2>1, <2>4
<1>7. After(own, fills, J \ {k}) = [left |-> own.left - x2, money |-> own.money + y2, shares |-> own.shares + x2]
  BY <1>1 DEF After
<1>8. After(own, fills, J \ {k}) \in Claim /\ q <= After(own, fills, J \ {k}).left
  BY <1>6, <1>7 DEF Claim
<1>9. After(own, fills, J) = [left |-> own.left - x, money |-> own.money + y, shares |-> own.shares + x]
  BY <1>1 DEF After
<1>10. own.left - x = (own.left - x2) - q /\ own.money + y = (own.money + y2) + w
       /\ own.shares + x = (own.shares + x2) + q
  <2>1. PICK a, b, c : a = own.left /\ b = own.money /\ c = own.shares
    OBVIOUS
  <2>2. a \in Nat /\ b \in Nat /\ c \in Nat
    BY <1>5, <2>1
  <2>3. a - (x2 + q) = (a - x2) - q /\ b + (y2 + w) = (b + y2) + w /\ c + (x2 + q) = (c + x2) + q
    BY <1>3, <1>4, <2>2
  <2> QED
    BY <1>4, <2>1, <2>3
<1>11. After(own, fills, J) = Spent(After(own, fills, J \ {k}), fills[k].price, fills[k].qty)
  <2>1. PICK a : a = After(own, fills, J \ {k})
    OBVIOUS
  <2>2. a.left = own.left - x2 /\ a.money = own.money + y2 /\ a.shares = own.shares + x2
    BY <1>7, <2>1
  <2>3. Spent(a, fills[k].price, fills[k].qty) = [left |-> a.left - q, money |-> a.money + w, shares |-> a.shares + q]
    BY <1>1 DEF Spent
  <2> QED
    BY <1>9, <1>10, <2>1, <2>2, <2>3
<1> QED
  BY <1>1, <1>8, <1>11

LEMMA MakerTrade ==
  ASSUME NEW s, NEW m, NEW fills, NEW id, MayTrade(s, m, fills, id),
         NEW J \in SUBSET (DOMAIN fills), NEW k \in J, NEW t, TradesMade(t, s, m, fills, J \ {k}, id),
         NEW r, r = on_event(t, m, fills[k].maker, fills[k].price, fills[k].qty, id)
  PROVE  /\ TradesMade(r, s, m, fills, J, id)
         /\ \A own, base : base \in Base /\ (id \in Slots => own \in Claim) /\ Paid(t, s, id, own, base)
                           => Paid(r, s, id, own, base)
<1>1. PICK u, p, q, os, ot : /\ u = fills[k].maker /\ p = fills[k].price /\ q = fills[k].qty
                             /\ os = s.orders /\ ot = t.orders
  OBVIOUS
<1>2. /\ s \in HandlerState /\ fills \in Seq(Fill) /\ k \in DOMAIN fills /\ t \in HandlerState
      /\ os \in OrderMaps /\ ot \in OrderMaps
  BY <1>1, StateFields DEF MayTrade, TradesMade
<1>3. u \in Int /\ p \in Nat \ {0} /\ q \in Nat \ {0}
  BY <1>1, <1>2, FillTypes
<1>4. Served(ot, os, m, fills, J \ {k}, id) /\ J \ {k} \in SUBSET (DOMAIN fills)
  BY <1>1 DEF TradesMade
<1>5. /\ DOMAIN ot = DOMAIN os /\ Terms(ot) = Terms(os)
      /\ \A v : Listed(ot, v) <=> Listed(os, v)
      /\ \A v : Listed(os, v) => DOMAIN ot[v].legs = DOMAIN os[v].legs
      /\ \A v : v # id /\ Listed(os, v) => LeftOf(ot, v, m) = LeftOf(os, v, m) - Part(Got(fills, v), J \ {k})
  <2>1. PICK J2 : J2 = J \ {k}
    OBVIOUS
  <2>2. J2 \in SUBSET (DOMAIN fills) /\ Served(ot, os, m, fills, J2, id)
    BY <1>4, <2>1
  <2>3. /\ DOMAIN ot = DOMAIN os /\ Terms(ot) = Terms(os)
        /\ \A v : Listed(ot, v) <=> Listed(os, v)
        /\ \A v : Listed(os, v) => DOMAIN ot[v].legs = DOMAIN os[v].legs
        /\ \A v : v # id /\ Listed(os, v) => LeftOf(ot, v, m) = LeftOf(os, v, m) - Part(Got(fills, v), J2)
    <3>1. os \in OrderMaps /\ ot \in OrderMaps /\ fills \in Seq(Fill)
      BY <1>2
    <3>2. DOMAIN ot = DOMAIN os /\ Terms(ot) = Terms(os)
      BY <3>1, <2>2, ServedFacts
    <3>3. \A v : Listed(ot, v) <=> Listed(os, v)
      BY <3>1, <2>2, ServedFacts
    <3>4. \A v : Listed(os, v) => DOMAIN ot[v].legs = DOMAIN os[v].legs
      BY <3>1, <2>2, ServedFacts
    <3>5. LeftLess(ot, os, m, fills, J2, id)
      BY <3>1, <2>2, ServedFacts
    <3> QED
      BY <3>2, <3>3, <3>4, <3>5 DEF LeftLess
  <2> QED
    BY <2>1, <2>3
<1>6. \A v : /\ Part(Got(fills, v), J \ {k}) \in Nat
             /\ Part(Got(fills, v), J) = Part(Got(fills, v), J \ {k}) + (IF u = v THEN q ELSE 0)
             /\ Part(Got(fills, v), J) <= Sum(Got(fills, v))
  <2>1. \A v : /\ Part(Got(fills, v), J \ {k}) \in Nat /\ Part(Got(fills, v), J) \in Nat
               /\ Part(Got(fills, v), J) =
                    Part(Got(fills, v), J \ {k}) + (IF fills[k].maker = v THEN fills[k].qty ELSE 0)
               /\ Part(Got(fills, v), J) <= Sum(Got(fills, v))
    BY <1>2, OneMore
  <2> QED
    BY <1>1, <2>1
<1>7. ASSUME NEW v, v # u PROVE Part(Got(fills, v), J) = Part(Got(fills, v), J \ {k})
  BY <1>6, <1>7
<1>8. CASE ~(u > 0)
  <2>1. r = t
    BY <1>1, <1>8 DEF on_event, IsUser
  <2>2. Served(ot, os, m, fills, J, id)
    <3>1. \A v \in DOMAIN os : v > 0
      BY <1>2, OrderMapFacts
    <3>2. \A v \in DOMAIN os : Part(Got(fills, v), J) = Part(Got(fills, v), J \ {k})
      BY <1>7, <1>8, <3>1
    <3> QED
      BY <1>4, <3>2 DEF Served
  <2> QED
    BY <1>1, <2>1, <2>2 DEF TradesMade
<1>9. CASE u > 0
  <2>1. u # id /\ Listed(os, u) /\ m \in DOMAIN os[u].legs /\ p = os[u].limit /\ Sum(Got(fills, u)) <= LeftOf(os, u, m)
    BY <1>1, <1>2, <1>3, <1>9 DEF MayTrade
  <2>2. Listed(ot, u) /\ m \in DOMAIN ot[u].legs
    BY <1>5, <2>1
  <2>3. q <= LegLeft(ot[u].legs[m])
    <3>1. PICK x, x2, l, l2, g : /\ x = Part(Got(fills, u), J) /\ x2 = Part(Got(fills, u), J \ {k})
                                 /\ l = LeftOf(os, u, m) /\ l2 = LeftOf(ot, u, m) /\ g = Sum(Got(fills, u))
      OBVIOUS
    <3>2. x2 \in Nat /\ x = x2 + q /\ x <= g /\ g <= l /\ l2 = l - x2
      BY <1>5, <1>6, <2>1, <3>1
    <3>3. l \in Nat /\ g \in Nat
      BY <1>2, <3>1, LeftOfType, SumsOfFills
    <3>4. q <= l2
      BY <1>3, <3>2, <3>3
    <3> QED
      BY <2>2, <3>1, <3>4 DEF LeftOf
  <2>4. /\ MakerSide(r, t, m, u, q)
        /\ \A own, base :
             /\ base \in Base /\ (id \in Slots => own \in Claim)
             /\ Posted(t.acct, Terms(t.orders), Claims(t.orders, id, own), base)
             /\ t.orders[u].side = "buy" => p <= t.orders[u].limit
             => /\ r.failed = t.failed
                /\ Posted(r.acct, Terms(t.orders), Claims(r.orders, id, own), base)
    <3>1. Listed(t.orders, u) /\ m \in DOMAIN t.orders[u].legs /\ q <= LegLeft(t.orders[u].legs[m])
      BY <1>1, <2>2, <2>3
    <3>2. r = on_event(t, m, u, p, q, id)
      BY <1>1
    <3> QED
      BY <1>2, <1>3, <2>1, <3>1, <3>2, MakerEvent, SMTT(30)
  <2>5. /\ r \in HandlerState /\ r.book = t.book
        /\ r.refused = t.refused /\ r.filled = t.filled /\ r.canceled = t.canceled
        /\ Len(r.orders) = Len(ot) /\ \A v \in DOMAIN ot : v # u => r.orders[v] = ot[v]
        /\ Filled(r.orders[u], ot[u], m, q)
    BY <1>1, <2>4 DEF MakerSide
  <2>6. Served(r.orders, os, m, fills, J, id)
    <3>1. ASSUME NEW v \in DOMAIN os
          PROVE  IF v # id /\ IsOrder(os[v]) THEN Filled(r.orders[v], os[v], m, Part(Got(fills, v), J))
                                            ELSE r.orders[v] = os[v]
      <4>1. CASE v = u
        <5>1. Filled(ot[u], os[u], m, Part(Got(fills, u), J \ {k}))
          BY <1>4, <2>1 DEF Served, Listed
        <5>2. OrderOK(os[u])
          BY <1>2, <2>1, OrderMapFacts
        <5>3. Filled(r.orders[u], os[u], m, Part(Got(fills, u), J \ {k}) + q)
          BY <2>5, <5>1, <5>2, FilledMore
        <5>4. Part(Got(fills, u), J) = Part(Got(fills, u), J \ {k}) + q
          BY <1>6
        <5>5. Filled(r.orders[u], os[u], m, Part(Got(fills, u), J))
          BY <5>3, <5>4
        <5> QED
          BY <2>1, <4>1, <5>5 DEF Listed
      <4>2. CASE v # u
        <5>1. r.orders[v] = ot[v] /\ Part(Got(fills, v), J) = Part(Got(fills, v), J \ {k})
          BY <1>5, <1>7, <2>5, <4>2
        <5> QED
          BY <1>4, <5>1 DEF Served
      <4> QED
        BY <4>1, <4>2
    <3>2. Len(r.orders) = Len(os)
      BY <1>4, <2>5 DEF Served
    <3> QED
      BY <3>1, <3>2 DEF Served
  <2>7. TradesMade(r, s, m, fills, J, id)
    BY <1>1, <2>5, <2>6 DEF TradesMade
  <2>8. ASSUME NEW own, NEW base, base \in Base, id \in Slots => own \in Claim, Paid(t, s, id, own, base)
        PROVE  Paid(r, s, id, own, base)
    <3>1. t.orders[u].limit = p
      <4>1. TermsOf(ot[u]) = TermsOf(os[u])
        <5>1. Terms(ot)[u] = TermsOf(ot[u]) /\ Terms(os)[u] = TermsOf(os[u])
          BY <1>2, <2>1, <2>2, TermsType
        <5> QED
          BY <1>5, <5>1
      <4> QED
        BY <1>1, <2>1, <4>1 DEF TermsOf
    <3>2. p <= t.orders[u].limit
      BY <1>3, <3>1
    <3>3. Posted(t.acct, Terms(t.orders), Claims(t.orders, id, own), base) /\ t.failed = s.failed
      BY <1>1, <1>5, <2>8 DEF Paid
    <3>4. r.failed = t.failed /\ Posted(r.acct, Terms(t.orders), Claims(r.orders, id, own), base)
      BY <2>4, <2>8, <3>2, <3>3
    <3> QED
      BY <1>1, <1>5, <3>3, <3>4 DEF Paid
  <2> QED
    BY <2>7, <2>8
<1> QED
  BY <1>3, <1>8, <1>9

LEMMA TakerTrade ==
  ASSUME NEW s, NEW m, NEW fills, NEW id, MayTrade(s, m, fills, id),
         NEW J \in SUBSET (DOMAIN fills), NEW k \in J, NEW t, TradesMade(t, s, m, fills, J, id),
         NEW r, r = on_event(t, m, id, fills[k].price, fills[k].qty, id),
         NEW own, NEW base
  PROVE  /\ TradesMade(r, s, m, fills, J, id)
         /\ MayPay(s, fills, id, own, base) /\ Paid(t, s, id, After(own, fills, J \ {k}), base)
            => Paid(r, s, id, After(own, fills, J), base)
<1>1. PICK p, q, os, ot, c, d :
        /\ p = fills[k].price /\ q = fills[k].qty /\ os = s.orders /\ ot = t.orders
        /\ c = After(own, fills, J \ {k}) /\ d = After(own, fills, J)
  OBVIOUS
<1>2. /\ s \in HandlerState /\ fills \in Seq(Fill) /\ k \in DOMAIN fills /\ t \in HandlerState
      /\ os \in OrderMaps /\ ot \in OrderMaps /\ id \in Int
  BY <1>1, StateFields DEF MayTrade, TradesMade
<1>3. p \in Nat \ {0} /\ q \in Nat \ {0}
  BY <1>1, <1>2, FillTypes
<1>4. Served(ot, os, m, fills, J, id)
  BY <1>1 DEF TradesMade
<1>5. Terms(ot) = Terms(os) /\ \A v : Listed(ot, v) <=> Listed(os, v)
  BY <1>2, <1>4, ServedFacts
<1>6. CASE ~(id > 0)
  <2>1. r = t
    BY <1>6 DEF on_event, IsUser
  <2>2. id \notin Slots
    BY <1>2, <1>6 DEF Slots
  <2>3. Claims(ot, id, c) = Claims(ot, id, d)
    BY <2>2 DEF Claims
  <2> QED
    BY <1>1, <2>1, <2>3 DEF Paid
<1>7. CASE id > 0
  <2>1. Listed(os, id) /\ Listed(ot, id) /\ id \in Slots
    BY <1>1, <1>2, <1>5, <1>7, OrderMapFacts DEF MayTrade
  <2>2. r = on_event(t, m, id, p, q, id)
    BY <1>1
  <2>3. /\ OnlyAcct(r, t)
        /\ \A x, bs :
             /\ bs \in Base /\ x \in Claim /\ q <= x.left
             /\ Posted(t.acct, Terms(t.orders), Claims(t.orders, id, x), bs)
             /\ t.orders[id].side = "buy" => p <= t.orders[id].limit
             => /\ r.failed = t.failed
                /\ Posted(r.acct, Terms(t.orders), Claims(t.orders, id, Spent(x, p, q)), bs)
    <3>1. Listed(t.orders, id)
      BY <1>1, <2>1
    <3> QED
      BY <1>2, <1>3, <2>2, <3>1, TakerEvent
  <2>4. TradesMade(r, s, m, fills, J, id) /\ r.orders = ot
    BY <1>1, <2>3 DEF TradesMade, OnlyAcct
  <2>5. ASSUME MayPay(s, fills, id, own, base), Paid(t, s, id, c, base) PROVE Paid(r, s, id, d, base)
    <3>1. own \in Claim /\ Sum(Qtys(fills)) <= own.left /\ base \in Base
      BY <2>1, <2>5 DEF MayPay
    <3>2. c \in Claim /\ q <= c.left /\ d = Spent(c, p, q)
      BY <1>1, <1>2, <3>1, AfterType
    <3>3. t.failed = s.failed /\ Posted(t.acct, Terms(t.orders), Claims(t.orders, id, c), base)
      BY <1>1, <1>5, <2>5 DEF Paid
    <3>4. t.orders[id].side = "buy" => p <= t.orders[id].limit
      <4>1. ot[id] = os[id]
        BY <1>4, <2>1 DEF Served, Listed
      <4>2. Crosses(os[id].side, os[id].limit, p)
        BY <1>1, <1>2, <1>7 DEF MayTrade
      <4> QED
        BY <1>1, <4>1, <4>2 DEF Crosses
    <3>5. r.failed = t.failed /\ Posted(r.acct, Terms(t.orders), Claims(t.orders, id, Spent(c, p, q)), base)
      BY <2>3, <3>1, <3>2, <3>3, <3>4
    <3> QED
      BY <1>1, <1>5, <2>4, <3>2, <3>3, <3>5 DEF Paid
  <2> QED
    BY <1>1, <2>4, <2>5
<1> QED
  BY <1>2, <1>6, <1>7

\* Both sides of one trade.
LEMMA OneTrade ==
  ASSUME NEW s, NEW m, NEW fills, NEW id, MayTrade(s, m, fills, id),
         NEW J \in SUBSET (DOMAIN fills), NEW k \in J, NEW t, TradesMade(t, s, m, fills, J \ {k}, id),
         NEW own, NEW base,
         MayPay(s, fills, id, own, base) => Paid(t, s, id, After(own, fills, J \ {k}), base),
         NEW r, r = on_event(on_event(t, m, fills[k].maker, fills[k].price, fills[k].qty, id),
                             m, id, fills[k].price, fills[k].qty, id)
  PROVE  /\ TradesMade(r, s, m, fills, J, id)
         /\ MayPay(s, fills, id, own, base) => Paid(r, s, id, After(own, fills, J), base)
<1>1. PICK z : z = on_event(t, m, fills[k].maker, fills[k].price, fills[k].qty, id)
  OBVIOUS
<1>2. PICK c : c = After(own, fills, J \ {k})
  OBVIOUS
<1>3. /\ TradesMade(z, s, m, fills, J, id)
      /\ \A x, bs : bs \in Base /\ (id \in Slots => x \in Claim) /\ Paid(t, s, id, x, bs) => Paid(z, s, id, x, bs)
  BY <1>1, MakerTrade
<1>4. r = on_event(z, m, id, fills[k].price, fills[k].qty, id)
  BY <1>1
<1>5. /\ TradesMade(r, s, m, fills, J, id)
      /\ MayPay(s, fills, id, own, base) /\ Paid(z, s, id, After(own, fills, J \ {k}), base)
         => Paid(r, s, id, After(own, fills, J), base)
  BY <1>3, <1>4, TakerTrade
<1>6. MayPay(s, fills, id, own, base) => Paid(z, s, id, c, base)
  <2>1. SUFFICES ASSUME MayPay(s, fills, id, own, base) PROVE Paid(z, s, id, c, base)
    OBVIOUS
  <2>2. base \in Base /\ (id \in Slots => own \in Claim /\ Sum(Qtys(fills)) <= own.left)
    BY <2>1 DEF MayPay
  <2>3. fills \in Seq(Fill)
    BY DEF MayTrade
  <2>4. id \in Slots => c \in Claim
    BY <1>2, <2>2, <2>3, AfterType
  <2>5. Paid(t, s, id, c, base)
    BY <1>2, <2>1
  <2> QED
    BY <1>3, <2>2, <2>4, <2>5
<1> QED
  BY <1>2, <1>5, <1>6

LEMMA NoTrades ==
  ASSUME NEW s, NEW m, NEW fills, NEW id, MayTrade(s, m, fills, id), NEW own, NEW base
  PROVE  /\ TradesMade(s, s, m, fills, {}, id)
         /\ MayPay(s, fills, id, own, base) => Paid(s, s, id, After(own, fills, {}), base)
<1>1. s \in HandlerState /\ s.orders \in OrderMaps
  BY StateFields DEF MayTrade
<1>2. ASSUME NEW u \in DOMAIN s.orders, IsOrder(s.orders[u])
      PROVE  Filled(s.orders[u], s.orders[u], m, Part(Got(fills, u), {}))
  <2>1. Part(Got(fills, u), {}) = 0
    BY PartEmpty
  <2>2. OrderOK(s.orders[u])
    BY <1>1, <1>2, OrderMapFacts DEF Listed
  <2> QED
    BY <2>1, <2>2, FilledNothing
<1>3. TradesMade(s, s, m, fills, {}, id)
  BY <1>1, <1>2 DEF TradesMade, Served
<1>4. ASSUME MayPay(s, fills, id, own, base) PROVE Paid(s, s, id, After(own, fills, {}), base)
  <2>1. CASE id \in Slots
    <3>1. own \in Claim
      BY <1>4, <2>1 DEF MayPay
    <3>2. Part(Qtys(fills), {}) = 0 /\ Part(Moneys(fills), {}) = 0
      BY PartEmpty
    <3>3. After(own, fills, {}) = [left |-> own.left - 0, money |-> own.money + 0, shares |-> own.shares + 0]
      BY <3>2 DEF After
    <3>4. own.left - 0 = own.left /\ own.money + 0 = own.money /\ own.shares + 0 = own.shares
      BY <3>1, ClaimTypes
    <3>5. own = [left |-> own.left, money |-> own.money, shares |-> own.shares]
      BY <3>1 DEF Claim
    <3>6. After(own, fills, {}) = own
      BY <3>3, <3>4, <3>5
    <3> QED
      BY <1>4, <3>6 DEF MayPay, Paid
  <2>2. CASE id \notin Slots
    <3>1. Claims(s.orders, id, own) = Claims(s.orders, id, After(own, fills, {}))
      BY <2>2 DEF Claims
    <3> QED
      BY <1>4, <3>1 DEF MayPay, Paid
  <2> QED
    BY <2>1, <2>2
<1> QED
  BY <1>3, <1>4

\* The trades of an order, whoever it is: each maker's leg and account move by
\* what it was filled, the taker's account by what all fills come to, and no
\* assertion fails on the way.
LEMMA TradesContract ==
  ASSUME NEW s, NEW m, NEW fills, NEW id, MayTrade(s, m, fills, id), NEW own, NEW base,
         NEW r, r = Trades(s, m, fills, id, id)
  PROVE  /\ TradesMade(r, s, m, fills, DOMAIN fills, id)
         /\ MayPay(s, fills, id, own, base) => Paid(r, s, id, After(own, fills, DOMAIN fills), base)
<1> DEFINE n == Len(fills)
           both(t, f) == on_event(on_event(t, m, f.maker, f.price, f.qty, id),
                                  m, id, f.price, f.qty, id)
           Good(t, J) == /\ TradesMade(t, s, m, fills, J, id)
                         /\ MayPay(s, fills, id, own, base) => Paid(t, s, id, After(own, fills, J), base)
           St == HandlerState
           F == [k \in 1..n |-> [t \in St |-> both(t, fills[k])]]
           T == [J \in SUBSET (1..n) |-> {t \in St : Good(t, J)}]
           Runs(h) == h = [J \in SUBSET (1..n) |->
                             IF J = {} THEN s ELSE both(h[J \ {Max(J)}], fills[Max(J)])]
<1>0. n \in Nat /\ DOMAIN fills = 1..n /\ s \in HandlerState
  BY DEF MayTrade
<1>1. s \in T[{}]
  <2>1. Good(s, {})
    BY NoTrades
  <2>2. {} \in SUBSET (1..n)
    OBVIOUS
  <2> HIDE DEF Good
  <2> QED
    BY <1>0, <2>1, <2>2
<1>2. ASSUME NEW J \in SUBSET (1..n), NEW k \in J, NEW t \in T[J \ {k}]
      PROVE  both(t, fills[k]) \in T[J] /\ F[k][t] = both(t, fills[k])
  <2>1. J \ {k} \in SUBSET (1..n) /\ k \in 1..n
    OBVIOUS
  <2>2. t \in St /\ Good(t, J \ {k})
    BY <2>1
  <2>3. PICK z : z = both(t, fills[k])
    OBVIOUS
  <2>4. Good(z, J)
    BY <1>0, <2>2, <2>3, OneTrade
  <2>5. z \in St
    BY <2>4 DEF TradesMade
  <2> HIDE DEF both, Good
  <2>6. z \in T[J]
    BY <2>4, <2>5
  <2> QED
    BY <2>1, <2>2, <2>3, <2>6
<1> HIDE DEF both, F, T, St, n, Good
<1>3. PICK g : /\ LeftFold(g, n, F, s)
               /\ \A J \in SUBSET (1..n) : J # {} => Max(J) \in J /\ g[J \ {Max(J)}] \in T[J \ {Max(J)}]
  <2>1. \A J \in SUBSET (1..n) : \A k \in J : \A t \in T[J \ {k}] : F[k][t] \in T[J]
    BY <1>2, ZenonT(60)
  <2> QED
    BY <1>0, <1>1, <2>1, FoldLeftRuns
<1>5. Runs(g)
  <2>1. \A J \in SUBSET (1..n) : J # {} => F[Max(J)][g[J \ {Max(J)}]] = both(g[J \ {Max(J)}], fills[Max(J)])
    BY <1>2, <1>3
  <2> QED
    BY <1>3, <2>1 DEF LeftFold
<1> DEFINE w == CHOOSE h : Runs(h)
<1>6. Runs(w)
  <2> HIDE DEF Runs
  <2> QED
    BY <1>5
<1>7. r = w[1..n]
  BY <1>0 DEF Trades, FoldLeft, MapThenFoldSet, both
<1> HIDE DEF w
<1>8. \A J \in SUBSET (1..n) : w[J] \in T[J]
  <2>1. w[{}] \in T[{}]
    BY <1>1, <1>6
  <2>2. ASSUME NEW J \in SUBSET (1..n), J # {}, Max(J) \in J, w[J \ {Max(J)}] \in T[J \ {Max(J)}]
        PROVE  w[J] \in T[J]
    <3>1. w[J] = both(w[J \ {Max(J)}], fills[Max(J)])
      BY <1>6, <2>2
    <3> HIDE DEF Runs
    <3> QED
      BY <1>2, <2>2, <3>1
  <2> QED
    BY <1>0, <2>1, <2>2, FoldLeftTypes
<1>9. r \in T[1..n]
  BY <1>7, <1>8
<1>10. Good(r, 1..n)
  BY <1>9 DEF T
<1> QED
  BY <1>0, <1>10 DEF Good

-----------------------------------------------------------------------------
(* The map and the books.                                                   *)

\* Book b of market m tells the same story as the map: every user's order rests
\* with what the map says is left, and so does nobody else's. Order id, which
\* is being submitted, has q resting whatever its leg says.
Agree(os, b, m, id, q) ==
  /\ BookOK(b) /\ Len(b) <= PoolCap
  /\ \A u \in Nat \ {0} : Rests(b, u, IF u = id THEN q ELSE LeftOf(os, u, m))
  /\ \A i \in DOMAIN b : b[i].owner > 0 =>
       /\ Listed(os, b[i].owner) /\ m \in DOMAIN os[b[i].owner].legs
       /\ b[i].side = os[b[i].owner].side /\ b[i].price = os[b[i].owner].limit

\* The orders of os are in os2, with the same terms and legs in the same markets.
SameOrders(os2, os) ==
  \A u : Listed(os, u) => /\ Listed(os2, u) /\ TermsOf(os2[u]) = TermsOf(os[u])
                          /\ DOMAIN os2[u].legs = DOMAIN os[u].legs

LEMMA TermsFields ==
  ASSUME NEW lo, NEW lo2, TermsOf(lo2) = TermsOf(lo)
  PROVE  lo2.acct = lo.acct /\ lo2.side = lo.side /\ lo2.limit = lo.limit
<1>1. PICK k, k2 : k = TermsOf(lo) /\ k2 = TermsOf(lo2)
  OBVIOUS
<1>2. /\ k.acct = lo.acct /\ k.side = lo.side /\ k.limit = lo.limit
      /\ k2.acct = lo2.acct /\ k2.side = lo2.side /\ k2.limit = lo2.limit
  BY <1>1 DEF TermsOf
<1> QED
  BY <1>1, <1>2

LEMMA AgreeStill ==
  ASSUME NEW os, NEW os2, NEW b, NEW m, NEW id, NEW q, Agree(os, b, m, id, q), SameOrders(os2, os),
         NEW p, p = q \/ id \notin Nat \ {0},
         \A u \in Nat \ {0} : u # id => LeftOf(os2, u, m) = LeftOf(os, u, m)
  PROVE  Agree(os2, b, m, id, p)
<1>1. BookOK(b) /\ Len(b) <= PoolCap
  BY DEF Agree
<1>2. ASSUME NEW u \in Nat \ {0} PROVE Rests(b, u, IF u = id THEN p ELSE LeftOf(os2, u, m))
  <2>1. Rests(b, u, IF u = id THEN q ELSE LeftOf(os, u, m))
    BY DEF Agree
  <2> QED
    BY <2>1
<1>3. ASSUME NEW i \in DOMAIN b, b[i].owner > 0
      PROVE  /\ Listed(os2, b[i].owner) /\ m \in DOMAIN os2[b[i].owner].legs
             /\ b[i].side = os2[b[i].owner].side /\ b[i].price = os2[b[i].owner].limit
  <2>1. PICK u : u = b[i].owner
    OBVIOUS
  <2>2. /\ Listed(os, u) /\ m \in DOMAIN os[u].legs
        /\ b[i].side = os[u].side /\ b[i].price = os[u].limit
    BY <1>3, <2>1 DEF Agree
  <2>3. Listed(os2, u) /\ TermsOf(os2[u]) = TermsOf(os[u]) /\ DOMAIN os2[u].legs = DOMAIN os[u].legs
    BY <2>2 DEF SameOrders
  <2>4. os2[u].side = os[u].side /\ os2[u].limit = os[u].limit
    BY <2>3, TermsFields
  <2> QED
    BY <2>1, <2>2, <2>3, <2>4
<1> QED
  BY <1>1, <1>2, <1>3 DEF Agree

\* What becomes of an order: it may fill and be cancelled, and is left alone once
\* it has nothing left.
Grew(lo2, lo) ==
  /\ OrderOK(lo2) /\ TermsOf(lo2) = TermsOf(lo) /\ lo2.qty = lo.qty /\ lo2.market = lo.market
  /\ DOMAIN lo2.legs = DOMAIN lo.legs
  /\ \A k \in DOMAIN lo.legs : /\ lo.legs[k].accepted => lo2.legs[k].accepted
                               /\ LegLeft(lo2.legs[k]) <= LegLeft(lo.legs[k])
  /\ omap_filled_qty(lo) <= omap_filled_qty(lo2)
  /\ omap_remaining(lo) = 0 => lo2 = lo

Grown(os2, os, id) ==
  \A u \in DOMAIN os : u # id =>
    /\ u \in DOMAIN os2
    /\ IF IsOrder(os[u]) THEN Grew(os2[u], os[u]) ELSE os2[u] = os[u]

LEMMA GrewNothing ==
  ASSUME NEW lo, OrderOK(lo)
  PROVE  Grew(lo, lo)
<1>1. ASSUME NEW k \in DOMAIN lo.legs PROVE LegLeft(lo.legs[k]) \in Nat
  BY LegTypes DEF OrderOK, LegsOK
<1>2. omap_filled_qty(lo) \in Nat
  BY OrderTotals
<1> QED
  BY <1>1, <1>2 DEF Grew

LEMMA GrewMore ==
  ASSUME NEW lo, OrderOK(lo), NEW lo2, NEW lo3, Grew(lo2, lo), Grew(lo3, lo2)
  PROVE  Grew(lo3, lo)
<1>1. OrderOK(lo2) /\ OrderOK(lo3)
  BY DEF Grew
<1>2. DOMAIN lo2.legs = DOMAIN lo.legs /\ DOMAIN lo3.legs = DOMAIN lo.legs
  BY DEF Grew
<1>3. ASSUME NEW k \in DOMAIN lo.legs
      PROVE  /\ lo.legs[k].accepted => lo3.legs[k].accepted
             /\ LegLeft(lo3.legs[k]) <= LegLeft(lo.legs[k])
  <2>1. PICK l, l2, l3 : l = LegLeft(lo.legs[k]) /\ l2 = LegLeft(lo2.legs[k]) /\ l3 = LegLeft(lo3.legs[k])
    OBVIOUS
  <2>2. LegOK(lo.legs[k]) /\ LegOK(lo2.legs[k]) /\ LegOK(lo3.legs[k])
    BY <1>1, <1>2 DEF OrderOK, LegsOK
  <2>3. l \in Nat /\ l2 \in Nat /\ l3 \in Nat
    BY <2>1, <2>2, LegTypes
  <2>4. l2 <= l /\ l3 <= l2
    BY <1>2, <2>1 DEF Grew
  <2>5. lo.legs[k].accepted => lo3.legs[k].accepted
    BY <1>2 DEF Grew
  <2> QED
    BY <2>1, <2>3, <2>4, <2>5
<1>4. omap_filled_qty(lo) <= omap_filled_qty(lo3)
  <2>1. PICK f, f2, f3 : f = omap_filled_qty(lo) /\ f2 = omap_filled_qty(lo2) /\ f3 = omap_filled_qty(lo3)
    OBVIOUS
  <2>2. f \in Nat /\ f2 \in Nat /\ f3 \in Nat
    BY <1>1, <2>1, OrderTotals
  <2>3. f <= f2 /\ f2 <= f3
    BY <2>1 DEF Grew
  <2> QED
    BY <2>1, <2>2, <2>3
<1>5. omap_remaining(lo) = 0 => lo3 = lo
  BY DEF Grew
<1> QED
  BY <1>2, <1>3, <1>4, <1>5 DEF Grew

LEMMA GrownNothing ==
  ASSUME NEW os \in OrderMaps, NEW id
  PROVE  Grown(os, os, id)
<1>1. ASSUME NEW u \in DOMAIN os, IsOrder(os[u]) PROVE Grew(os[u], os[u])
  BY <1>1, OrderMapFacts, GrewNothing DEF Listed
<1> QED
  BY <1>1 DEF Grown

LEMMA GrownMore ==
  ASSUME NEW os \in OrderMaps, NEW os2, NEW os3, NEW id, Grown(os2, os, id), Grown(os3, os2, id)
  PROVE  Grown(os3, os, id)
<1>1. ASSUME NEW u \in DOMAIN os, u # id
      PROVE  /\ u \in DOMAIN os3
             /\ IF IsOrder(os[u]) THEN Grew(os3[u], os[u]) ELSE os3[u] = os[u]
  <2>1. u \in DOMAIN os2 /\ u \in DOMAIN os3
    BY <1>1 DEF Grown
  <2>2. CASE IsOrder(os[u])
    <3>1. Grew(os2[u], os[u]) /\ OrderOK(os[u])
      BY <1>1, <2>2, OrderMapFacts DEF Grown, Listed
    <3>2. IsOrder(os2[u])
      BY <3>1, OrdersAreOrders DEF Grew, OrderOK
    <3>3. Grew(os3[u], os2[u])
      BY <1>1, <2>1, <3>2 DEF Grown
    <3> QED
      BY <2>1, <2>2, <3>1, <3>3, GrewMore
  <2>3. CASE ~IsOrder(os[u])
    <3>1. os2[u] = os[u]
      BY <1>1, <2>3 DEF Grown
    <3>2. os3[u] = os2[u]
      BY <1>1, <2>1, <2>3, <3>1 DEF Grown
    <3> QED
      BY <2>1, <2>3, <3>1, <3>2
  <2> QED
    BY <2>2, <2>3
<1> QED
  BY <1>1 DEF Grown

LEMMA GrownSame ==
  ASSUME NEW os \in OrderMaps, NEW os2, Grown(os2, os, 0)
  PROVE  SameOrders(os2, os)
<1>1. ASSUME NEW u, Listed(os, u)
      PROVE  /\ Listed(os2, u) /\ TermsOf(os2[u]) = TermsOf(os[u])
             /\ DOMAIN os2[u].legs = DOMAIN os[u].legs
  <2>1. u \in DOMAIN os /\ IsOrder(os[u]) /\ u # 0
    BY <1>1, OrderMapFacts DEF Listed
  <2>2. u \in DOMAIN os2 /\ Grew(os2[u], os[u])
    BY <2>1 DEF Grown
  <2>3. IsOrder(os2[u])
    BY <2>2, OrdersAreOrders DEF Grew, OrderOK
  <2> QED
    BY <2>2, <2>3 DEF Grew, Listed
<1> QED
  BY <1>1 DEF SameOrders

LEMMA FilledGrew ==
  ASSUME NEW lo, OrderOK(lo), NEW m, NEW q, NEW lo2, Filled(lo2, lo, m, q)
  PROVE  Grew(lo2, lo)
<1>1. q \in Nat /\ OrderOK(lo2) /\ DOMAIN lo2.legs = DOMAIN lo.legs
  BY DEF Filled
<1>2. ASSUME NEW k \in DOMAIN lo.legs
      PROVE  /\ LegLeft(lo2.legs[k]) \in Nat /\ LegLeft(lo.legs[k]) \in Nat
             /\ LegLeft(lo2.legs[k]) = LegLeft(lo.legs[k]) - (IF k = m THEN q ELSE 0)
             /\ LegLeft(lo2.legs[k]) <= LegLeft(lo.legs[k])
             /\ lo2.legs[k].accepted = lo.legs[k].accepted
  <2>1. PICK l, l2 : l = LegLeft(lo.legs[k]) /\ l2 = LegLeft(lo2.legs[k])
    OBVIOUS
  <2>2. LegOK(lo.legs[k]) /\ LegOK(lo2.legs[k])
    BY <1>1 DEF OrderOK, LegsOK
  <2>3. l \in Nat /\ l2 \in Nat
    BY <2>1, <2>2, LegTypes
  <2>4. l2 = l - (IF k = m THEN q ELSE 0) /\ lo2.legs[k].accepted = lo.legs[k].accepted
    BY <2>1 DEF Filled
  <2>5. l2 <= l
    BY <1>1, <2>3, <2>4
  <2> QED
    BY <2>1, <2>3, <2>4, <2>5
<1>3. omap_filled_qty(lo) <= omap_filled_qty(lo2)
  <2>1. omap_filled_qty(lo) \in Nat /\ omap_filled_qty(lo2) = omap_filled_qty(lo) + q
    BY OrderTotals DEF Filled
  <2> QED
    BY <1>1, <2>1
<1>4. omap_remaining(lo) = 0 => lo2 = lo
  <2>1. SUFFICES ASSUME omap_remaining(lo) = 0 PROVE q = 0
    BY DEF Filled
  <2>2. CASE m \in DOMAIN lo.legs
    <3>1. LegLeft(lo.legs[m]) = 0
      BY <2>1, <2>2, OrderTotals
    <3>2. LegLeft(lo2.legs[m]) = LegLeft(lo.legs[m]) - q /\ LegLeft(lo2.legs[m]) \in Nat
      BY <1>2, <2>2
    <3> QED
      BY <1>1, <3>1, <3>2
  <2>3. CASE m \notin DOMAIN lo.legs
    BY <2>3 DEF Filled
  <2> QED
    BY <2>2, <2>3
<1>5. TermsOf(lo2) = TermsOf(lo) /\ lo2.qty = lo.qty /\ lo2.market = lo.market
  BY DEF Filled
<1> QED
  BY <1>1, <1>2, <1>3, <1>4, <1>5 DEF Grew

LEMMA ServedGrown ==
  ASSUME NEW os \in OrderMaps, NEW os2 \in OrderMaps, NEW m, NEW fills, NEW J, NEW id,
         Served(os2, os, m, fills, J, id)
  PROVE  Grown(os2, os, id)
<1>1. DOMAIN os2 = DOMAIN os
  <2>1. DOMAIN os = 1..Len(os) /\ DOMAIN os2 = 1..Len(os2) /\ Len(os2) = Len(os)
    BY OrderMapFacts DEF Served
  <2> QED
    BY <2>1
<1>2. ASSUME NEW u \in DOMAIN os, u # id, IsOrder(os[u]) PROVE Grew(os2[u], os[u])
  <2>1. Filled(os2[u], os[u], m, Part(Got(fills, u), J))
    BY <1>2 DEF Served
  <2>2. OrderOK(os[u])
    BY <1>2, OrderMapFacts DEF Listed
  <2> QED
    BY <2>1, <2>2, FilledGrew
<1> QED
  BY <1>1, <1>2 DEF Grown, Served

\* Nothing but the book of m, which is b.
OnlyBook(z, s, m, b) ==
  /\ z \in HandlerState /\ z.acct = s.acct /\ z.orders = s.orders /\ z.failed = s.failed
  /\ z.refused = s.refused /\ z.filled = s.filled /\ z.canceled = s.canceled
  /\ z.book[m] = b /\ \A k \in Markets : k # m => z.book[k] = s.book[k]

LEMMA BookSet ==
  ASSUME NEW s \in HandlerState, NEW m \in Markets, NEW b \in Seq(BookOrder),
         NEW z, z = [s EXCEPT !.book[m] = b]
  PROVE  OnlyBook(z, s, m, b)
<1>1. PICK bs : bs = [s.book EXCEPT ![m] = b]
  OBVIOUS
<1>2. s.book \in [Markets -> Seq(BookOrder)]
  BY StateFields
<1>3. bs \in [Markets -> Seq(BookOrder)] /\ bs[m] = b /\ \A k \in Markets : k # m => bs[k] = s.book[k]
  BY <1>1, <1>2
<1>4. z = [s EXCEPT !.book = bs]
  BY <1>1
<1>5. /\ z \in HandlerState /\ z.acct = s.acct /\ z.orders = s.orders /\ z.failed = s.failed
      /\ z.refused = s.refused /\ z.filled = s.filled /\ z.canceled = s.canceled /\ z.book = bs
  BY <1>3, <1>4 DEF HandlerState
<1> QED
  BY <1>3, <1>5 DEF OnlyBook

\* The taker of a deal in m is nobody's order here, or the order id of the map,
\* whose leg in m is being sent.
Sends(os, m, id, taker) ==
  /\ id \in Int /\ taker.owner = id /\ taker.side \in Side
  /\ id > 0 => /\ Listed(os, id) /\ m \in DOMAIN os[id].legs
               /\ taker.side = os[id].side /\ taker.price = os[id].limit

LEMMA DealMayTrade ==
  ASSUME NEW os \in OrderMaps, NEW m, NEW id, NEW taker, Sends(os, m, id, taker),
         NEW b, Agree(os, b, m, id, 0), NEW cap, NEW r, Dealt(r, b, cap, taker),
         NEW z, z \in HandlerState, z.orders = os
  PROVE  MayTrade(z, m, r.fills, id)
<1>1. PICK fills : fills = r.fills
  OBVIOUS
<1>2. fills \in Seq(Fill) /\ id \in Int /\ taker.owner = id
  BY <1>1 DEF Dealt, Sends
<1>3. ASSUME NEW k \in DOMAIN fills
      PROVE  /\ Crosses(taker.side, taker.price, fills[k].price)
             /\ fills[k].maker > 0 =>
                  /\ fills[k].maker # id /\ Listed(os, fills[k].maker)
                  /\ m \in DOMAIN os[fills[k].maker].legs
                  /\ fills[k].price = os[fills[k].maker].limit
  <2>1. PICK f : f = fills[k]
    OBVIOUS
  <2>2. f.maker \in Int
    BY <1>2, <2>1, FillTypes
  <2>3. Fair(f, b, taker)
    BY <1>1, <2>1 DEF Dealt
  <2>4. PICK j \in DOMAIN b : b[j].owner = f.maker /\ b[j].price = f.price
    BY <2>3 DEF Fair
  <2>5. ASSUME f.maker > 0
        PROVE  Listed(os, f.maker) /\ m \in DOMAIN os[f.maker].legs /\ f.price = os[f.maker].limit
    BY <2>4, <2>5 DEF Agree
  <2>6. f.maker > 0 => f.maker # id
    BY <1>1, <1>2, <2>1, <2>2 DEF Dealt
  <2> QED
    BY <2>1, <2>3, <2>5, <2>6 DEF Fair
<1>4. ASSUME NEW u \in Nat \ {0}, u # id PROVE Sum(Got(fills, u)) <= LeftOf(os, u, m)
  <2>1. PICK q : q = LeftOf(os, u, m)
    OBVIOUS
  <2>2. q \in Nat
    BY <2>1, LeftOfType
  <2>3. Rests(b, u, q)
    BY <1>4, <2>1 DEF Agree
  <2> QED
    BY <1>1, <1>2, <1>4, <2>1, <2>2, <2>3 DEF Dealt
<1>5. id > 0 => /\ Listed(os, id)
                /\ \A k \in DOMAIN fills : Crosses(os[id].side, os[id].limit, fills[k].price)
  BY <1>3 DEF Sends
<1> QED
  BY <1>1, <1>2, <1>3, <1>4, <1>5 DEF MayTrade

LEMMA ServedSame ==
  ASSUME NEW os \in OrderMaps, NEW os2 \in OrderMaps, NEW m, NEW fills \in Seq(Fill), NEW id,
         Served(os2, os, m, fills, DOMAIN fills, id)
  PROVE  SameOrders(os2, os)
<1>1. Served(os2, os, m, fills, DOMAIN fills, id) /\ DOMAIN fills \in SUBSET (DOMAIN fills)
  OBVIOUS
<1>2. Terms(os2) = Terms(os) /\ \A u : Listed(os2, u) <=> Listed(os, u)
  BY <1>1, ServedFacts
<1>3. \A u : Listed(os, u) => DOMAIN os2[u].legs = DOMAIN os[u].legs
  BY <1>1, ServedFacts
<1>4. ASSUME NEW u, Listed(os, u) PROVE TermsOf(os2[u]) = TermsOf(os[u])
  <2>1. Terms(os)[u] = TermsOf(os[u])
    BY <1>4, TermsType
  <2>2. Terms(os2)[u] = TermsOf(os2[u])
    BY <1>2, <1>4, TermsType
  <2> QED
    BY <1>2, <2>1, <2>2
<1> QED
  BY <1>2, <1>3, <1>4 DEF SameOrders

LEMMA DealAgrees ==
  ASSUME NEW os \in OrderMaps, NEW m, NEW id, NEW taker, Sends(os, m, id, taker),
         NEW b, Agree(os, b, m, id, 0), NEW r, Dealt(r, b, PoolCap, taker),
         NEW os2 \in OrderMaps, Served(os2, os, m, r.fills, DOMAIN r.fills, id)
  PROVE  Agree(os2, r.book, m, id, IF r.resting THEN r.left ELSE 0)
<1>1. PICK fills, c : fills = r.fills /\ c = r.book
  OBVIOUS
<1>2. fills \in Seq(Fill) /\ id \in Int /\ taker.owner = id /\ BookOK(c) /\ Len(c) <= PoolCap /\ r.left \in Nat
  BY <1>1 DEF Dealt, Sends
<1>3. SameOrders(os2, os)
  <2>1. Served(os2, os, m, fills, DOMAIN fills, id)
    BY <1>1
  <2> QED
    BY <1>2, <2>1, ServedSame
<1>4. LeftLess(os2, os, m, fills, DOMAIN fills, id) /\ \A u : ~Listed(os, u) => LeftOf(os2, u, m) = LeftOf(os, u, m)
  <2>1. Served(os2, os, m, fills, DOMAIN fills, id) /\ DOMAIN fills \in SUBSET (DOMAIN fills)
    BY <1>1
  <2>2. LeftLess(os2, os, m, fills, DOMAIN fills, id)
    BY <1>2, <2>1, ServedFacts
  <2>3. LeftSame(os2, os, m, id)
    BY <1>2, <2>1, ServedFacts
  <2> QED
    BY <2>2, <2>3 DEF LeftSame
<1>5. ASSUME NEW u \in Nat \ {0}
      PROVE  Rests(c, u, IF u = id THEN (IF r.resting THEN r.left ELSE 0) ELSE LeftOf(os2, u, m))
  <2>1. CASE u = id
    BY <1>1, <1>2, <2>1 DEF Dealt
  <2>2. CASE u # id
    <3>1. PICK q, g : q = LeftOf(os, u, m) /\ g = Sum(Got(fills, u))
      OBVIOUS
    <3>2. q \in Nat /\ g \in Nat
      BY <1>2, <3>1, LeftOfType, SumsOfFills
    <3>3. Rests(b, u, q)
      BY <2>2, <3>1 DEF Agree
    <3>4. g <= q /\ Rests(c, u, q - g)
      BY <1>1, <1>2, <2>2, <3>1, <3>2, <3>3 DEF Dealt
    <3>5. LeftOf(os2, u, m) = q - g
      <4>1. CASE Listed(os, u)
        <5>1. g = Part(Got(fills, u), DOMAIN fills)
          BY <1>2, <3>1, SumsOfFills
        <5> QED
          BY <1>4, <2>2, <3>1, <4>1, <5>1 DEF LeftLess
      <4>2. CASE ~Listed(os, u)
        <5>1. q = 0 /\ LeftOf(os2, u, m) = 0
          BY <1>4, <3>1, <4>2 DEF LeftOf
        <5> QED
          BY <3>2, <3>4, <5>1
      <4> QED
        BY <4>1, <4>2
    <3> QED
      BY <2>2, <3>4, <3>5
  <2> QED
    BY <2>1, <2>2
<1>6. ASSUME NEW i \in DOMAIN c, c[i].owner > 0
      PROVE  /\ Listed(os2, c[i].owner) /\ m \in DOMAIN os2[c[i].owner].legs
             /\ c[i].side = os2[c[i].owner].side /\ c[i].price = os2[c[i].owner].limit
  <2>1. PICK u : u = c[i].owner
    OBVIOUS
  <2>2. /\ Listed(os, u) /\ m \in DOMAIN os[u].legs
        /\ c[i].side = os[u].side /\ c[i].price = os[u].limit
    <3>1. \/ \E j \in DOMAIN b : c[i].owner = b[j].owner /\ c[i].side = b[j].side /\ c[i].price = b[j].price
          \/ c[i].owner = taker.owner /\ c[i].side = taker.side /\ c[i].price = taker.price
      BY <1>1 DEF Dealt
    <3>2. CASE \E j \in DOMAIN b : c[i].owner = b[j].owner /\ c[i].side = b[j].side /\ c[i].price = b[j].price
      BY <1>6, <2>1, <3>2 DEF Agree
    <3>3. CASE c[i].owner = taker.owner /\ c[i].side = taker.side /\ c[i].price = taker.price
      BY <1>2, <1>6, <2>1, <3>3 DEF Sends
    <3> QED
      BY <3>1, <3>2, <3>3
  <2>3. Listed(os2, u) /\ TermsOf(os2[u]) = TermsOf(os[u]) /\ DOMAIN os2[u].legs = DOMAIN os[u].legs
    BY <1>3, <2>2 DEF SameOrders
  <2>4. os2[u].side = os[u].side /\ os2[u].limit = os[u].limit
    BY <2>3, TermsFields
  <2> QED
    BY <2>1, <2>2, <2>3, <2>4
<1> QED
  BY <1>1, <1>2, <1>5, <1>6 DEF Agree

-----------------------------------------------------------------------------
(* Whole states, and what follows from one.                                 *)

Whole(s) == s \in HandlerState /\ \A m \in Markets : Agree(s.orders, s.book[m], m, 0, 0)

\* The accounts and the map agree.
Settled(ac, os, base) ==
  base \in Base /\ Posted(ac, Terms(os), Claims(os, 0, NoClaim), base)

\* In no book has a user's order, whoever's but id's, lost its place.
BooksOnward(t, s, id) == \A k \in Markets : Onward(t.book[k], s.book[k], id)

LEMMA SameBooksOnward ==
  ASSUME NEW s \in HandlerState, NEW t, t.book = s.book, NEW id
  PROVE  BooksOnward(t, s, id)
<1>1. \A k \in Markets : s.book[k] \in Seq(BookOrder)
  BY StateFields
<1>2. \A k \in Markets : Onward(s.book[k], s.book[k], id)
  BY <1>1, ComesFromItself, OnwardFrom
<1> QED
  BY <1>2 DEF BooksOnward

LEMMA OneBookOnward ==
  ASSUME NEW s \in HandlerState, NEW m \in Markets, NEW t, NEW id, Onward(t.book[m], s.book[m], id),
         \A k \in Markets : k # m => t.book[k] = s.book[k]
  PROVE  BooksOnward(t, s, id)
<1>1. \A k \in Markets : s.book[k] \in Seq(BookOrder)
  BY StateFields
<1>2. \A k \in Markets : Onward(s.book[k], s.book[k], id)
  BY <1>1, ComesFromItself, OnwardFrom
<1> QED
  BY <1>2 DEF BooksOnward

LEMMA BooksOnwardFurther ==
  ASSUME NEW r, NEW s, NEW t, NEW id, BooksOnward(t, s, id), BooksOnward(s, r, id)
  PROVE  BooksOnward(t, r, id)
BY OnwardFurther DEF BooksOnward

LEMMA BooksOnwardFrom ==
  ASSUME NEW s, NEW t, BooksOnward(t, s, 0), NEW id
  PROVE  BooksOnward(t, s, id)
BY OnwardFrom DEF BooksOnward

\* A whole state t after s: the orders are the same and have only grown, none
\* has lost its place in a book, and the accounts still agree with the map,
\* without an assertion failing.
Follows(t, s) ==
  /\ Whole(t) /\ Len(t.orders) = Len(s.orders) /\ Terms(t.orders) = Terms(s.orders)
  /\ t.refused = s.refused /\ t.filled = s.filled /\ t.canceled = s.canceled
  /\ Grown(t.orders, s.orders, 0) /\ BooksOnward(t, s, 0)
  /\ \A base : Settled(s.acct, s.orders, base) =>
                 t.failed = s.failed /\ Settled(t.acct, t.orders, base)

LEMMA FollowsItself ==
  ASSUME NEW s, Whole(s)
  PROVE  Follows(s, s)
<1>1. Grown(s.orders, s.orders, 0)
  BY StateFields, GrownNothing DEF Whole
<1>2. BooksOnward(s, s, 0)
  BY SameBooksOnward DEF Whole
<1> QED
  BY <1>1, <1>2 DEF Follows

LEMMA FollowsFurther ==
  ASSUME NEW r, Whole(r), NEW s, NEW t, Follows(s, r), Follows(t, s)
  PROVE  Follows(t, r)
<1>1. Grown(t.orders, r.orders, 0)
  BY StateFields, GrownMore DEF Follows, Whole
<1>2. BooksOnward(t, r, 0)
  BY BooksOnwardFurther DEF Follows
<1> QED
  BY <1>1, <1>2 DEF Follows

\* A book with fewer quotes that are no user's is as good.
LEMMA BookFollows ==
  ASSUME NEW s, Whole(s), NEW m \in Markets, NEW c, BookOK(c), Len(c) <= PoolCap,
         \A u \in Nat \ {0}, q \in Nat : Rests(s.book[m], u, q) => Rests(c, u, q),
         Onward(c, s.book[m], 0),
         NEW t, OnlyBook(t, s, m, c)
  PROVE  Follows(t, s)
<1>1. PICK b, os : b = s.book[m] /\ os = s.orders
  OBVIOUS
<1>2. os \in OrderMaps /\ s \in HandlerState /\ Agree(os, b, m, 0, 0)
  BY <1>1, StateFields DEF Whole
<1>3. Agree(os, c, m, 0, 0)
  <2>1. ASSUME NEW u \in Nat \ {0} PROVE Rests(c, u, IF u = 0 THEN 0 ELSE LeftOf(os, u, m))
    <3>1. LeftOf(os, u, m) \in Nat
      BY <1>2, LeftOfType
    <3>2. Rests(b, u, LeftOf(os, u, m))
      BY <1>2 DEF Agree
    <3> QED
      BY <1>1, <3>1, <3>2
  <2>2. ASSUME NEW i \in DOMAIN c, c[i].owner > 0
        PROVE  /\ Listed(os, c[i].owner) /\ m \in DOMAIN os[c[i].owner].legs
               /\ c[i].side = os[c[i].owner].side /\ c[i].price = os[c[i].owner].limit
    <3>0. c[i].owner # 0
      <4>1. ~(0 > 0)
        OBVIOUS
      <4> QED
        BY <2>2, <4>1
    <3>1. PICK j \in DOMAIN b : c[i].owner = b[j].owner /\ c[i].side = b[j].side /\ c[i].price = b[j].price
      BY <1>1, <2>2, <3>0 DEF Onward, Stood
    <3>2. b[j].owner > 0
      BY <2>2, <3>1
    <3>3. /\ Listed(os, b[j].owner) /\ m \in DOMAIN os[b[j].owner].legs
          /\ b[j].side = os[b[j].owner].side /\ b[j].price = os[b[j].owner].limit
      BY <1>2, <3>2 DEF Agree
    <3> QED
      BY <3>1, <3>3
  <2> QED
    BY <2>1, <2>2 DEF Agree
<1>4. Whole(t)
  <2>1. t \in HandlerState /\ t.orders = os
    BY <1>1 DEF OnlyBook
  <2>2. ASSUME NEW k \in Markets PROVE Agree(os, t.book[k], k, 0, 0)
    <3>1. CASE k = m
      BY <1>3, <3>1 DEF OnlyBook
    <3>2. CASE k # m
      BY <1>1, <3>2 DEF OnlyBook, Whole
    <3> QED
      BY <3>1, <3>2
  <2> QED
    BY <2>1, <2>2 DEF Whole
<1>5. Grown(t.orders, s.orders, 0)
  BY <1>1, <1>2, GrownNothing DEF OnlyBook
<1>6. BooksOnward(t, s, 0)
  BY <1>2, OneBookOnward DEF OnlyBook
<1> QED
  BY <1>4, <1>5, <1>6 DEF Follows, OnlyBook

\* An order of id sent to m: what the engine returned, r, has become the book,
\* and its trades are settled and recorded.
Dealing(d, s, m, r, id) ==
  /\ d \in HandlerState /\ d.book[m] = r.book /\ \A k \in Markets : k # m => d.book[k] = s.book[k]
  /\ d.refused = s.refused /\ d.filled = s.filled /\ d.canceled = s.canceled
  /\ Served(d.orders, s.orders, m, r.fills, DOMAIN r.fills, id)
  /\ Agree(d.orders, r.book, m, id, IF r.resting THEN r.left ELSE 0)
  /\ \A k \in Markets \ {m}, q \in Nat :
       Agree(s.orders, s.book[k], k, id, q) => Agree(d.orders, d.book[k], k, id, q)

PaidFor(d, s, fills, id, own, base) ==
  MayPay(s, fills, id, own, base) => Paid(d, s, id, After(own, fills, DOMAIN fills), base)

LEMMA DealingContract ==
  ASSUME NEW s \in HandlerState, NEW m \in Markets, NEW id, NEW taker, Sends(s.orders, m, id, taker),
         Agree(s.orders, s.book[m], m, id, 0), NEW r, Dealt(r, s.book[m], PoolCap, taker),
         NEW d, d = Trades([s EXCEPT !.book[m] = r.book], m, r.fills, id, id),
         NEW own, NEW base
  PROVE  Dealing(d, s, m, r, id) /\ PaidFor(d, s, r.fills, id, own, base)
<1>1. PICK os, b, z, fills, q : /\ os = s.orders /\ b = s.book[m] /\ z = [s EXCEPT !.book[m] = r.book]
                                /\ fills = r.fills /\ q = IF r.resting THEN r.left ELSE 0
  OBVIOUS
<1>2. os \in OrderMaps /\ fills \in Seq(Fill) /\ r.book \in Seq(BookOrder)
  BY <1>1, StateFields DEF Dealt, BookOK
<1>3. OnlyBook(z, s, m, r.book)
  BY <1>1, <1>2, BookSet
<1>4. z \in HandlerState /\ z.orders = os
  BY <1>1, <1>3 DEF OnlyBook
<1>5. MayTrade(z, m, fills, id)
  <2>1. Agree(os, b, m, id, 0) /\ Dealt(r, b, PoolCap, taker) /\ Sends(os, m, id, taker)
    BY <1>1
  <2> QED
    BY <1>1, <1>2, <1>4, <2>1, DealMayTrade
<1>6. d = Trades(z, m, fills, id, id)
  BY <1>1
<1>7. TradesMade(d, z, m, fills, DOMAIN fills, id)
  BY <1>5, <1>6, TradesContract
<1>8. MayPay(z, fills, id, own, base) => Paid(d, z, id, After(own, fills, DOMAIN fills), base)
  BY <1>5, <1>6, TradesContract
<1>9. d \in HandlerState /\ Served(d.orders, os, m, fills, DOMAIN fills, id) /\ d.orders \in OrderMaps
  BY <1>4, <1>7, StateFields DEF TradesMade
<1>10. Agree(d.orders, r.book, m, id, q)
  <2>1. Agree(os, b, m, id, 0) /\ Dealt(r, b, PoolCap, taker) /\ Sends(os, m, id, taker)
        /\ Served(d.orders, os, m, r.fills, DOMAIN r.fills, id)
    BY <1>1, <1>9
  <2> QED
    BY <1>1, <1>2, <1>9, <2>1, DealAgrees
<1>11. d.book[m] = r.book /\ \A k \in Markets : k # m => d.book[k] = s.book[k]
  BY <1>3, <1>7 DEF TradesMade, OnlyBook
<1>12. ASSUME NEW k \in Markets \ {m}, NEW p \in Nat, Agree(os, s.book[k], k, id, p)
       PROVE  Agree(d.orders, d.book[k], k, id, p)
  <2>1. SameOrders(d.orders, os)
    BY <1>2, <1>9, ServedSame
  <2>2. LeftSame(d.orders, os, m, id)
    <3>1. Served(d.orders, os, m, fills, DOMAIN fills, id) /\ DOMAIN fills \in SUBSET (DOMAIN fills)
      BY <1>9
    <3> QED
      BY <1>2, <1>9, <3>1, ServedFacts
  <2>3. \A u \in Nat \ {0} : u # id => LeftOf(d.orders, u, k) = LeftOf(os, u, k)
    BY <2>2 DEF LeftSame
  <2>4. Agree(d.orders, s.book[k], k, id, p)
    BY <1>12, <2>1, <2>3, AgreeStill
  <2> QED
    BY <1>11, <2>4
<1>13. Dealing(d, s, m, r, id)
  BY <1>1, <1>3, <1>7, <1>9, <1>10, <1>11, <1>12 DEF Dealing, TradesMade, OnlyBook
<1>14. PaidFor(d, s, r.fills, id, own, base)
  BY <1>1, <1>3, <1>8 DEF PaidFor, MayPay, Paid, OnlyBook
<1> QED
  BY <1>13, <1>14

\* A limit order that is nobody's here may trade with users' orders, and the
\* accounts follow.
LEMMA ForeignContract ==
  ASSUME NEW s, Whole(s), NEW m \in Markets, NEW owner \in Int, owner <= 0, NEW side \in Side,
         NEW price, NEW qty \in Nat, NEW t, t = Foreign(s, m, owner, side, price, qty)
  PROVE  Follows(t, s)
<1> DEFINE taker == [owner |-> owner, side |-> side, price |-> price, qty |-> qty]
<1>1. PICK os, b, r, k : /\ os = s.orders /\ b = s.book[m] /\ k = taker
                         /\ r = match_limit(s.book[m], Band[m], PoolCap, taker)
  OBVIOUS
<1>2. k.owner = owner /\ k.side = side /\ k.qty = qty
  BY <1>1
<1>3. t = Trades([s EXCEPT !.book[m] = r.book], m, r.fills, owner, owner)
  BY <1>1 DEF Foreign
<1> HIDE DEF taker
<1>4. s \in HandlerState /\ os \in OrderMaps /\ \A j \in Markets : Agree(os, s.book[j], j, 0, 0)
  BY <1>1, StateFields DEF Whole
<1>5. r = Submit("limit", b, Band[m], PoolCap, k)
  BY <1>1 DEF Submit
<1>6. Agree(os, b, m, 0, 0)
  BY <1>1, <1>4
<1>7. Dealt(r, b, PoolCap, k)
  <2>1. BookOK(b) /\ Len(b) <= PoolCap
    BY <1>6 DEF Agree
  <2>2. k.owner \in Int /\ k.side \in Side /\ k.qty \in Nat /\ (k.owner > 0 => Rests(b, k.owner, 0))
    BY <1>2
  <2>3. "limit" \in OrderType /\ Band[m] \in SUBSET Price /\ PoolCap \in Nat
    BY LedgerAssumption DEF OrderType
  <2> QED
    BY <1>5, <2>1, <2>2, <2>3, SubmitContract
<1>8. Sends(os, m, owner, k)
  BY <1>2 DEF Sends
<1>9. SameOrders(os, os)
  BY DEF SameOrders
<1>10. ASSUME NEW j \in Markets, NEW ot, NEW c, Agree(ot, c, j, 0, 0) PROVE Agree(ot, c, j, owner, 0)
  BY <1>10 DEF Agree
<1>11. ASSUME NEW j \in Markets, NEW ot, NEW c, NEW p \in Nat, Agree(ot, c, j, owner, p) PROVE Agree(ot, c, j, 0, 0)
  BY <1>11 DEF Agree
<1>12. Agree(s.orders, s.book[m], m, owner, 0) /\ Dealt(r, s.book[m], PoolCap, k) /\ Sends(s.orders, m, owner, k)
  BY <1>1, <1>6, <1>7, <1>8, <1>10
<1>13. ASSUME NEW own, NEW base PROVE Dealing(t, s, m, r, owner) /\ PaidFor(t, s, r.fills, owner, own, base)
  BY <1>3, <1>4, <1>12, DealingContract
<1>14. Dealing(t, s, m, r, owner)
  BY <1>13
<1>15. t \in HandlerState /\ t.orders \in OrderMaps /\ Served(t.orders, os, m, r.fills, DOMAIN r.fills, owner)
  BY <1>1, <1>14, StateFields DEF Dealing
<1>16. Whole(t)
  <2>1. ASSUME NEW j \in Markets PROVE Agree(t.orders, t.book[j], j, 0, 0)
    <3>1. CASE j = m
      <4>1. PICK p : p = IF r.resting THEN r.left ELSE 0
        OBVIOUS
      <4>2. p \in Nat
        BY <4>1, <1>7 DEF Dealt
      <4>3. Agree(t.orders, t.book[j], j, owner, p)
        BY <1>14, <3>1, <4>1 DEF Dealing
      <4> QED
        BY <1>11, <4>2, <4>3
    <3>2. CASE j # m
      <4>1. Agree(s.orders, s.book[j], j, owner, 0)
        BY <1>1, <1>4, <1>10
      <4>2. Agree(t.orders, t.book[j], j, owner, 0)
        BY <1>14, <3>2, <4>1 DEF Dealing
      <4> QED
        BY <1>11, <4>2
    <3> QED
      BY <3>1, <3>2
  <2> QED
    BY <1>15, <2>1 DEF Whole
<1>17. r.fills \in Seq(Fill)
  BY <1>7 DEF Dealt
<1>18. Len(t.orders) = Len(s.orders) /\ Terms(t.orders) = Terms(s.orders)
  <2>1. DOMAIN r.fills \in SUBSET (DOMAIN r.fills)
    OBVIOUS
  <2>2. Terms(t.orders) = Terms(os)
    BY <1>4, <1>15, <1>17, <2>1, ServedFacts
  <2> QED
    BY <1>1, <1>15, <2>2 DEF Served
<1>19. Grown(t.orders, s.orders, 0)
  <2>1. Grown(t.orders, os, owner)
    BY <1>4, <1>15, ServedGrown
  <2>2. DOMAIN os \in SUBSET (Nat \ {0})
    BY <1>4, OrderMapFacts
  <2> QED
    BY <1>1, <2>1, <2>2 DEF Grown
<1>20. ASSUME NEW base, Settled(s.acct, s.orders, base)
       PROVE  t.failed = s.failed /\ Settled(t.acct, t.orders, base)
  <2>1. owner \notin Slots /\ 0 \notin Slots
    BY SlotsFinite DEF Slots
  <2>2. \A ot : Claims(ot, owner, NoClaim) = Claims(ot, 0, NoClaim)
    BY <2>1, Zenon DEF Claims
  <2>3. MayPay(s, r.fills, owner, NoClaim, base)
    BY <1>20, <2>1, <2>2 DEF MayPay, Settled
  <2>4. Paid(t, s, owner, After(NoClaim, r.fills, DOMAIN r.fills), base)
    BY <1>13, <2>3 DEF PaidFor
  <2>5. PICK own : own = After(NoClaim, r.fills, DOMAIN r.fills)
    OBVIOUS
  <2>6. Claims(t.orders, owner, own) = Claims(t.orders, 0, NoClaim)
    BY <2>1, Zenon DEF Claims
  <2>7. base \in Base
    BY <1>20 DEF Settled
  <2> QED
    BY <1>18, <2>4, <2>5, <2>6, <2>7 DEF Paid, Settled
<1>21. BooksOnward(t, s, 0)
  <2>1. Onward(r.book, b, owner)
    BY <1>2, <1>7 DEF Dealt
  <2>2. \A u : u > 0 => u # owner
    BY <1>2
  <2>3. Onward(r.book, b, 0)
    BY <2>1, <2>2 DEF Onward
  <2> QED
    BY <1>1, <1>4, <1>14, <2>3, OneBookOnward DEF Dealing
<1> QED
  BY <1>14, <1>16, <1>18, <1>19, <1>20, <1>21 DEF Follows, Dealing

-----------------------------------------------------------------------------
(* Plans: the markets as a sequence, and what Plan makes of an allocation.   *)

\* Of two elements of S one comes before the other, and before what that does.
Ranks(R, S) ==
  /\ \A x, y \in S : x # y => <<x, y>> \in R \/ <<y, x>> \in R
  /\ \A x, y, z \in S : <<x, y>> \in R /\ <<y, z>> \in R => <<x, z>> \in R

Leader(R, S, x) == x \in S /\ \A y \in S \ {x} : <<x, y>> \in R

\* One of a finite set comes before all others.
LEMMA OneLeads ==
  ASSUME NEW S, IsFiniteSet(S), S # {}, NEW R, Ranks(R, S)
  PROVE  \E x : Leader(R, S, x)
<1>0. /\ \A x, y \in S : x # y => <<x, y>> \in R \/ <<y, x>> \in R
      /\ \A x, y, z \in S : <<x, y>> \in R /\ <<y, z>> \in R => <<x, z>> \in R
  BY DEF Ranks
<1> DEFINE Leads(x, s) == \A y \in s \ {x} : <<x, y>> \in R
           Good == {s \in SUBSET S : s = {} \/ \E x \in s : Leads(x, s)}
<1>1. ASSUME NEW s \in SUBSET S, \A x \in s : s \ {x} \in Good PROVE s \in Good
  <2>1. CASE s = {}
    BY <2>1
  <2>2. CASE s # {}
    <3>1. PICK x \in s : TRUE
      BY <2>2
    <3>2. CASE s \ {x} = {}
      BY <3>1, <3>2
    <3>3. CASE s \ {x} # {}
      <4>1. PICK m \in s \ {x} : Leads(m, s \ {x})
        BY <1>1, <3>3
      <4>2. CASE <<m, x>> \in R
        <5>1. Leads(m, s)
          BY <4>1, <4>2
        <5> QED
          BY <4>1, <5>1
      <4>3. CASE <<x, m>> \in R
        <5>1. ASSUME NEW y \in s \ {x} PROVE <<x, y>> \in R
          <6>1. CASE y = m
            BY <4>3, <6>1
          <6>2. CASE y # m
            <7>1. <<m, y>> \in R
              BY <4>1, <6>2
            <7>2. x \in S /\ m \in S /\ y \in S
              OBVIOUS
            <7> QED
              BY <1>0, <4>3, <7>1, <7>2
          <6> QED
            BY <6>1, <6>2
        <5>2. Leads(x, s)
          BY <5>1
        <5> QED
          BY <5>2
      <4>4. x \in S /\ m \in S /\ x # m
        OBVIOUS
      <4> QED
        BY <1>0, <4>2, <4>3, <4>4
    <3> QED
      BY <3>2, <3>3
  <2> QED
    BY <2>1, <2>2
<1>2. S \in Good
  <2>1. \A s \in SUBSET S : (\A x \in s : s \ {x} \in Good) => s \in Good
    BY <1>1
  <2> HIDE DEF Good
  <2>2. \A s \in SUBSET S : s \in Good
    BY <2>1, SubsetInduction, ZenonT(60)
  <2> QED
    BY <2>2
<1> QED
  BY <1>2 DEF Leader

Leg == [market : Markets, qty : Nat \ {0}]
QtysOf(p) == [i \in DOMAIN p |-> p[i].qty]

\* A plan for the markets of J, as alloc gives them.
PlanFor(p, alloc, J) ==
  /\ p \in Seq(Leg)
  /\ \A i \in DOMAIN p : \E j \in J : p[i].market = Venues[j]
  /\ \A i, j \in DOMAIN p : i # j => p[i].market # p[j].market
  /\ Sum(QtysOf(p)) = Part(alloc, J)

LEMMA VenuesAre ==
  /\ Len(Venues) \in Nat \ {0} /\ DOMAIN Venues = 1..Len(Venues) /\ IsFiniteSet(DOMAIN Venues)
  /\ \A k \in DOMAIN Venues : Venues[k] \in Markets
  /\ \A j, k \in DOMAIN Venues : Venues[j] = Venues[k] => j = k
<1>1. Venues \in Seq(Range(Venues)) /\ Len(Venues) > 0 /\ IsInjective(Venues)
  BY VenuesAssumption
<1>2. Len(Venues) \in Nat \ {0} /\ DOMAIN Venues = 1..Len(Venues)
  BY <1>1
<1>3. IsFiniteSet(1..Len(Venues))
  BY <1>2, FS_Interval
<1>4. \A k \in DOMAIN Venues : Venues[k] \in Markets
  BY DEF Markets, Range
<1>5. \A j, k \in DOMAIN Venues : Venues[j] = Venues[k] => j = k
  BY <1>1 DEF IsInjective
<1> QED
  BY <1>2, <1>3, <1>4, <1>5

LEMMA NoPlan == ASSUME NEW alloc PROVE PlanFor(<< >>, alloc, {})
<1>1. QtysOf(<< >>) = << >> /\ DOMAIN << >> = {}
  BY DEF QtysOf
<1>2. Sum(QtysOf(<< >>)) = Part(QtysOf(<< >>), {})
  BY <1>1, SumIsPart
<1>3. Sum(QtysOf(<< >>)) = 0 /\ Part(alloc, {}) = 0
  BY <1>2, PartEmpty
<1> QED
  BY <1>3 DEF PlanFor

LEMMA PlanForMore ==
  ASSUME NEW alloc \in [DOMAIN Venues -> Nat], NEW J \in SUBSET (DOMAIN Venues), NEW k \in J,
         NEW p, PlanFor(p, alloc, J \ {k}), NEW z,
         z = IF alloc[k] > 0 THEN Append(p, [market |-> Venues[k], qty |-> alloc[k]]) ELSE p
  PROVE  PlanFor(z, alloc, J)
<1>1. k \in DOMAIN Venues /\ alloc[k] \in Nat /\ Venues[k] \in Markets /\ \A x \in J : alloc[x] \in Int
  BY VenuesAre
<1>2. IsFiniteSet(J)
  BY VenuesAre, FS_Subset
<1>3. Part(alloc, J) = alloc[k] + Part(alloc, J \ {k})
  BY <1>1, <1>2, PartSplit
<1>4. /\ p \in Seq(Leg) /\ \A i \in DOMAIN p : \E j \in J \ {k} : p[i].market = Venues[j]
      /\ \A i, j \in DOMAIN p : i # j => p[i].market # p[j].market
      /\ Sum(QtysOf(p)) = Part(alloc, J \ {k})
  BY DEF PlanFor
<1>5. PICK n, leg, q : n = Len(p) /\ leg = [market |-> Venues[k], qty |-> alloc[k]] /\ q = alloc[k]
  OBVIOUS
<1>6. n \in Nat /\ DOMAIN p = 1..n /\ (\A i \in 1..n : p[i] \in Leg) /\ q \in Nat
  BY <1>1, <1>4, <1>5
<1>7. CASE q > 0
  <2>1. leg \in Leg /\ leg.market = Venues[k] /\ leg.qty = q
    BY <1>1, <1>5, <1>6, <1>7 DEF Leg
  <2>2. z = Append(p, leg)
    BY <1>5, <1>7
  <2>3. /\ z \in Seq(Leg) /\ DOMAIN z = 1..(n + 1) /\ z[n + 1] = leg
        /\ \A i \in 1..n : z[i] = p[i]
    BY <1>4, <1>5, <1>6, <2>1, <2>2
  <2>4. \A i \in 1..n : z[i].market # Venues[k] /\ \E j \in J : z[i].market = Venues[j]
    <3> TAKE i \in 1..n
    <3>1. PICK j \in J \ {k} : p[i].market = Venues[j]
      BY <1>4, <1>6
    <3>2. j \in DOMAIN Venues /\ j # k
      OBVIOUS
    <3> QED
      BY <1>1, <2>3, <3>1, <3>2, VenuesAre
  <2>5. \A i \in 1..(n + 1) : i \in 1..n \/ i = n + 1
    BY <1>6
  <2>6. \A i \in DOMAIN z : \E j \in J : z[i].market = Venues[j]
    BY <2>1, <2>3, <2>4, <2>5
  <2>7. \A i, j \in DOMAIN z : i # j => z[i].market # z[j].market
    BY <1>4, <1>6, <2>1, <2>3, <2>4, <2>5
  <2>8. Sum(QtysOf(z)) = Sum(QtysOf(p)) + q
    <3> DEFINE a == QtysOf(p)
               b == QtysOf(z)
    <3>1. DOMAIN a = 1..n /\ DOMAIN b = 1..(n + 1)
      BY <1>6, <2>3 DEF QtysOf
    <3>2. \A i \in 1..n : a[i] \in Int /\ b[i] = a[i]
      <4> TAKE i \in 1..n
      <4>1. i \in DOMAIN p /\ i \in DOMAIN z /\ p[i] \in Leg /\ z[i] = p[i]
        BY <1>6, <2>3
      <4>2. p[i].qty \in Int
        BY <4>1 DEF Leg
      <4> QED
        BY <4>1, <4>2 DEF QtysOf
    <3>3. b[n + 1] = q /\ q \in Int
      BY <1>6, <2>1, <2>3 DEF QtysOf
    <3> HIDE DEF a, b
    <3>4. Part(b, 1..(n + 1)) = Part(a, 1..n) + b[n + 1]
      BY <1>6, <3>2, <3>3, PartNext
    <3>5. Sum(a) = Part(a, 1..n) /\ Sum(b) = Part(b, 1..(n + 1))
      BY <3>1, SumIsPart
    <3>6. Sum(b) = Sum(a) + q
      BY <3>3, <3>4, <3>5
    <3> QED
      BY <3>6 DEF a, b
  <2>9. Part(alloc, J \ {k}) \in Int
    <3>1. IsFiniteSet(J \ {k})
      BY <1>2, FS_Subset
    <3> QED
      BY <1>1, <3>1, PartType
  <2>10. Sum(QtysOf(z)) = Part(alloc, J)
    BY <1>3, <1>4, <1>5, <1>6, <2>8, <2>9
  <2> QED
    BY <2>3, <2>6, <2>7, <2>10 DEF PlanFor
<1>8. CASE ~(q > 0)
  <2>1. q = 0 /\ z = p
    BY <1>5, <1>6, <1>8
  <2>2. Part(alloc, J \ {k}) \in Int
    <3>1. IsFiniteSet(J \ {k})
      BY <1>2, FS_Subset
    <3> QED
      BY <1>1, <3>1, PartType
  <2>3. Part(alloc, J) = Part(alloc, J \ {k})
    BY <1>3, <1>5, <2>1, <2>2
  <2> QED
    BY <1>4, <2>1, <2>3 DEF PlanFor
<1> QED
  BY <1>7, <1>8

LEMMA PlanMade ==
  ASSUME NEW alloc \in [DOMAIN Venues -> Nat]
  PROVE  PlanFor(Plan(alloc), alloc, DOMAIN Venues)
<1> DEFINE n == Len(Venues)
           f == [k \in DOMAIN Venues |-> k]
           both(p, k) == IF alloc[k] > 0 THEN Append(p, [market |-> Venues[k], qty |-> alloc[k]])
                                         ELSE p
           St == Seq(Leg)
           F == [k \in 1..n |-> [t \in St |-> both(t, f[k])]]
           T == [J \in SUBSET (1..n) |-> {t \in St : PlanFor(t, alloc, J)}]
           Runs(h) == h = [J \in SUBSET (1..n) |->
                             IF J = {} THEN << >> ELSE both(h[J \ {Max(J)}], f[Max(J)])]
<1>0. n \in Nat /\ DOMAIN Venues = 1..n /\ DOMAIN f = 1..n /\ \A k \in 1..n : f[k] = k
  BY VenuesAre
<1>1. << >> \in T[{}]
  <2>1. PlanFor(<< >>, alloc, {}) /\ << >> \in St
    BY NoPlan
  <2> QED
    BY <2>1
<1>2. ASSUME NEW J \in SUBSET (1..n), NEW k \in J, NEW t \in T[J \ {k}]
      PROVE  both(t, f[k]) \in T[J] /\ F[k][t] = both(t, f[k])
  <2>1. J \ {k} \in SUBSET (1..n) /\ k \in 1..n /\ f[k] = k /\ J \in SUBSET (DOMAIN Venues)
    BY <1>0
  <2>2. t \in St /\ PlanFor(t, alloc, J \ {k})
    BY <2>1
  <2>3. PICK z : z = both(t, f[k])
    <3> HIDE DEF both
    <3> QED
      OBVIOUS
  <2>4. PlanFor(z, alloc, J)
    <3>1. z = IF alloc[k] > 0 THEN Append(t, [market |-> Venues[k], qty |-> alloc[k]]) ELSE t
      BY <2>1, <2>3
    <3> QED
      BY <2>1, <2>2, <3>1, PlanForMore
  <2>5. z \in St
    BY <2>4 DEF PlanFor
  <2> HIDE DEF both
  <2>6. z \in T[J]
    BY <2>4, <2>5
  <2> QED
    BY <2>1, <2>2, <2>3, <2>6
<1> HIDE DEF both, F, T, St, n, f
<1>3. PICK g : /\ LeftFold(g, n, F, << >>)
               /\ \A J \in SUBSET (1..n) : J # {} => Max(J) \in J /\ g[J \ {Max(J)}] \in T[J \ {Max(J)}]
  <2>1. \A J \in SUBSET (1..n) : \A k \in J : \A t \in T[J \ {k}] : F[k][t] \in T[J]
    BY <1>2
  <2> QED
    BY <1>0, <1>1, <2>1, FoldLeftRuns
<1>5. Runs(g)
  <2>1. \A J \in SUBSET (1..n) : J # {} => F[Max(J)][g[J \ {Max(J)}]] = both(g[J \ {Max(J)}], f[Max(J)])
    BY <1>2, <1>3
  <2> QED
    BY <1>3, <2>1 DEF LeftFold
<1> DEFINE w == CHOOSE h : Runs(h)
<1>6. Runs(w)
  <2> HIDE DEF Runs
  <2> QED
    BY <1>5
<1>7. Plan(alloc) = w[1..n]
  BY <1>0 DEF Plan, FoldLeft, MapThenFoldSet, both, f
<1> HIDE DEF w
<1>8. \A J \in SUBSET (1..n) : w[J] \in T[J]
  <2>1. w[{}] \in T[{}]
    BY <1>1, <1>6
  <2>2. ASSUME NEW J \in SUBSET (1..n), J # {}, Max(J) \in J, w[J \ {Max(J)}] \in T[J \ {Max(J)}]
        PROVE  w[J] \in T[J]
    <3>1. w[J] = both(w[J \ {Max(J)}], f[Max(J)])
      BY <1>6, <2>2
    <3> HIDE DEF Runs
    <3> QED
      BY <1>2, <2>2, <3>1
  <2> QED
    BY <1>0, <2>1, <2>2, FoldLeftTypes
<1>9. w[1..n] \in T[1..n]
  BY <1>8
<1>10. PlanFor(w[1..n], alloc, 1..n)
  BY <1>9 DEF T
<1> QED
  BY <1>0, <1>7, <1>10

\* Any allocation of the whole quantity is a plan omap_register takes.
LEMMA PlanValid ==
  ASSUME NEW alloc \in [DOMAIN Venues -> Nat], NEW qty \in Nat \ {0}, Sum(alloc) = qty
  PROVE  plan_validate(Plan(alloc), qty)
<1>1. PICK p : p = Plan(alloc)
  OBVIOUS
<1>2. PlanFor(p, alloc, DOMAIN Venues)
  BY <1>1, PlanMade
<1>3. DOMAIN alloc = DOMAIN Venues
  OBVIOUS
<1>4. /\ p \in Seq(Leg) /\ \A i, j \in DOMAIN p : i # j => p[i].market # p[j].market
      /\ Sum(QtysOf(p)) = qty
  BY <1>2, <1>3, SumIsPart DEF PlanFor
<1>5. p # << >>
  <2>1. SUFFICES ASSUME p = << >> PROVE FALSE
    OBVIOUS
  <2>2. DOMAIN QtysOf(p) = {}
    BY <2>1 DEF QtysOf
  <2>3. Sum(QtysOf(p)) = 0
    BY <2>2, SumIsPart, PartEmpty
  <2> QED
    BY <1>4, <2>3
<1> QED
  BY <1>1, <1>4, <1>5 DEF plan_validate, Leg, QtysOf

LEMMA AllToAdds ==
  ASSUME NEW k \in DOMAIN Venues, NEW qty \in Nat
  PROVE  AllTo(k, qty) \in [DOMAIN Venues -> Nat] /\ Sum(AllTo(k, qty)) = qty
<1>1. PICK f : f = AllTo(k, qty)
  OBVIOUS
<1>2. f \in [DOMAIN Venues -> Nat] /\ f[k] = qty /\ \A j \in DOMAIN Venues \ {k} : f[j] = 0
  BY <1>1 DEF AllTo
<1>3. IsFiniteSet(DOMAIN Venues) /\ IsFiniteSet(DOMAIN Venues \ {k})
  BY VenuesAre, FS_Subset
<1>4. Part(f, DOMAIN Venues) = f[k] + Part(f, DOMAIN Venues \ {k})
  BY <1>2, <1>3, PartSplit
<1>5. Part(f, DOMAIN Venues \ {k}) = 0
  BY <1>2, <1>3, PartZero
<1>6. Sum(f) = qty
  BY <1>2, <1>4, <1>5, SumIsPart
<1> QED
  BY <1>1, <1>2, <1>6

-----------------------------------------------------------------------------
(* Quotes, and the choice of one market: where a rest waits, and the best.   *)

\* What a strategy may be asked, and where.
RequestIs(r) == r.side \in Side /\ r.price \in Nat \ {0} /\ r.qty \in Nat \ {0}
BooksAre(books) == \A m \in Markets : BookOK(books[m])

LEMMA BookAt ==
  ASSUME NEW books, BooksAre(books), NEW k \in DOMAIN Venues
  PROVE  BookOK(books[Venues[k]])
  BY VenuesAre DEF BooksAre

LEMMA MinIsOne ==
  ASSUME NEW S, IsFiniteSet(S), S \subseteq Int, S # {}
  PROVE  Min(S) \in S
<1>1. PICK R : R = {p \in S \X S : p[1] < p[2]}
  OBVIOUS
<1>2. \A x, y \in S : <<x, y>> \in R <=> x < y
  BY <1>1
<1>3. \A x, y \in S : x # y => <<x, y>> \in R \/ <<y, x>> \in R
  BY <1>2
<1>4. \A x, y, z \in S : <<x, y>> \in R /\ <<y, z>> \in R => <<x, z>> \in R
  BY <1>2
<1>5. PICK x : Leader(R, S, x)
  <2>1. Ranks(R, S)
    BY <1>3, <1>4 DEF Ranks
  <2> QED
    BY <2>1, OneLeads
<1>6. x \in S /\ \A y \in S : x <= y
  <2>1. x \in S /\ \A y \in S \ {x} : x < y
    BY <1>2, <1>5 DEF Leader
  <2>2. x \in Int /\ S \subseteq Int
    BY <2>1
  <2>3. \A y \in S : y \in S \ {x} \/ y = x
    OBVIOUS
  <2> QED
    BY <2>1, <2>2, <2>3
<1> QED
  BY <1>6 DEF Min

LEMMA BestIs ==
  ASSUME NEW b, BookOK(b), NEW side
  PROVE  /\ Best(b, side) \in Nat
         /\ (\E i \in DOMAIN b : b[i].side = side) => Best(b, side) # NoPrice
<1>1. PICK Q : Q = Quotes(b, side)
  OBVIOUS
<1>2. b \in Seq(BookOrder) /\ \A i \in DOMAIN b : b[i] \in BookOrder
  BY DEF BookOK
<1>3. Q \subseteq Price
  BY <1>1, <1>2 DEF Quotes, BookOrder
<1>4. Price \subseteq Nat \ {0} /\ IsFiniteSet(Price)
  BY MaxPriceAssumption, FS_Interval DEF Price
<1>5. IsFiniteSet(Q) /\ Q \subseteq Int
  <2>1. Price \subseteq Int
    BY <1>4
  <2> QED
    BY <1>3, <1>4, <2>1, FS_Subset
<1>6. (\E i \in DOMAIN b : b[i].side = side) => Q # {}
  BY <1>1 DEF Quotes
<1>7. CASE Q = {}
  <2>1. Best(b, side) = 0
    BY <1>1, <1>7 DEF Best, NoPrice
  <2> QED
    BY <1>6, <1>7, <2>1
<1>8. CASE Q # {}
  <2>1. Max(Q) \in Q /\ Min(Q) \in Q
    BY <1>5, <1>8, MaxIsOne, MinIsOne
  <2>2. Best(b, side) \in Q
    BY <1>1, <1>8, <2>1 DEF Best
  <2> QED
    BY <1>3, <1>4, <2>2 DEF NoPrice
<1> QED
  BY <1>7, <1>8

\* The quotes a taker would meet, market by market.
QuotesOf(books, r) == [k \in DOMAIN Venues |-> QuoteAt(books, r, k)]

LEMMA QuotesAre ==
  ASSUME NEW books, BooksAre(books), NEW r
  PROVE  QuotesOf(books, r) \in [DOMAIN Venues -> Nat]
  BY BookAt, BestIs DEF QuotesOf, QuoteAt

LEMMA RestingIs ==
  ASSUME NEW books, BooksAre(books), NEW r
  PROVE  plan_resting_market(books, r) \in DOMAIN Venues
<1> DEFINE q == QuotesOf(books, r)
           D == DOMAIN Venues
           beats(j, k) == q[j] # 0 /\ (q[k] = 0 \/ Nearer(r.side, q[j], q[k]))
           R == {p \in D \X D : beats(p[1], p[2]) \/ (~beats(p[2], p[1]) /\ p[1] < p[2])}
<1>1. q \in [D -> Nat] /\ D \subseteq Nat /\ IsFiniteSet(D) /\ D # {}
  BY QuotesAre, VenuesAre
<1> HIDE DEF q
<1>2. \A x, y \in D : <<x, y>> \in R <=> beats(x, y) \/ (~beats(y, x) /\ x < y)
  OBVIOUS
<1>3. \A x, y \in D : x # y => <<x, y>> \in R \/ <<y, x>> \in R
  <2> TAKE x, y \in D
  <2>1. x \in Nat /\ y \in Nat
    BY <1>1
  <2> HIDE DEF R, beats
  <2> QED
    BY <1>2, <2>1
<1>4. \A x, y, z \in D : <<x, y>> \in R /\ <<y, z>> \in R => <<x, z>> \in R
  <2> SUFFICES ASSUME NEW x \in D, NEW y \in D, NEW z \in D, <<x, y>> \in R, <<y, z>> \in R
               PROVE  <<x, z>> \in R
    OBVIOUS
  <2>1. PICK a, b, c : a = q[x] /\ b = q[y] /\ c = q[z]
    OBVIOUS
  <2>2. a \in Nat /\ b \in Nat /\ c \in Nat /\ x \in Nat /\ y \in Nat /\ z \in Nat
    BY <1>1, <2>1
  <2>3. CASE r.side = "buy"
    BY <1>2, <2>1, <2>2, <2>3 DEF Nearer
  <2>4. CASE r.side # "buy"
    BY <1>2, <2>1, <2>2, <2>4 DEF Nearer
  <2> QED
    BY <2>3, <2>4
<1>5. PICK x : x \in D /\ \A y \in D \ {x} : <<x, y>> \in R
  <2> HIDE DEF R, D
  <2>1. Ranks(R, D)
    BY <1>3, <1>4 DEF Ranks
  <2>2. PICK x : Leader(R, D, x)
    BY <1>1, <2>1, OneLeads
  <2> QED
    BY <2>2 DEF Leader
<1>6. \A y \in D \ {x} : ~beats(y, x) /\ (y < x => beats(x, y))
  <2> TAKE y \in D \ {x}
  <2>1. beats(x, y) \/ (~beats(y, x) /\ x < y)
    BY <1>2, <1>5
  <2>2. PICK a, b : a = q[x] /\ b = q[y]
    OBVIOUS
  <2>3. a \in Nat /\ b \in Nat /\ x \in Nat /\ y \in Nat
    BY <1>1, <1>5, <2>2
  <2> QED
    BY <2>1, <2>2, <2>3 DEF Nearer
<1>7. plan_resting_market(books, r)
        = CHOOSE k \in D : \A j \in D \ {k} : ~beats(j, k) /\ (j < k => beats(k, j))
  BY DEF plan_resting_market, q, QuotesOf, NoPrice
<1> HIDE DEF beats, D, R
<1>8. plan_resting_market(books, r) \in D
  BY <1>5, <1>6, <1>7
<1> QED
  BY <1>8 DEF D

LEMMA FirstBestIs ==
  ASSUME NEW E \in SUBSET Nat, IsFiniteSet(E), E # {},
         NEW rated, DOMAIN rated = E, \A k \in E : rated[k].score \in Int /\ rated[k].qty \in Int
  PROVE  FirstBest(rated) \in E
<1> DEFINE s == [k \in E |-> rated[k].score]
           q == [k \in E |-> rated[k].qty]
           beats(j, k) == s[j] > s[k] \/ (s[j] = s[k] /\ q[j] > q[k])
           R == {p \in E \X E : beats(p[1], p[2]) \/ (~beats(p[2], p[1]) /\ p[1] < p[2])}
<1>1. s \in [E -> Int] /\ q \in [E -> Int]
  OBVIOUS
<1>0. FirstBest(rated)
        = CHOOSE k \in E : \A j \in E \ {k} : ~beats(j, k) /\ (j < k => beats(k, j))
  BY DEF FirstBest
<1> HIDE DEF s, q
<1>2. \A x, y \in E : <<x, y>> \in R <=> beats(x, y) \/ (~beats(y, x) /\ x < y)
  OBVIOUS
<1>3. \A x, y \in E : x # y => <<x, y>> \in R \/ <<y, x>> \in R
  <2> TAKE x, y \in E
  <2> HIDE DEF R, beats
  <2> QED
    BY <1>2
<1>4. \A x, y, z \in E : <<x, y>> \in R /\ <<y, z>> \in R => <<x, z>> \in R
  <2> SUFFICES ASSUME NEW x \in E, NEW y \in E, NEW z \in E, <<x, y>> \in R, <<y, z>> \in R
               PROVE  <<x, z>> \in R
    OBVIOUS
  <2>1. PICK a, b, c, d, e, f : /\ a = s[x] /\ b = s[y] /\ c = s[z]
                                /\ d = q[x] /\ e = q[y] /\ f = q[z]
    OBVIOUS
  <2>2. /\ a \in Int /\ b \in Int /\ c \in Int /\ d \in Int /\ e \in Int /\ f \in Int
        /\ x \in Nat /\ y \in Nat /\ z \in Nat
    BY <1>1, <2>1
  <2> QED
    BY <1>2, <2>1, <2>2
<1>5. PICK x : x \in E /\ \A y \in E \ {x} : <<x, y>> \in R
  <2> HIDE DEF R
  <2>1. Ranks(R, E)
    BY <1>3, <1>4 DEF Ranks
  <2>2. PICK x : Leader(R, E, x)
    BY <2>1, OneLeads
  <2> QED
    BY <2>2 DEF Leader
<1>6. \A y \in E \ {x} : ~beats(y, x) /\ (y < x => beats(x, y))
  <2> TAKE y \in E \ {x}
  <2>1. beats(x, y) \/ (~beats(y, x) /\ x < y)
    BY <1>2, <1>5
  <2>2. PICK a, b, c, d : a = s[x] /\ b = s[y] /\ c = q[x] /\ d = q[y]
    OBVIOUS
  <2>3. a \in Int /\ b \in Int /\ c \in Int /\ d \in Int /\ x \in Nat /\ y \in Nat
    BY <1>1, <1>5, <2>2
  <2> QED
    BY <2>1, <2>2, <2>3
<1> HIDE DEF beats, R
<1> QED
  BY <1>0, <1>5, <1>6

\* What a market offers within the limit.
LEMMA OfferIs ==
  ASSUME NEW b, BookOK(b), NEW side, NEW limit
  PROVE  /\ book_qty_up_to(b, side, limit) \in Nat
         /\ book_qty_up_to(b, side, limit) > 0 => \E i \in DOMAIN b : b[i].side = Opposite(side)
<1>1. PICK M : M = Makers(b, side, limit)
  OBVIOUS
<1>2. PICK f : f = [i \in DOMAIN b |-> IF i \in M THEN Rem(b[i]) ELSE 0]
  OBVIOUS
<1>3. b \in Seq(BookOrder) /\ (\A i \in DOMAIN b : Rem(b[i]) > 0) /\ \A i \in DOMAIN b : b[i] \in BookOrder
  BY DEF BookOK
<1>4. IsFiniteSet(DOMAIN b)
  BY <1>3, IndicesFinite
<1>5. \A i \in DOMAIN b : Rem(b[i]) \in Nat
  BY <1>3 DEF BookOrder, Rem
<1>6. DOMAIN f = DOMAIN b /\ \A i \in DOMAIN b : f[i] \in Nat
  BY <1>2, <1>5
<1>7. book_qty_up_to(b, side, limit) = Part(f, DOMAIN b)
  BY <1>1, <1>2, <1>6, SumIsPart DEF book_qty_up_to
<1>8. Part(f, DOMAIN b) \in Nat
  BY <1>4, <1>6, PartNat
<1>9. ASSUME ~\E i \in DOMAIN b : b[i].side = Opposite(side) PROVE Part(f, DOMAIN b) = 0
  <2>1. \A i \in DOMAIN b : i \notin M
    BY <1>1, <1>9 DEF Makers
  <2>2. \A i \in DOMAIN b : f[i] = 0
    BY <1>2, <2>1
  <2> QED
    BY <1>4, <2>2, PartZero
<1> QED
  BY <1>7, <1>8, <1>9

LEMMA FillableIs ==
  ASSUME NEW b, BookOK(b), NEW r, RequestIs(r)
  PROVE  /\ Fillable(b, r) \in Nat
         /\ Fillable(b, r) > 0 => \E i \in DOMAIN b : b[i].side = Opposite(r.side)
<1>1. PICK a, q : a = book_qty_up_to(b, r.side, r.price) /\ q = r.qty
  OBVIOUS
<1>2. a \in Nat /\ q \in Nat \ {0} /\ (a > 0 => \E i \in DOMAIN b : b[i].side = Opposite(r.side))
  BY <1>1, OfferIs DEF RequestIs
<1>3. Fillable(b, r) = IF a < q THEN a ELSE q
  BY <1>1 DEF Fillable
<1> QED
  BY <1>2, <1>3

LEMMA EligibleAre ==
  ASSUME NEW books, BooksAre(books), NEW r, RequestIs(r)
  PROVE  /\ Eligible(books, r) \in SUBSET Nat /\ IsFiniteSet(Eligible(books, r))
         /\ \A k \in Eligible(books, r) : /\ k \in DOMAIN Venues
                                          /\ QuotesOf(books, r)[k] \in Nat \ {0}
                                          /\ Fillable(books[Venues[k]], r) \in Nat
<1>1. Eligible(books, r) \subseteq DOMAIN Venues
  BY DEF Eligible
<1>2. DOMAIN Venues \subseteq Nat /\ IsFiniteSet(DOMAIN Venues)
  BY VenuesAre
<1>3. IsFiniteSet(Eligible(books, r))
  BY <1>1, <1>2, FS_Subset
<1>4. ASSUME NEW k \in Eligible(books, r)
      PROVE  /\ k \in DOMAIN Venues /\ QuotesOf(books, r)[k] \in Nat \ {0}
             /\ Fillable(books[Venues[k]], r) \in Nat
  <2>1. PICK b : b = books[Venues[k]]
    OBVIOUS
  <2>2. k \in DOMAIN Venues /\ BookOK(b) /\ Fillable(b, r) > 0
    BY <2>1, BookAt DEF Eligible
  <2>3. Fillable(b, r) \in Nat /\ \E i \in DOMAIN b : b[i].side = Opposite(r.side)
    BY <2>2, FillableIs
  <2>4. Best(b, Opposite(r.side)) \in Nat /\ Best(b, Opposite(r.side)) # 0
    BY <2>2, <2>3, BestIs DEF NoPrice
  <2>5. QuotesOf(books, r)[k] = Best(b, Opposite(r.side))
    BY <2>1, <2>2 DEF QuotesOf, QuoteAt
  <2> QED
    BY <2>1, <2>2, <2>3, <2>4, <2>5
<1> QED
  BY <1>1, <1>2, <1>3, <1>4

LEMMA ClampIs == ASSUME NEW v \in Int PROVE clamp_score(v) \in Int
  BY DEF clamp_score

LEMMA DisadvantageIs ==
  ASSUME NEW x \in Int, NEW y \in Nat \ {0}
  PROVE  disadvantage_bp(x, y) \in Int
<1>1. PICK v : v = (x - y) * 10000
  OBVIOUS
<1>2. v \in Int
  BY <1>1
<1>3. v \div y \in Int
  BY <1>2
<1> QED
  BY <1>1, <1>3 DEF disadvantage_bp

\* The best quote is one of a market that is eligible.
LEMMA BestQuoteIs ==
  ASSUME NEW books, BooksAre(books), NEW r, RequestIs(r), Eligible(books, r) # {}
  PROVE  BestQuote(books, r) \in Nat \ {0}
<1>1. PICK E, q : E = Eligible(books, r) /\ q = QuotesOf(books, r)
  OBVIOUS
<1>2. IsFiniteSet(E) /\ E # {} /\ (\A k \in E : k \in DOMAIN Venues /\ q[k] \in Nat \ {0})
  BY <1>1, EligibleAre
<1>3. PICK R : R = {p \in E \X E : ~Nearer(r.side, q[p[2]], q[p[1]])}
  OBVIOUS
<1>4. \A x, y \in E : <<x, y>> \in R <=> ~Nearer(r.side, q[y], q[x])
  BY <1>3
<1>5. ASSUME NEW x \in E, NEW y \in E PROVE <<x, y>> \in R \/ <<y, x>> \in R
  <2>1. PICK u, v : u = q[x] /\ v = q[y]
    OBVIOUS
  <2>2. u \in Nat /\ v \in Nat
    BY <1>2, <2>1
  <2>3. ~Nearer(r.side, v, u) \/ ~Nearer(r.side, u, v)
    BY <2>2 DEF Nearer
  <2> QED
    BY <1>4, <2>1, <2>3
<1>6. ASSUME NEW x \in E, NEW y \in E, NEW z \in E, <<x, y>> \in R, <<y, z>> \in R
      PROVE  <<x, z>> \in R
  <2>1. PICK u, v, w : u = q[x] /\ v = q[y] /\ w = q[z]
    OBVIOUS
  <2>2. u \in Nat /\ v \in Nat /\ w \in Nat
    BY <1>2, <2>1
  <2>3. ~Nearer(r.side, v, u) /\ ~Nearer(r.side, w, v)
    BY <1>4, <1>6, <2>1
  <2>4. ~Nearer(r.side, w, u)
    BY <2>2, <2>3 DEF Nearer
  <2> QED
    BY <1>4, <2>1, <2>4
<1>7. Ranks(R, E)
  BY <1>5, <1>6 DEF Ranks
<1>8. PICK x : Leader(R, E, x)
  BY <1>2, <1>7, OneLeads
<1>9. x \in E /\ \A y \in E : ~Nearer(r.side, q[y], q[x])
  <2>1. x \in E /\ \A y \in E \ {x} : <<x, y>> \in R
    BY <1>8 DEF Leader
  <2>2. PICK u : u = q[x]
    OBVIOUS
  <2>3. ~Nearer(r.side, q[x], q[x])
    BY <1>2, <2>1, <2>2 DEF Nearer
  <2> QED
    BY <1>4, <2>1, <2>3
<1>10. \A k \in E : QuoteAt(books, r, k) = q[k]
  BY <1>1, <1>2 DEF QuotesOf
<1>11. PICK f : f = CHOOSE j \in E : \A i \in E : ~Nearer(r.side, QuoteAt(books, r, i), QuoteAt(books, r, j))
  OBVIOUS
<1>12. \E j \in E : \A i \in E : ~Nearer(r.side, QuoteAt(books, r, i), QuoteAt(books, r, j))
  BY <1>9, <1>10
<1>13. f \in E
  BY <1>11, <1>12
<1>14. BestQuote(books, r) = QuoteAt(books, r, f)
  BY <1>1, <1>11 DEF BestQuote
<1> QED
  BY <1>2, <1>10, <1>13, <1>14

LEMMA PriceScoreIs ==
  ASSUME NEW x \in Nat \ {0}, NEW y \in Nat \ {0}, NEW side
  PROVE  price_score(x, y, side) \in Int
<1>1. PICK d : d = IF side = "buy" THEN disadvantage_bp(x, y) ELSE disadvantage_bp(y, x)
  OBVIOUS
<1>2. d \in Int
  BY <1>1, DisadvantageIs
<1>3. 10000 - 100 * d \in Int
  BY <1>2
<1>4. price_score(x, y, side) = clamp_score(10000 - 100 * d)
  BY <1>1 DEF price_score
<1> QED
  BY <1>3, <1>4, ClampIs

LEMMA StateScoreIs ==
  ASSUME NEW b, BookOK(b), NEW own \in Nat \ {0}
  PROVE  state_score(b, own) \in Int
<1>1. PICK s : s = Spread(b)
  OBVIOUS
<1>2. Best(b, "buy") \in Int /\ Best(b, "sell") \in Int
  BY BestIs
<1>3. s \in Int
  BY <1>1, <1>2 DEF Spread
<1>4. PICK v : v = s * 10000
  OBVIOUS
<1>5. v \in Int
  BY <1>3, <1>4
<1>6. PICK w : w = v \div own
  OBVIOUS
<1>7. w \in Int
  BY <1>5, <1>6
<1>8. 10000 - 20 * w \in Int
  BY <1>7
<1>9. state_score(b, own) = clamp_score(10000 - 20 * w)
  BY <1>1, <1>4, <1>6 DEF state_score
<1> QED
  BY <1>8, <1>9, ClampIs

LEMMA ScoreIs ==
  ASSUME NEW books, BooksAre(books), NEW r, RequestIs(r), NEW k \in Eligible(books, r)
  PROVE  be_evaluate(books, r, k) \in Int
<1>1. PICK b, own : b = books[Venues[k]] /\ own = QuoteAt(books, r, k)
  OBVIOUS
<1>2. k \in DOMAIN Venues /\ QuotesOf(books, r)[k] \in Nat \ {0} /\ Fillable(books[Venues[k]], r) \in Nat
  BY EligibleAre
<1>3. own \in Nat \ {0} /\ BookOK(b)
  BY <1>1, <1>2, BookAt DEF QuotesOf
<1>4. BestQuote(books, r) \in Nat \ {0}
  BY BestQuoteIs
<1>5. PICK c, d, e : /\ c = price_score(own, BestQuote(books, r), r.side)
                     /\ d = clamp_score(10000 - 100 * FeeBp(k)) /\ e = state_score(b, own)
  OBVIOUS
<1>6. c \in Int /\ e \in Int
  BY <1>3, <1>4, <1>5, PriceScoreIs, StateScoreIs
<1>7. d \in Int
  <2>1. 10000 - 100 * FeeBp(k) \in Int
    BY DEF FeeBp
  <2> QED
    BY <1>5, <2>1, ClampIs
<1>8. PICK v, w : v = Fillable(b, r) * 10000 /\ w = v \div r.qty
  OBVIOUS
<1>9. w \in Int
  <2>1. v \in Int /\ r.qty \in Nat \ {0}
    BY <1>1, <1>2, <1>8 DEF RequestIs
  <2> QED
    BY <1>8, <2>1
<1>10. (40 * c + 30 * w + 20 * d + 10 * e) \div 100 \in Int
  BY <1>6, <1>7, <1>9
<1>11. be_evaluate(books, r, k) = clamp_score((40 * c + 30 * w + 20 * d + 10 * e) \div 100)
  BY <1>1, <1>5, <1>8 DEF be_evaluate, Weight
<1> QED
  BY <1>10, <1>11, ClampIs

\* Best execution picks an eligible market.
LEMMA PickIs ==
  ASSUME NEW books, BooksAre(books), NEW r, RequestIs(r), Eligible(books, r) # {}
  PROVE  be_pick(books, r) \in DOMAIN Venues
<1>1. PICK E : E = Eligible(books, r)
  OBVIOUS
<1>2. PICK rated : rated = [k \in E |-> [score |-> be_evaluate(books, r, k),
                                         qty   |-> Fillable(books[Venues[k]], r)]]
  OBVIOUS
<1>3. E \in SUBSET Nat /\ IsFiniteSet(E) /\ E # {} /\ DOMAIN rated = E
  BY <1>1, <1>2, EligibleAre
<1>4. \A k \in E : be_evaluate(books, r, k) \in Int /\ Fillable(books[Venues[k]], r) \in Int
  BY <1>1, EligibleAre, ScoreIs
<1>5. \A k \in E : rated[k].score \in Int /\ rated[k].qty \in Int
  BY <1>2, <1>4
<1>6. FirstBest(rated) \in E
  BY <1>3, <1>5, FirstBestIs
<1>7. be_pick(books, r) = FirstBest(rated)
  BY <1>1, <1>2 DEF be_pick
<1> QED
  BY <1>1, <1>6, <1>7, EligibleAre

LEMMA BestPriceAdds ==
  ASSUME NEW books, BooksAre(books), NEW r, RequestIs(r)
  PROVE  best_price(books, r) \in [DOMAIN Venues -> Nat] /\ Sum(best_price(books, r)) = r.qty
<1>1. PICK k : k = IF Eligible(books, r) = {} THEN plan_resting_market(books, r) ELSE be_pick(books, r)
  OBVIOUS
<1>2. k \in DOMAIN Venues
  BY <1>1, PickIs, RestingIs
<1>3. best_price(books, r) = AllTo(k, r.qty)
  BY <1>1 DEF best_price
<1> QED
  BY <1>2, <1>3, AllToAdds DEF RequestIs

LEMMA KrxOnlyAdds ==
  ASSUME NEW r, RequestIs(r)
  PROVE  krx_only(r) \in [DOMAIN Venues -> Nat] /\ Sum(krx_only(r)) = r.qty
<1>1. 1 \in DOMAIN Venues
  BY VenuesAre
<1> QED
  BY <1>1, AllToAdds DEF krx_only, RequestIs

-----------------------------------------------------------------------------
(* The consolidated book, and the sweep of it.                              *)

ViewLevel == [price : Price, qty : Nat \ {0}, rank : DOMAIN Venues]

LEMMA LevelQtyIs ==
  ASSUME NEW b, BookOK(b), NEW side, NEW p
  PROVE  LevelQty(b, side, p) \in Nat
<1>1. PICK f : f = [i \in DOMAIN b |-> IF b[i].side = side /\ b[i].price = p THEN Rem(b[i]) ELSE 0]
  OBVIOUS
<1>2. b \in Seq(BookOrder) /\ (\A i \in DOMAIN b : Rem(b[i]) > 0) /\ \A i \in DOMAIN b : b[i] \in BookOrder
  BY DEF BookOK
<1>3. \A i \in DOMAIN b : Rem(b[i]) \in Nat
  BY <1>2 DEF BookOrder, Rem
<1>4. IsFiniteSet(DOMAIN b) /\ DOMAIN f = DOMAIN b /\ \A i \in DOMAIN b : f[i] \in Nat
  BY <1>1, <1>2, <1>3, IndicesFinite
<1>5. LevelQty(b, side, p) = Part(f, DOMAIN b)
  BY <1>1, <1>4, SumIsPart DEF LevelQty
<1> QED
  BY <1>4, <1>5, PartNat

LEMMA LevelsAre ==
  ASSUME NEW books, BooksAre(books), NEW side
  PROVE  IsFiniteSet(Levels(books, side)) /\ Levels(books, side) \subseteq ViewLevel
<1> DEFINE K == (DOMAIN Venues) \X Price
           at == [x \in K |-> LevelAt(books, side, x[1], x[2])]
           T == {at[x] : x \in K}
<1>1. IsFiniteSet(K)
  <2>1. IsFiniteSet(DOMAIN Venues) /\ IsFiniteSet(Price)
    BY VenuesAre, MaxPriceAssumption, FS_Interval DEF Price
  <2> QED
    BY <2>1, FS_Product
<1>2. IsFiniteSet(T)
  <2>1. at \in Surjection(K, T)
    BY DEF Surjection
  <2> HIDE DEF at, T, K
  <2> QED
    BY <1>1, <2>1, FS_Surjection
<1>3. Levels(books, side) \subseteq T
  <2> SUFFICES ASSUME NEW x \in Levels(books, side) PROVE x \in T
    OBVIOUS
  <2>1. PICK k \in DOMAIN Venues, p \in Price : x = LevelAt(books, side, k, p)
    BY DEF Levels
  <2>2. <<k, p>> \in K
    BY <2>1
  <2>3. at[<<k, p>>] = x
    BY <2>1, <2>2
  <2> QED
    BY <2>2, <2>3
<1>4. ASSUME NEW x \in Levels(books, side) PROVE x \in ViewLevel
  <2>1. PICK k \in DOMAIN Venues, p \in Price : x = LevelAt(books, side, k, p)
    BY DEF Levels
  <2>2. x.qty > 0
    BY DEF Levels
  <2>3. LevelQty(books[Venues[k]], side, p) \in Nat
    BY <2>1, BookAt, LevelQtyIs
  <2> QED
    BY <2>1, <2>2, <2>3 DEF LevelAt, ViewLevel
<1> QED
  BY <1>2, <1>3, <1>4, FS_Subset

LEMMA ForemostIs ==
  ASSUME NEW rest, rest \subseteq ViewLevel, IsFiniteSet(rest), rest # {}, NEW side
  PROVE  Foremost(side, rest) \in rest
<1>1. PICK R : R = {p \in rest \X rest : better(side, p[1], p[2])}
  OBVIOUS
<1>2. \A x, y \in rest : <<x, y>> \in R <=> better(side, x, y)
  BY <1>1
<1>3. \A x \in rest : /\ x.price \in Nat /\ x.qty \in Nat /\ x.rank \in Nat
                      /\ x = [price |-> x.price, qty |-> x.qty, rank |-> x.rank]
  <2> TAKE x \in rest
  <2>1. DOMAIN Venues \subseteq Nat /\ Price \subseteq Nat
    BY VenuesAre, MaxPriceAssumption DEF Price
  <2>2. x \in [price : Price, qty : Nat \ {0}, rank : DOMAIN Venues]
    BY DEF ViewLevel
  <2>3. x.price \in Price /\ x.qty \in Nat /\ x.rank \in DOMAIN Venues
    BY <2>2
  <2>4. x = [price |-> x.price, qty |-> x.qty, rank |-> x.rank]
    BY <2>2
  <2> QED
    BY <2>1, <2>3, <2>4
<1>4. ASSUME NEW x \in rest, NEW y \in rest, x # y PROVE <<x, y>> \in R \/ <<y, x>> \in R
  <2>1. PICK a, b, c, d, e, f : /\ a = x.price /\ b = x.qty /\ c = x.rank
                                /\ d = y.price /\ e = y.qty /\ f = y.rank
    OBVIOUS
  <2>2. /\ a \in Nat /\ b \in Nat /\ c \in Nat /\ d \in Nat /\ e \in Nat /\ f \in Nat
        /\ ~(a = d /\ b = e /\ c = f)
    BY <1>3, <1>4, <2>1
  <2>3. better(side, x, y) \/ better(side, y, x)
    BY <2>1, <2>2 DEF better, Nearer
  <2> QED
    BY <1>2, <2>3
<1>5. ASSUME NEW x \in rest, NEW y \in rest, NEW z \in rest, <<x, y>> \in R, <<y, z>> \in R
      PROVE  <<x, z>> \in R
  <2>1. PICK a, b, c, d, e, f, g, h, i : /\ a = x.price /\ b = x.qty /\ c = x.rank
                                         /\ d = y.price /\ e = y.qty /\ f = y.rank
                                         /\ g = z.price /\ h = z.qty /\ i = z.rank
    OBVIOUS
  <2>2. /\ a \in Nat /\ b \in Nat /\ c \in Nat /\ d \in Nat /\ e \in Nat /\ f \in Nat
        /\ g \in Nat /\ h \in Nat /\ i \in Nat
    BY <1>3, <2>1
  <2>3. better(side, x, y) /\ better(side, y, z)
    BY <1>2, <1>5
  <2>4. better(side, x, z)
    BY <2>1, <2>2, <2>3 DEF better, Nearer
  <2> QED
    BY <1>2, <2>4
<1>6. Ranks(R, rest)
  BY <1>4, <1>5 DEF Ranks
<1>7. PICK x : Leader(R, rest, x)
  BY <1>6, OneLeads
<1>8. x \in rest /\ \A y \in rest \ {x} : better(side, x, y)
  BY <1>2, <1>7 DEF Leader
<1> QED
  BY <1>8 DEF Foremost

\* A view of some of the levels, at most c of them.
ViewOf(t, levels, c) ==
  t \in Seq(ViewLevel) /\ Range(t) \subseteq levels /\ Cardinality(Range(t)) <= c

\* When fewer than all are in view, there is one more to add.
LEMMA ViewGrows ==
  ASSUME NEW levels, levels \subseteq ViewLevel, IsFiniteSet(levels), NEW side,
         NEW c \in Nat, c < Cardinality(levels), NEW t, ViewOf(t, levels, c)
  PROVE  ViewOf(Append(t, Foremost(side, levels \ Range(t))), levels, c + 1)
<1> DEFINE z == Append(t, Foremost(side, levels \ Range(t)))
<1>0. t \in Seq(ViewLevel) /\ Range(t) \subseteq levels /\ Cardinality(Range(t)) <= c
  BY DEF ViewOf
<1> HIDE DEF z
<1>1. PICK S, rest : S = Range(t) /\ rest = levels \ S
  OBVIOUS
<1>2. IsFiniteSet(S) /\ IsFiniteSet(rest) /\ rest \subseteq levels
  BY <1>0, <1>1, FS_Subset
<1>3. Cardinality(S) \in Nat /\ Cardinality(levels) \in Nat
  BY <1>2, FS_CardinalityType
<1>4. rest # {}
  <2>1. SUFFICES ASSUME rest = {} PROVE FALSE
    OBVIOUS
  <2>2. S = levels
    BY <1>0, <1>1, <2>1
  <2> QED
    BY <1>0, <1>1, <1>3, <2>2
<1>5. PICK x : x = Foremost(side, rest)
  OBVIOUS
<1>6. x \in rest
  BY <1>2, <1>4, <1>5, ForemostIs
<1>7. z = Append(t, x) /\ x \in levels /\ x \in ViewLevel
  BY <1>1, <1>2, <1>5, <1>6 DEF z
<1>8. Range(z) = S \cup {x}
  <2>1. PICK n : n = Len(t)
    OBVIOUS
  <2>2. n \in Nat /\ DOMAIN t = 1..n /\ DOMAIN z = 1..(n + 1)
    BY <1>0, <1>7, <2>1
  <2>3. z[n + 1] = x /\ \A i \in 1..n : z[i] = t[i]
    BY <1>0, <1>7, <2>1
  <2>4. S = {t[i] : i \in 1..n} /\ Range(z) = {z[i] : i \in 1..(n + 1)}
    BY <1>1, <2>2 DEF Range
  <2>5. ASSUME NEW y \in S PROVE y \in Range(z)
    <3>1. PICK i \in 1..n : y = t[i]
      BY <2>4
    <3>2. i \in 1..(n + 1) /\ z[i] = y
      BY <2>2, <2>3, <3>1
    <3> QED
      BY <2>4, <3>2
  <2>6. x \in Range(z)
    <3>1. n + 1 \in 1..(n + 1)
      BY <2>2
    <3> QED
      BY <2>3, <2>4, <3>1
  <2>7. ASSUME NEW y \in Range(z) PROVE y \in S \cup {x}
    <3>1. PICK i \in 1..(n + 1) : y = z[i]
      BY <2>4
    <3>2. CASE i = n + 1
      BY <2>3, <3>1, <3>2
    <3>3. CASE i # n + 1
      <4>1. i \in 1..n
        BY <2>2, <3>3
      <4> QED
        BY <2>3, <2>4, <3>1, <4>1
    <3> QED
      BY <3>2, <3>3
  <2> QED
    BY <2>5, <2>6, <2>7
<1>9. Cardinality(Range(z)) <= Cardinality(S) + 1
  <2>1. Cardinality(S \cup {x}) = IF x \in S THEN Cardinality(S) ELSE Cardinality(S) + 1
    BY <1>2, FS_AddElement
  <2>2. PICK m, n : m = Cardinality(S) /\ n = Cardinality(S \cup {x})
    OBVIOUS
  <2>3. n = Cardinality(Range(z))
    BY <1>8, <2>2
  <2>4. m \in Nat /\ n <= m + 1
    BY <1>3, <2>1, <2>2
  <2> QED
    BY <2>2, <2>3, <2>4
<1>10. Cardinality(Range(z)) \in Nat
  <2>1. IsFiniteSet(Range(z))
    BY <1>2, <1>8, FS_AddElement
  <2> QED
    BY <2>1, FS_CardinalityType
<1>11. z \in Seq(ViewLevel)
  BY <1>0, <1>7
<1>12. Range(z) \subseteq levels
  BY <1>0, <1>1, <1>7, <1>8
<1>13. Cardinality(Range(z)) <= c + 1
  <2>1. PICK m, n : m = Cardinality(S) /\ n = Cardinality(Range(z))
    OBVIOUS
  <2>2. m \in Nat /\ n \in Nat /\ n <= m + 1 /\ m <= c
    BY <1>0, <1>1, <1>3, <1>9, <1>10, <2>1
  <2> QED
    BY <2>1, <2>2
<1> QED
  BY <1>11, <1>12, <1>13 DEF ViewOf, z

LEMMA SnapshotIs ==
  ASSUME NEW books, BooksAre(books), NEW side
  PROVE  cons_snapshot(books, side) \in Seq(ViewLevel)
<1> DEFINE levels == Levels(books, side)
           n == InView(levels)
           f == [k \in 1..n |-> k]
           both(t, k) == Append(t, Foremost(side, levels \ Range(t)))
           St == Seq(ViewLevel)
           F == [k \in 1..n |-> [t \in St |-> both(t, f[k])]]
           T == [J \in SUBSET (1..n) |-> {t \in St : /\ Range(t) \subseteq levels
                                                     /\ Cardinality(Range(t)) <= Cardinality(J)}]
           Runs(h) == h = [J \in SUBSET (1..n) |->
                             IF J = {} THEN << >> ELSE both(h[J \ {Max(J)}], f[Max(J)])]
<1>0. /\ n \in Nat /\ DOMAIN f = 1..n /\ (\A k \in 1..n : f[k] = k)
      /\ IsFiniteSet(levels) /\ levels \subseteq ViewLevel
      /\ Cardinality(levels) \in Nat /\ n <= Cardinality(levels)
  BY LevelsAre, FS_CardinalityType DEF InView, Depth
<1> HIDE DEF levels
<1>1. << >> \in T[{}]
  <2>1. Range(<< >>) = {}
    BY DEF Range
  <2>2. Cardinality({}) = 0
    BY FS_EmptySet
  <2>3. {} \in SUBSET (1..n) /\ << >> \in St /\ Range(<< >>) \subseteq levels
    BY <2>1
  <2>4. Cardinality(Range(<< >>)) <= Cardinality({})
    <3>1. PICK z : z = Cardinality({})
      OBVIOUS
    <3>2. z = 0 /\ Cardinality(Range(<< >>)) = z
      BY <2>1, <2>2, <3>1
    <3> QED
      BY <3>1, <3>2
  <2> QED
    BY <2>3, <2>4
<1>2. ASSUME NEW J \in SUBSET (1..n), NEW k \in J, NEW t \in T[J \ {k}]
      PROVE  both(t, f[k]) \in T[J] /\ F[k][t] = both(t, f[k])
  <2>1. J \ {k} \in SUBSET (1..n) /\ k \in 1..n
    BY <1>0
  <2>2. t \in St /\ Range(t) \subseteq levels /\ Cardinality(Range(t)) <= Cardinality(J \ {k})
    BY <2>1
  <2>3. PICK c, d : c = Cardinality(J \ {k}) /\ d = Cardinality(J)
    OBVIOUS
  <2>4. d \in Nat /\ c \in Nat /\ d = c + 1 /\ d <= n
    <3>1. d \in Nat /\ c = d - 1 /\ IsFiniteSet(J)
      BY <1>0, <2>3, IndexSets
    <3>2. c \in Nat
      BY <1>0, <2>1, <2>3, IndexSets
    <3>3. d <= n
      <4>1. PICK all : all = 1..n
        OBVIOUS
      <4>2. IsFiniteSet(all) /\ Cardinality(all) = n
        BY <1>0, <4>1, FS_Interval
      <4>3. J \in SUBSET all
        BY <4>1
      <4> QED
        BY <2>3, <4>2, <4>3, FS_Subset
    <3> QED
      BY <3>1, <3>2, <3>3
  <2>5. c < Cardinality(levels)
    BY <1>0, <2>4
  <2>6. PICK L, z : L = levels /\ z = Append(t, Foremost(side, L \ Range(t)))
    OBVIOUS
  <2>7. ViewOf(t, L, c) /\ c < Cardinality(L) /\ L \subseteq ViewLevel /\ IsFiniteSet(L)
    BY <1>0, <2>2, <2>3, <2>5, <2>6 DEF ViewOf
  <2>8. z \in Seq(ViewLevel) /\ Range(z) \subseteq levels /\ Cardinality(Range(z)) <= c + 1
    <3>1. ViewOf(z, L, c + 1)
      BY <2>4, <2>6, <2>7, ViewGrows
    <3> QED
      BY <2>6, <3>1 DEF ViewOf
  <2>9. Cardinality(Range(z)) <= Cardinality(J)
    BY <2>3, <2>4, <2>8
  <2>10. z \in T[J] /\ z = both(t, f[k])
    BY <1>0, <2>1, <2>6, <2>8, <2>9
  <2> HIDE DEF both
  <2> QED
    BY <2>1, <2>2, <2>10
<1> HIDE DEF both, F, T, St, n, f
<1>3. PICK g : /\ LeftFold(g, n, F, << >>)
               /\ \A J \in SUBSET (1..n) : J # {} => Max(J) \in J /\ g[J \ {Max(J)}] \in T[J \ {Max(J)}]
  <2>1. \A J \in SUBSET (1..n) : \A k \in J : \A t \in T[J \ {k}] : F[k][t] \in T[J]
    BY <1>2
  <2> QED
    BY <1>0, <1>1, <2>1, FoldLeftRuns
<1>5. Runs(g)
  <2>1. \A J \in SUBSET (1..n) : J # {} => F[Max(J)][g[J \ {Max(J)}]] = both(g[J \ {Max(J)}], f[Max(J)])
    BY <1>2, <1>3
  <2> QED
    BY <1>3, <2>1 DEF LeftFold
<1> DEFINE w == CHOOSE h : Runs(h)
<1>6. Runs(w)
  <2> HIDE DEF Runs
  <2> QED
    BY <1>5
<1>7. cons_snapshot(books, side) = w[1..n]
  BY <1>0 DEF cons_snapshot, FoldLeft, MapThenFoldSet, both, f, n, levels
<1> HIDE DEF w
<1>8. \A J \in SUBSET (1..n) : w[J] \in T[J]
  <2>1. w[{}] \in T[{}]
    BY <1>1, <1>6
  <2>2. ASSUME NEW J \in SUBSET (1..n), J # {}, Max(J) \in J, w[J \ {Max(J)}] \in T[J \ {Max(J)}]
        PROVE  w[J] \in T[J]
    <3>1. w[J] = both(w[J \ {Max(J)}], f[Max(J)])
      BY <1>6, <2>2
    <3> HIDE DEF Runs
    <3> QED
      BY <1>2, <2>2, <3>1
  <2> QED
    BY <1>0, <2>1, <2>2, FoldLeftTypes
<1>9. w[1..n] \in T[1..n]
  BY <1>8
<1>10. w[1..n] \in St
  BY <1>9 DEF T
<1> QED
  BY <1>7, <1>10 DEF St

\* A sweep under way: what it gave out and what it has left make the whole.
SweepAt(s, qty) ==
  s.left \in Nat /\ s.alloc \in [DOMAIN Venues -> Nat] /\ Sum(s.alloc) + s.left = qty

LEMMA OneLevel ==
  ASSUME NEW s, NEW qty \in Nat, SweepAt(s, qty), NEW level \in ViewLevel,
         NEW n \in Nat, n <= s.left,
         NEW z, z = [left  |-> s.left - n,
                     alloc |-> [s.alloc EXCEPT ![level.rank] = @ + n]]
  PROVE  SweepAt(z, qty)
<1>1. PICK a, b, k, left : a = s.alloc /\ b = z.alloc /\ k = level.rank /\ left = s.left
  OBVIOUS
<1>2. /\ k \in DOMAIN Venues /\ a \in [DOMAIN Venues -> Nat] /\ left \in Nat
      /\ Sum(a) + left = qty /\ n <= left
  BY <1>1 DEF SweepAt, ViewLevel
<1>3. z.left = left - n /\ b = [a EXCEPT ![k] = @ + n]
  BY <1>1
<1>4. b \in [DOMAIN Venues -> Nat] /\ b[k] = a[k] + n /\ \A j \in DOMAIN Venues \ {k} : b[j] = a[j]
  BY <1>2, <1>3
<1>5. IsFiniteSet(DOMAIN Venues)
  BY VenuesAre
<1>6. \A j \in DOMAIN Venues : a[j] \in Int /\ b[j] \in Int
  BY <1>2, <1>4
<1>7. Part(b, DOMAIN Venues) = Part(a, DOMAIN Venues) - a[k] + b[k] /\ Part(a, DOMAIN Venues) \in Int
  BY <1>2, <1>4, <1>5, <1>6, PartChange, PartType
<1>8. Sum(a) = Part(a, DOMAIN Venues) /\ Sum(b) = Part(b, DOMAIN Venues)
  BY <1>2, <1>4, SumIsPart
<1>9. PICK x, y, v : x = Part(a, DOMAIN Venues) /\ y = Part(b, DOMAIN Venues) /\ v = a[k]
  OBVIOUS
<1>10. y + (left - n) = x + left /\ left - n \in Nat
  <2>1. x \in Int /\ v \in Int /\ y = x - v + (v + n)
    BY <1>2, <1>4, <1>6, <1>7, <1>9
  <2> QED
    BY <1>2, <2>1
<1>11. Sum(b) + z.left = qty /\ z.left \in Nat
  BY <1>2, <1>3, <1>8, <1>9, <1>10
<1> QED
  BY <1>1, <1>4, <1>11 DEF SweepAt

LEMMA SweepAdds ==
  ASSUME NEW books, BooksAre(books), NEW r, RequestIs(r)
  PROVE  sweep(books, r) \in [DOMAIN Venues -> Nat] /\ Sum(sweep(books, r)) = r.qty
<1> DEFINE view == cons_snapshot(books, Opposite(r.side))
           n == Len(view)
           take(acc, level) == IF ~Crosses(r.side, r.price, level.price) THEN 0
                               ELSE IF acc.left < level.qty THEN acc.left ELSE level.qty
           both(acc, level) == [left  |-> acc.left - take(acc, level),
                                alloc |-> [acc.alloc EXCEPT ![level.rank] = @ + take(acc, level)]]
           base == [left |-> r.qty, alloc |-> AllTo(1, 0)]
           St == {s \in [left : Nat, alloc : [DOMAIN Venues -> Nat]] : SweepAt(s, r.qty)}
           F == [k \in 1..n |-> [t \in St |-> both(t, view[k])]]
           T == [J \in SUBSET (1..n) |-> St]
           Runs(h) == h = [J \in SUBSET (1..n) |->
                             IF J = {} THEN base ELSE both(h[J \ {Max(J)}], view[Max(J)])]
<1>0. /\ view \in Seq(ViewLevel) /\ n \in Nat /\ DOMAIN view = 1..n /\ \A k \in 1..n : view[k] \in ViewLevel
      /\ r.qty \in Nat \ {0}
  <2>1. view \in Seq(ViewLevel)
    BY SnapshotIs
  <2> HIDE DEF view
  <2> QED
    BY <2>1 DEF RequestIs
<1> HIDE DEF view
<1>1. base \in T[{}]
  <2>1. AllTo(1, 0) \in [DOMAIN Venues -> Nat] /\ Sum(AllTo(1, 0)) = 0
    <3>1. 1 \in DOMAIN Venues /\ 0 \in Nat
      BY VenuesAre
    <3> QED
      BY <3>1, AllToAdds
  <2>2. base.left = r.qty /\ base.alloc = AllTo(1, 0) /\ base \in [left : Nat, alloc : [DOMAIN Venues -> Nat]]
    BY <1>0, <2>1
  <2>3. SweepAt(base, r.qty)
    BY <1>0, <2>1, <2>2 DEF SweepAt
  <2> HIDE DEF base
  <2>4. base \in St
    BY <2>2, <2>3
  <2> QED
    BY <2>4
<1>2. ASSUME NEW J \in SUBSET (1..n), NEW k \in J, NEW t \in T[J \ {k}]
      PROVE  both(t, view[k]) \in T[J] /\ F[k][t] = both(t, view[k])
  <2>1. J \ {k} \in SUBSET (1..n) /\ k \in 1..n /\ view[k] \in ViewLevel
    BY <1>0
  <2>2. t \in St
    BY <2>1
  <2>3. PICK level : level = view[k]
    OBVIOUS
  <2>4. SweepAt(t, r.qty) /\ t.left \in Nat /\ level \in ViewLevel /\ level.qty \in Nat
    BY <2>1, <2>2, <2>3 DEF SweepAt, ViewLevel
  <2>5. PICK m : m = take(t, level)
    OBVIOUS
  <2>6. m \in Nat /\ m <= t.left
    <3>1. PICK x, y : x = t.left /\ y = level.qty
      OBVIOUS
    <3>2. x \in Nat /\ y \in Nat
      BY <2>4, <3>1
    <3>3. m = 0 \/ (m = x /\ x < y) \/ (m = y /\ ~(x < y))
      BY <2>5, <3>1
    <3> QED
      BY <3>1, <3>2, <3>3
  <2>7. PICK z : z = [left |-> t.left - m, alloc |-> [t.alloc EXCEPT ![level.rank] = @ + m]]
    OBVIOUS
  <2>8. SweepAt(z, r.qty)
    BY <1>0, <2>4, <2>6, <2>7, OneLevel
  <2>9. z = both(t, view[k])
    BY <2>3, <2>5, <2>7
  <2>10. z \in [left : Nat, alloc : [DOMAIN Venues -> Nat]]
    <3>1. z.left \in Nat /\ z.alloc \in [DOMAIN Venues -> Nat]
      BY <2>8 DEF SweepAt
    <3> QED
      BY <2>7, <3>1
  <2> HIDE DEF both
  <2>11. z \in T[J]
    BY <2>8, <2>10
  <2> QED
    BY <2>1, <2>2, <2>9, <2>11
<1> HIDE DEF both, F, T, St, n, base
<1>3. PICK g : /\ LeftFold(g, n, F, base)
               /\ \A J \in SUBSET (1..n) : J # {} => Max(J) \in J /\ g[J \ {Max(J)}] \in T[J \ {Max(J)}]
  <2>1. \A J \in SUBSET (1..n) : \A k \in J : \A t \in T[J \ {k}] : F[k][t] \in T[J]
    BY <1>2
  <2> QED
    BY <1>0, <1>1, <2>1, FoldLeftRuns
<1>5. Runs(g)
  <2>1. \A J \in SUBSET (1..n) : J # {} => F[Max(J)][g[J \ {Max(J)}]] = both(g[J \ {Max(J)}], view[Max(J)])
    BY <1>2, <1>3
  <2> QED
    BY <1>3, <2>1 DEF LeftFold
<1> DEFINE w == CHOOSE h : Runs(h)
<1>6. Runs(w)
  <2> HIDE DEF Runs
  <2> QED
    BY <1>5
<1>7. sweep(books, r) = IF w[1..n].left = 0 THEN w[1..n].alloc
                        ELSE [w[1..n].alloc EXCEPT ![plan_resting_market(books, r)] = @ + w[1..n].left]
  BY <1>0 DEF sweep, FoldLeft, MapThenFoldSet, both, n, view, base
<1> HIDE DEF w
<1>8. \A J \in SUBSET (1..n) : w[J] \in T[J]
  <2>1. w[{}] \in T[{}]
    BY <1>1, <1>6
  <2>2. ASSUME NEW J \in SUBSET (1..n), J # {}, Max(J) \in J, w[J \ {Max(J)}] \in T[J \ {Max(J)}]
        PROVE  w[J] \in T[J]
    <3>1. w[J] = both(w[J \ {Max(J)}], view[Max(J)])
      BY <1>6, <2>2
    <3> HIDE DEF Runs
    <3> QED
      BY <1>2, <2>2, <3>1
  <2> QED
    BY <1>0, <2>1, <2>2, FoldLeftTypes
<1>9. PICK s : s = w[1..n]
  OBVIOUS
<1>10. SweepAt(s, r.qty)
  <2>1. s \in T[1..n]
    BY <1>8, <1>9
  <2> QED
    BY <2>1 DEF T, St
<1>11. s.left \in Nat /\ s.alloc \in [DOMAIN Venues -> Nat] /\ Sum(s.alloc) + s.left = r.qty
  BY <1>10 DEF SweepAt
<1>12. CASE s.left = 0
  <2>1. sweep(books, r) = s.alloc
    BY <1>7, <1>9, <1>12
  <2>2. Sum(s.alloc) \in Int
    <3>1. IsFiniteSet(DOMAIN Venues) /\ DOMAIN s.alloc = DOMAIN Venues /\ \A j \in DOMAIN Venues : s.alloc[j] \in Int
      BY <1>11, VenuesAre
    <3> QED
      BY <3>1, SumIsPart, PartType
  <2> QED
    BY <1>11, <1>12, <2>1, <2>2
<1>13. CASE s.left # 0
  <2>1. PICK k : k = plan_resting_market(books, r)
    OBVIOUS
  <2>2. k \in DOMAIN Venues
    BY <2>1, RestingIs
  <2>3. PICK level : level = [price |-> 1, qty |-> 1, rank |-> k]
    OBVIOUS
  <2>4. level \in ViewLevel /\ level.rank = k
    BY <2>2, <2>3, MaxPriceAssumption DEF ViewLevel, Price
  <2>5. PICK z : z = [left |-> s.left - s.left, alloc |-> [s.alloc EXCEPT ![level.rank] = @ + s.left]]
    OBVIOUS
  <2>6. SweepAt(z, r.qty)
    <3>1. PICK m, q : m = s.left /\ q = r.qty
      OBVIOUS
    <3>2. m \in Nat /\ m <= s.left /\ q \in Nat /\ SweepAt(s, q)
      BY <1>0, <1>10, <1>11, <3>1
    <3>3. z = [left |-> s.left - m, alloc |-> [s.alloc EXCEPT ![level.rank] = @ + m]]
      BY <2>5, <3>1
    <3>4. SweepAt(z, q)
      BY <2>4, <3>2, <3>3, OneLevel
    <3> QED
      BY <3>1, <3>4
  <2>7. z.left = 0 /\ z.alloc = sweep(books, r)
    <3>1. z.left = s.left - s.left /\ z.alloc = [s.alloc EXCEPT ![k] = @ + s.left]
      BY <2>4, <2>5
    <3>2. sweep(books, r) = [s.alloc EXCEPT ![k] = @ + s.left]
      BY <1>7, <1>9, <1>13, <2>1
    <3> QED
      BY <1>11, <3>1, <3>2
  <2>8. z.alloc \in [DOMAIN Venues -> Nat] /\ Sum(z.alloc) + 0 = r.qty
    BY <2>6, <2>7 DEF SweepAt
  <2>9. Sum(z.alloc) \in Int
    <3>1. IsFiniteSet(DOMAIN Venues) /\ DOMAIN z.alloc = DOMAIN Venues /\ \A j \in DOMAIN Venues : z.alloc[j] \in Int
      BY <2>8, VenuesAre
    <3> QED
      BY <3>1, SumIsPart, PartType
  <2> QED
    BY <2>7, <2>8, <2>9
<1> QED
  BY <1>12, <1>13

-----------------------------------------------------------------------------
(* The split: shares rounded down, and who takes what is left over.         *)

LEMMA PartTimes ==
  ASSUME NEW S, IsFiniteSet(S), NEW f, \A x \in S : f[x] \in Int, NEW c \in Int,
         NEW k, \A x \in S : k[x] = c * f[x]
  PROVE  Part(k, S) = c * Part(f, S)
<1>0. \A x \in S : k[x] \in Int
  OBVIOUS
<1>1. PICK g : Adds(g, f, S) /\ Part(f, S) = g[S]
  BY PartAdds
<1>2. PICK h : Adds(h, k, S) /\ Part(k, S) = h[S]
  BY <1>0, PartAdds
<1> DEFINE Good == {s \in SUBSET S : h[s] = c * g[s]}
<1>3. ASSUME NEW s \in SUBSET S, \A x \in s : s \ {x} \in Good PROVE s \in Good
  <2>1. CASE s = {}
    <3>1. g[s] = 0 /\ h[s] = 0
      BY <1>1, <1>2, <2>1 DEF Adds
    <3>2. c * 0 = 0
      OBVIOUS
    <3> QED
      BY <3>1, <3>2
  <2>2. CASE s # {}
    <3>1. PICK x \in s : TRUE
      BY <2>2
    <3>2. h[s \ {x}] = c * g[s \ {x}]
      BY <1>3, <3>1
    <3>3. g[s] = f[x] + g[s \ {x}] /\ h[s] = k[x] + h[s \ {x}] /\ g[s \ {x}] \in Int
      BY <1>1, <1>2, <3>1 DEF Adds
    <3>4. PICK a, b : a = f[x] /\ b = g[s \ {x}]
      OBVIOUS
    <3>5. a \in Int /\ b \in Int /\ x \in S
      BY <3>1, <3>3, <3>4
    <3>6. c * (a + b) = c * a + c * b
      BY <3>5
    <3>7. h[s] = c * a + c * b /\ g[s] = a + b
      BY <3>2, <3>3, <3>4, <3>5
    <3> QED
      BY <3>6, <3>7
  <2> QED
    BY <2>1, <2>2
<1>4. S \in Good
  <2>1. \A s \in SUBSET S : (\A x \in s : s \ {x} \in Good) => s \in Good
    BY <1>3
  <2> HIDE DEF Good
  <2>2. \A s \in SUBSET S : s \in Good
    BY <2>1, SubsetInduction, ZenonT(60)
  <2> QED
    BY <2>2
<1> QED
  BY <1>1, <1>2, <1>4

LEMMA PartBound ==
  ASSUME NEW S, IsFiniteSet(S), NEW f, NEW c \in Nat, \A x \in S : f[x] \in Nat /\ f[x] <= c
  PROVE  Part(f, S) <= Cardinality(S) * c
<1>0. \A x \in S : f[x] \in Int
  OBVIOUS
<1>1. PICK g : Adds(g, f, S) /\ Part(f, S) = g[S]
  BY <1>0, PartAdds
<1> DEFINE Good == {s \in SUBSET S : g[s] <= Cardinality(s) * c}
<1>3. ASSUME NEW s \in SUBSET S, \A x \in s : s \ {x} \in Good PROVE s \in Good
  <2>0. IsFiniteSet(s) /\ Cardinality(s) \in Nat
    BY FS_Subset, FS_CardinalityType
  <2>1. CASE s = {}
    <3>1. g[s] = 0 /\ Cardinality(s) = 0
      BY <1>1, <2>1, FS_EmptySet DEF Adds
    <3>2. 0 <= 0 * c
      OBVIOUS
    <3> QED
      BY <3>1, <3>2
  <2>2. CASE s # {}
    <3>1. PICK x \in s : TRUE
      BY <2>2
    <3>2. g[s \ {x}] <= Cardinality(s \ {x}) * c
      BY <1>3, <3>1
    <3>3. g[s] = f[x] + g[s \ {x}] /\ g[s \ {x}] \in Int
      BY <1>1, <3>1 DEF Adds
    <3>4. Cardinality(s \ {x}) = Cardinality(s) - 1
      BY <2>0, <3>1, FS_RemoveElement
    <3>5. PICK a, b, n : a = f[x] /\ b = g[s \ {x}] /\ n = Cardinality(s)
      OBVIOUS
    <3>6. a \in Nat /\ a <= c /\ b \in Int /\ n \in Nat
      BY <2>0, <3>1, <3>3, <3>5
    <3>7. b <= (n - 1) * c
      BY <3>2, <3>4, <3>5
    <3>8. a + b <= n * c
      <4>1. (n - 1) * c + c = n * c
        BY <3>6
      <4>2. PICK u, v : u = (n - 1) * c /\ v = n * c
        OBVIOUS
      <4>3. u \in Int /\ v \in Int /\ b <= u /\ u + c = v
        BY <3>6, <3>7, <4>1, <4>2
      <4>4. a + b <= v
        BY <3>6, <4>3
      <4> QED
        BY <4>2, <4>4
    <3> QED
      BY <3>3, <3>5, <3>8
  <2> QED
    BY <2>1, <2>2
<1>4. S \in Good
  <2>1. \A s \in SUBSET S : (\A x \in s : s \ {x} \in Good) => s \in Good
    BY <1>3
  <2> HIDE DEF Good
  <2>2. \A s \in SUBSET S : s \in Good
    BY <2>1, SubsetInduction, ZenonT(60)
  <2> QED
    BY <2>2
<1> QED
  BY <1>1, <1>4

\* A total order of S that puts no element before itself.
Orders(R, S) == Ranks(R, S) /\ \A x \in S : <<x, x>> \notin R

Before(R, s, x) == {y \in s : <<y, x>> \in R}

\* 1 for each of the first m of s.
Firsts(R, s, m) == [x \in s |-> IF Cardinality(Before(R, s, x)) < m THEN 1 ELSE 0]

LEMMA OneTrails ==
  ASSUME NEW S, IsFiniteSet(S), S # {}, NEW R, Orders(R, S)
  PROVE  \E z \in S : Before(R, S, z) = S \ {z} /\ \A x \in S \ {z} : <<z, x>> \notin R
<1>1. PICK Q : Q = {p \in S \X S : <<p[2], p[1]>> \in R}
  OBVIOUS
<1>2. \A x, y \in S : <<x, y>> \in Q <=> <<y, x>> \in R
  BY <1>1
<1>3. /\ \A x, y \in S : x # y => <<x, y>> \in R \/ <<y, x>> \in R
      /\ \A x, y, z \in S : <<x, y>> \in R /\ <<y, z>> \in R => <<x, z>> \in R
      /\ \A x \in S : <<x, x>> \notin R
  BY DEF Orders, Ranks
<1>4. Ranks(Q, S)
  BY <1>2, <1>3 DEF Ranks
<1>5. PICK z : Leader(Q, S, z)
  BY <1>4, OneLeads
<1>6. z \in S /\ \A y \in S \ {z} : <<y, z>> \in R
  BY <1>2, <1>5 DEF Leader
<1>7. Before(R, S, z) = S \ {z}
  BY <1>3, <1>6 DEF Before
<1>8. ASSUME NEW x \in S \ {z}, <<z, x>> \in R PROVE FALSE
  BY <1>3, <1>6, <1>8
<1> QED
  BY <1>6, <1>7, <1>8

\* As many as are asked for have a 1, when there are so many.
LEMMA FirstsAdd ==
  ASSUME NEW S, IsFiniteSet(S), NEW R, Orders(R, S)
  PROVE  \A m \in 0..Cardinality(S) : Part(Firsts(R, S, m), S) = m
<1>0. /\ \A x, y \in S : x # y => <<x, y>> \in R \/ <<y, x>> \in R
      /\ \A x, y, z \in S : <<x, y>> \in R /\ <<y, z>> \in R => <<x, z>> \in R
      /\ \A x \in S : <<x, x>> \notin R
  BY DEF Orders, Ranks
<1> DEFINE Adding(s) == \A m \in 0..Cardinality(s) : Part(Firsts(R, s, m), s) = m
           Good == {s \in SUBSET S : Adding(s)}
<1>1. ASSUME NEW s \in SUBSET S, \A x \in s : s \ {x} \in Good, NEW m \in 0..Cardinality(s)
      PROVE  Part(Firsts(R, s, m), s) = m
  <2>0. IsFiniteSet(s) /\ Cardinality(s) \in Nat
    BY FS_Subset, FS_CardinalityType
  <2>1. CASE s = {}
    <3>1. m = 0
      BY <2>1, FS_EmptySet
    <3> QED
      BY <2>1, <3>1, PartEmpty
  <2>2. CASE s # {}
    <3>1. Orders(R, s)
      BY <1>0 DEF Orders, Ranks
    <3>2. PICK z \in s : Before(R, s, z) = s \ {z} /\ \A x \in s \ {z} : <<z, x>> \notin R
      BY <2>0, <2>2, <3>1, OneTrails
    <3>3. PICK t, n : t = s \ {z} /\ n = Cardinality(s)
      OBVIOUS
    <3>4. IsFiniteSet(t) /\ Cardinality(t) = n - 1 /\ n \in Nat /\ n - 1 \in Nat
      <4>1. IsFiniteSet(t) /\ Cardinality(t) = n - 1
        BY <2>0, <3>2, <3>3, FS_RemoveElement
      <4>2. Cardinality(t) \in Nat
        BY <4>1, FS_CardinalityType
      <4> QED
        BY <2>0, <3>3, <4>1, <4>2
    <3>5. \A x \in t : Before(R, s, x) = Before(R, t, x)
      BY <3>2, <3>3 DEF Before
    <3>6. PICK f : f = Firsts(R, s, m)
      OBVIOUS
    <3>7. f[z] = IF n - 1 < m THEN 1 ELSE 0
      BY <3>2, <3>3, <3>4, <3>6 DEF Firsts
    <3>8. \A x \in t : f[x] = IF Cardinality(Before(R, t, x)) < m THEN 1 ELSE 0
      BY <3>3, <3>5, <3>6 DEF Firsts
    <3>9. \A x \in s : f[x] \in Int
      BY <3>3, <3>7, <3>8
    <3>10. Part(f, s) = f[z] + Part(f, t)
      BY <2>0, <3>2, <3>3, <3>9, PartSplit
    <3>11. Adding(t)
      BY <1>1, <3>2, <3>3
    <3>12. CASE m < n
      <4>1. f[z] = 0
        BY <3>4, <3>7, <3>12
      <4>2. m \in 0..Cardinality(t)
        BY <3>4, <3>12
      <4>3. Part(Firsts(R, t, m), t) = m
        BY <3>11, <4>2
      <4>4. \A x \in t : f[x] \in Int /\ f[x] = Firsts(R, t, m)[x]
        BY <3>3, <3>8, <3>9 DEF Firsts
      <4>5. Part(f, t) = Part(Firsts(R, t, m), t)
        BY <3>4, <4>4, PartSame
      <4> QED
        BY <3>6, <3>10, <4>1, <4>2, <4>3, <4>5
    <3>13. CASE ~(m < n)
      <4>1. m = n
        BY <3>3, <3>4, <3>13
      <4>2. f[z] = 1
        BY <3>4, <3>7, <4>1
      <4>3. n - 1 \in 0..Cardinality(t)
        BY <3>4
      <4>4. Part(Firsts(R, t, n - 1), t) = n - 1
        BY <3>11, <4>3
      <4>5. ASSUME NEW x \in t PROVE f[x] \in Int /\ f[x] = Firsts(R, t, n - 1)[x]
        <5>1. PICK b : b = Before(R, t, x)
          OBVIOUS
        <5>2. b \in SUBSET t /\ b # t
          <6>1. x \in S
            BY <3>3
          <6>2. x \notin b
            BY <1>0, <5>1, <6>1 DEF Before
          <6> QED
            BY <5>1, <6>2 DEF Before
        <5>3. Cardinality(b) \in Nat /\ Cardinality(b) < n - 1
          <6>1. Cardinality(b) <= Cardinality(t) /\ (Cardinality(t) = Cardinality(b) => t = b)
            BY <3>4, <5>2, FS_Subset
          <6>2. Cardinality(b) \in Nat
            BY <3>4, <5>2, FS_Subset, FS_CardinalityType
          <6> QED
            BY <3>4, <5>2, <6>1, <6>2
        <5>4. f[x] = 1
          BY <3>4, <3>8, <4>1, <5>1, <5>3
        <5>5. Firsts(R, t, n - 1)[x] = 1
          BY <5>1, <5>3 DEF Firsts
        <5> QED
          BY <5>4, <5>5
      <4>6. Part(f, t) = Part(Firsts(R, t, n - 1), t)
        BY <3>4, <4>5, PartSame
      <4> QED
        BY <3>4, <3>6, <3>10, <4>1, <4>2, <4>4, <4>6
    <3> QED
      BY <3>12, <3>13
  <2> QED
    BY <2>1, <2>2
<1>2. S \in Good
  <2>1. \A s \in SUBSET S : (\A x \in s : s \ {x} \in Good) => s \in Good
    BY <1>1
  <2> HIDE DEF Good
  <2>2. \A s \in SUBSET S : s \in Good
    BY <2>1, SubsetInduction, ZenonT(60)
  <2> QED
    BY <2>2
<1> QED
  BY <1>2

LEMMA DivMod ==
  ASSUME NEW x \in Nat, NEW y \in Nat \ {0}
  PROVE  x = y * (x \div y) + (x % y) /\ x \div y \in Nat /\ x % y \in 0..(y - 1)
<1>1. x = y * (x \div y) + (x % y)
  BY Z3
<1>2. x \div y \in Nat /\ x % y \in 0..(y - 1)
  BY SMT
<1> QED
  BY <1>1, <1>2

\* Shares of q in proportion to offer, rounded down, and what each rounds off.
SharesOf(base, rem, q, offer, S, total) ==
  \A k \in S : /\ base[k] \in Nat /\ rem[k] \in 0..(total - 1)
               /\ q * offer[k] = total * base[k] + rem[k]

\* They leave over less than one for each.
LEMMA SharesAdd ==
  ASSUME NEW S, IsFiniteSet(S), S # {}, NEW offer, \A k \in S : offer[k] \in Nat,
         NEW total \in Nat \ {0}, Part(offer, S) = total, NEW q \in Nat,
         NEW base, NEW rem, SharesOf(base, rem, q, offer, S, total)
  PROVE  Part(base, S) \in Nat /\ q - Part(base, S) \in 0..(Cardinality(S) - 1)
<1>0. \A k \in S : /\ base[k] \in Nat /\ rem[k] \in 0..(total - 1)
                   /\ q * offer[k] = total * base[k] + rem[k]
  BY DEF SharesOf
<1>1. PICK u, v, n : /\ u = [k \in S |-> q * offer[k]] /\ v = [k \in S |-> total * base[k]]
                     /\ n = Cardinality(S)
  OBVIOUS
<1>2. n \in Nat \ {0}
  BY <1>1, FS_CardinalityType, FS_EmptySet
<1>3. /\ \A k \in S : u[k] = q * offer[k] /\ v[k] = total * base[k]
      /\ \A k \in S : offer[k] \in Int /\ base[k] \in Int
  BY <1>0, <1>1
<1>4. Part(u, S) = q * total
  BY <1>3, PartTimes
<1>5. Part(v, S) = total * Part(base, S)
  BY <1>3, PartTimes
<1>6. \A k \in S : v[k] \in Int /\ rem[k] \in Int /\ u[k] = v[k] + rem[k]
  <2> TAKE k \in S
  <2>1. PICK a, b : a = base[k] /\ b = rem[k]
    OBVIOUS
  <2>2. a \in Nat /\ b \in Nat /\ q * offer[k] = total * a + b
    BY <1>0, <2>1
  <2>3. total * a \in Int
    BY <2>2
  <2> QED
    BY <1>3, <2>1, <2>2, <2>3
<1>7. Part(u, S) = Part(v, S) + Part(rem, S)
  BY <1>6, PartPlus
<1>8. Part(base, S) \in Nat /\ Part(rem, S) \in Nat
  BY <1>0, PartNat
<1>9. Part(rem, S) <= n * (total - 1)
  <2>1. \A k \in S : rem[k] \in Nat /\ rem[k] <= total - 1
    BY <1>0
  <2>2. total - 1 \in Nat
    OBVIOUS
  <2> QED
    BY <1>1, <2>1, <2>2, PartBound
<1>10. PICK b, d, l : b = Part(base, S) /\ d = Part(rem, S) /\ l = q - Part(base, S)
  OBVIOUS
<1>11. b \in Nat /\ d \in Nat /\ l \in Int /\ q = b + l /\ q * total = total * b + d /\ d <= n * (total - 1)
  BY <1>4, <1>5, <1>7, <1>8, <1>9, <1>10
<1>12. total * l = d
  <2>1. q * total = total * b + total * l
    BY <1>11
  <2>2. PICK x, y : x = total * b /\ y = total * l
    OBVIOUS
  <2>3. x \in Int /\ y \in Int
    BY <1>11, <2>2
  <2> QED
    BY <1>11, <2>1, <2>2, <2>3
<1>13. l >= 0
  <2>1. total * l >= 0
    BY <1>11, <1>12
  <2> QED
    BY <1>11, <2>1
<1>14. l < n
  <2>1. total * l <= n * (total - 1)
    BY <1>11, <1>12
  <2> QED
    BY <1>2, <1>11, <2>1
<1> QED
  BY <1>1, <1>2, <1>10, <1>11, <1>13, <1>14

\* What the markets offer within the limit of r.
OffersOf(books, r) ==
  [k \in DOMAIN Venues |-> book_qty_up_to(books[Venues[k]], r.side, r.price)]

\* The order in which markets take what the division leaves over.
FirstServed(rem, offer, S) ==
  {p \in S \X S : \/ rem[p[1]] > rem[p[2]]
                  \/ rem[p[1]] = rem[p[2]] /\ offer[p[1]] > offer[p[2]]
                  \/ rem[p[1]] = rem[p[2]] /\ offer[p[1]] = offer[p[2]] /\ p[1] < p[2]}

LEMMA FirstServedOrders ==
  ASSUME NEW S \in SUBSET Nat, NEW rem, NEW offer, \A k \in S : rem[k] \in Nat /\ offer[k] \in Nat
  PROVE  Orders(FirstServed(rem, offer, S), S)
<1>1. PICK R : R = FirstServed(rem, offer, S)
  OBVIOUS
<1>2. \A x, y \in S : <<x, y>> \in R <=> \/ rem[x] > rem[y]
                                         \/ rem[x] = rem[y] /\ offer[x] > offer[y]
                                         \/ rem[x] = rem[y] /\ offer[x] = offer[y] /\ x < y
  BY <1>1 DEF FirstServed
<1>3. ASSUME NEW x \in S, NEW y \in S, NEW z \in S
      PROVE  /\ x # y => <<x, y>> \in R \/ <<y, x>> \in R
             /\ <<x, y>> \in R /\ <<y, z>> \in R => <<x, z>> \in R
             /\ <<x, x>> \notin R
  <2>1. PICK a, b, c, d, e, f : /\ a = rem[x] /\ b = rem[y] /\ c = rem[z]
                                /\ d = offer[x] /\ e = offer[y] /\ f = offer[z]
    OBVIOUS
  <2>2. /\ a \in Nat /\ b \in Nat /\ c \in Nat /\ d \in Nat /\ e \in Nat /\ f \in Nat
        /\ x \in Nat /\ y \in Nat /\ z \in Nat
    BY <2>1
  <2>3. x # y => <<x, y>> \in R \/ <<y, x>> \in R
    BY <1>2, <2>1, <2>2
  <2>4. <<x, y>> \in R /\ <<y, z>> \in R => <<x, z>> \in R
    BY <1>2, <2>1, <2>2
  <2>5. <<x, x>> \notin R
    BY <1>2, <2>1, <2>2
  <2> QED
    BY <2>3, <2>4, <2>5
<1> QED
  BY <1>1, <1>3 DEF Orders, Ranks

LEMMA SplitAdds ==
  ASSUME NEW books, BooksAre(books), NEW r, RequestIs(r)
  PROVE  split(books, r) \in [DOMAIN Venues -> Nat] /\ Sum(split(books, r)) = r.qty
<1>1. PICK D, offer, total, q : /\ D = DOMAIN Venues /\ offer = OffersOf(books, r)
                                /\ total = Sum(offer) /\ q = r.qty
  OBVIOUS
<1>2. IsFiniteSet(D) /\ D \in SUBSET Nat /\ D # {} /\ 1 \in D /\ q \in Nat \ {0}
  <2>1. PICK n : n = Len(Venues)
    OBVIOUS
  <2>2. n \in Nat \ {0} /\ D = 1..n /\ IsFiniteSet(D)
    BY <1>1, <2>1, VenuesAre
  <2>3. q \in Nat \ {0}
    BY <1>1 DEF RequestIs
  <2> QED
    BY <2>2, <2>3
<1>3. offer \in [D -> Nat]
  BY <1>1, BookAt, OfferIs DEF OffersOf
<1>4. total = Part(offer, D) /\ total \in Nat
  BY <1>1, <1>2, <1>3, SumIsPart, PartNat
<1>5. CASE Len(Venues) = 1
  <2>1. split(books, r) = AllTo(1, q)
    BY <1>1, <1>5 DEF split
  <2> QED
    BY <1>1, <1>2, <2>1, AllToAdds
<1>6. CASE Len(Venues) # 1 /\ total = 0
  <2>1. split(books, r) = AllTo(plan_resting_market(books, r), q)
    BY <1>1, <1>6 DEF split, OffersOf
  <2>2. PICK k : k = plan_resting_market(books, r)
    OBVIOUS
  <2>3. k \in DOMAIN Venues
    BY <2>2, RestingIs
  <2>4. AllTo(k, q) \in [DOMAIN Venues -> Nat] /\ Sum(AllTo(k, q)) = q
    BY <1>2, <2>3, AllToAdds
  <2> QED
    BY <1>1, <2>1, <2>2, <2>4
<1>7. CASE Len(Venues) # 1 /\ total # 0
  <2>1. PICK base, rem : /\ base = [k \in D |-> (q * offer[k]) \div total]
                         /\ rem = [k \in D |-> (q * offer[k]) % total]
    OBVIOUS
  <2>2. total \in Nat \ {0}
    BY <1>4, <1>7
  <2>3. ASSUME NEW k \in D
        PROVE  /\ base[k] \in Nat /\ rem[k] \in 0..(total - 1)
               /\ q * offer[k] = total * base[k] + rem[k]
    <3>1. PICK o, x : o = offer[k] /\ x = q * offer[k]
      OBVIOUS
    <3>2. o \in Nat /\ x = q * o
      BY <1>3, <3>1
    <3>3. x \in Nat
      BY <1>2, <3>2
    <3>4. base[k] = x \div total /\ rem[k] = x % total
      BY <2>1, <3>1
    <3>5. x = total * (x \div total) + (x % total) /\ x \div total \in Nat /\ x % total \in 0..(total - 1)
      BY <2>2, <3>3, DivMod
    <3> QED
      BY <3>1, <3>4, <3>5
  <2>4. SharesOf(base, rem, q, offer, D, total)
    BY <2>3 DEF SharesOf
  <2>5. PICK l : l = q - Part(base, D)
    OBVIOUS
  <2>6. Part(base, D) \in Nat /\ l \in 0..(Cardinality(D) - 1)
    BY <1>2, <1>3, <1>4, <2>2, <2>4, <2>5, SharesAdd
  <2>7. PICK R : R = FirstServed(rem, offer, D)
    OBVIOUS
  <2>8. \A k \in D : rem[k] \in Nat /\ offer[k] \in Nat
    BY <1>3, <2>2, <2>3
  <2>9. Orders(R, D)
    BY <1>2, <2>7, <2>8, FirstServedOrders
  <2>10. PICK extra : extra = Firsts(R, D, l)
    OBVIOUS
  <2>11. Part(extra, D) = l
    <3>1. Cardinality(D) \in Nat
      BY <1>2, FS_CardinalityType
    <3>2. l \in 0..Cardinality(D)
      BY <2>6, <3>1
    <3> QED
      BY <1>2, <2>9, <2>10, <3>2, FirstsAdd
  <2>12. \A k \in D : extra[k] \in Nat /\ extra[k] = IF Cardinality(Before(R, D, k)) < l THEN 1 ELSE 0
    BY <2>10 DEF Firsts
  <2>13. Sum(base) = Part(base, D)
    BY <2>1, SumIsPart
  <2>14. \A k \in D : Before(R, D, k)
           = {j \in D : \/ rem[j] > rem[k]
                        \/ rem[j] = rem[k] /\ offer[j] > offer[k]
                        \/ rem[j] = rem[k] /\ offer[j] = offer[k] /\ j < k}
    BY <2>7 DEF Before, FirstServed
  <2>15. split(books, r) = [k \in D |-> base[k] + extra[k]]
    <3>1. split(books, r)
            = [k \in D |-> base[k] + (IF Cardinality({j \in D :
                              \/ (q * offer[j]) % total > (q * offer[k]) % total
                              \/ (q * offer[j]) % total = (q * offer[k]) % total /\ offer[j] > offer[k]
                              \/ /\ (q * offer[j]) % total = (q * offer[k]) % total
                                 /\ offer[j] = offer[k] /\ j < k}) < q - Sum(base) THEN 1 ELSE 0)]
      BY <1>1, <1>7, <2>1 DEF split, OffersOf
    <3>2. \A k \in D : rem[k] = (q * offer[k]) % total
      BY <2>1
    <3>3. \A k \in D : Before(R, D, k)
            = {j \in D : \/ (q * offer[j]) % total > (q * offer[k]) % total
                         \/ (q * offer[j]) % total = (q * offer[k]) % total /\ offer[j] > offer[k]
                         \/ /\ (q * offer[j]) % total = (q * offer[k]) % total
                            /\ offer[j] = offer[k] /\ j < k}
      BY <2>14, <3>2
    <3> QED
      BY <2>5, <2>12, <2>13, <3>1, <3>3
  <2>16. PICK s : s = split(books, r)
    OBVIOUS
  <2>17. s \in [D -> Nat] /\ \A k \in D : base[k] \in Int /\ extra[k] \in Int /\ s[k] = base[k] + extra[k]
    BY <2>3, <2>12, <2>15, <2>16
  <2>18. Part(s, D) = Part(base, D) + Part(extra, D)
    BY <1>2, <2>17, PartPlus
  <2>19. Sum(s) = q
    <3>1. Sum(s) = Part(s, D)
      BY <2>17, SumIsPart
    <3> QED
      BY <1>2, <2>5, <2>6, <2>11, <2>18, <3>1
  <2> QED
    BY <1>1, <2>16, <2>17, <2>19
<1> QED
  BY <1>5, <1>6, <1>7

\* Whatever the strategy, the plan it makes is one omap_register takes.
LEMMA RoutingValid ==
  ASSUME NEW books, BooksAre(books), NEW r, RequestIs(r), NEW s \in Strategy
  PROVE  plan_validate(routing_plan(s, books, r), r.qty)
<1>1. PICK alloc : alloc = CASE s = "best_price" -> best_price(books, r)
                             [] s = "krx_only"   -> krx_only(r)
                             [] s = "split"      -> split(books, r)
                             [] s = "sweep"      -> sweep(books, r)
  OBVIOUS
<1>2. s = "best_price" \/ s = "krx_only" \/ s = "split" \/ s = "sweep"
  BY DEF Strategy
<1>3. alloc = best_price(books, r) \/ alloc = krx_only(r) \/ alloc = split(books, r) \/ alloc = sweep(books, r)
  BY <1>1, <1>2
<1>4. alloc \in [DOMAIN Venues -> Nat] /\ Sum(alloc) = r.qty
  BY <1>3, BestPriceAdds, KrxOnlyAdds, SplitAdds, SweepAdds
<1>5. r.qty \in Nat \ {0}
  BY DEF RequestIs
<1>6. plan_validate(Plan(alloc), r.qty)
  BY <1>4, <1>5, PlanValid
<1>7. routing_plan(s, books, r) = Plan(alloc)
  BY <1>1 DEF routing_plan
<1> QED
  BY <1>6, <1>7

=============================================================================
