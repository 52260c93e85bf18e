--------------------------- MODULE Generation_proofs ---------------------------
(***************************************************************************)
(* Theorems about Generation, for every population of three or more, every *)
(* set of values and every choice of the candidates evaluated twice:       *)
(* TpaRanksOwn and QuietRanking.                                           *)
(*                                                                         *)
(* GenInv says what a generation holds between its steps: after ask() the  *)
(* columns it filled, after eval() the same with ids and values (Own) and, *)
(* under uncertainty handling, the copies made of them (Copied), while no  *)
(* elite replaced one.  tell() only permutes the columns, so that the id   *)
(* of a point finds it again (RankIsOwn).  In the quiet case both rankings *)
(* agree (RankingsAgree), no delta is left, the comparator of the last     *)
(* sort is that of the values (QuietOrder) and each term of _suh is minus  *)
(* two quantiles, which exist and are no less than 0 (QuantileIs).         *)
(*                                                                         *)
(* That a sum of such terms is one, and that distinct values have a        *)
(* sorting order at all, take induction: AllOf derives it for sets from    *)
(* the least element of a set of naturals (LeastIn).                       *)
(***************************************************************************)
EXTENDS Generation, FiniteSetTheorems, NaturalsInduction, WellFoundedInduction, TLAPS

-----------------------------------------------------------------------------
(* Orders of the columns.                                                    *)

LEMMA Sizes == PopSize \in Nat /\ PopSize >= 3 /\ {1, 2, 3} \subseteq Columns
               /\ Columns \subseteq Nat \ {0} /\ IsFiniteSet(Columns) /\ Cardinality(Columns) = PopSize
BY GenerationAssumption, FS_Interval DEF Columns

LEMMA ColumnIs == \A c \in Columns : c \in Nat /\ c \in Int /\ 1 <= c /\ c <= PopSize
BY GenerationAssumption DEF Columns

\* An order leaves no column out.
LEMMA OrdersReachAll ==
  ASSUME NEW p \in Orders, NEW c \in Columns
  PROVE  \E i \in Columns : p[i] = c
<1>1. p \in Injection(Columns, Columns)
  BY DEF Orders, Injection, IsInjective
<1>2. p \in Surjection(Columns, Columns)
  BY <1>1, FS_Injection, Sizes
<1> QED
  BY <1>2 DEF Surjection

\* A set of naturals has a least element.
LEMMA LeastIn ==
  ASSUME NEW S \in SUBSET Nat, S # {}
  PROVE  \E v \in S : \A w \in S : v <= w
<1>1. PICK v \in S : \A w \in S : ~ (<<w, v>> \in OpToRel(<, Nat))
  BY NatLessThanWellFounded, WFMin, Zenon
<1>2. \A w \in S : ~ (w < v)
  BY <1>1 DEF OpToRel
<1>3. \A w \in S : v <= w
  BY <1>2
<1> QED
  BY <1>3

\* Columns that are strictly and totally ordered can be sorted: each goes
\* where as many come before it as are below it.
LEMMA CanBeSorted ==
  ASSUME NEW R \in SUBSET (Columns \X Columns),
         \A a, b \in Columns : a # b => <<a, b>> \in R \/ <<b, a>> \in R,
         \A a, b, c \in Columns : <<a, b>> \in R /\ <<b, c>> \in R => <<a, c>> \in R,
         \A a \in Columns : <<a, a>> \notin R
  PROVE  \E p \in Orders : \A i, j \in Columns : i < j => <<p[i], p[j]>> \in R
<1> DEFINE Below(c) == {b \in Columns : <<b, c>> \in R}
           rank == [c \in Columns |-> Cardinality(Below(c)) + 1]
<1>0. ASSUME NEW c \in Columns
      PROVE  Below(c) \in SUBSET Columns /\ c \notin Below(c)
  OBVIOUS
<1>00. ASSUME NEW a \in Columns, NEW b \in Columns, <<a, b>> \in R
       PROVE  Below(a) \in SUBSET (Below(b) \ {a}) /\ a \in Below(b)
  BY <1>00
<1>000. rank = [c \in Columns |-> Cardinality(Below(c)) + 1]
  OBVIOUS
<1> HIDE DEF Below, rank
<1>1. ASSUME NEW c \in Columns
      PROVE  IsFiniteSet(Below(c)) /\ Cardinality(Below(c)) \in Nat /\ rank[c] \in Columns
  <2>1. Below(c) \in SUBSET (Columns \ {c})
    BY <1>0
  <2>2. IsFiniteSet(Columns \ {c}) /\ Cardinality(Columns \ {c}) = PopSize - 1
    BY Sizes, FS_RemoveElement
  <2>3. IsFiniteSet(Below(c)) /\ Cardinality(Below(c)) <= PopSize - 1
    BY <2>1, <2>2, FS_Subset
  <2>4. Cardinality(Below(c)) \in Nat
    BY <2>3, FS_CardinalityType
  <2>5. rank[c] = Cardinality(Below(c)) + 1
    BY <1>000
  <2> QED
    BY <2>3, <2>4, <2>5, Sizes DEF Columns
<1>2. ASSUME NEW a \in Columns, NEW b \in Columns, <<a, b>> \in R
      PROVE  rank[a] < rank[b]
  <2>1. Below(a) \in SUBSET (Below(b) \ {a}) /\ a \in Below(b)
    BY <1>2, <1>00
  <2>2. IsFiniteSet(Below(b) \ {a}) /\ Cardinality(Below(b) \ {a}) = Cardinality(Below(b)) - 1
    BY <1>1, <2>1, FS_RemoveElement
  <2>3. Cardinality(Below(a)) <= Cardinality(Below(b)) - 1
    BY <2>1, <2>2, FS_Subset
  <2>4. rank[a] = Cardinality(Below(a)) + 1 /\ rank[b] = Cardinality(Below(b)) + 1
    BY <1>000
  <2>5. Cardinality(Below(a)) \in Nat /\ Cardinality(Below(b)) \in Nat
    BY <1>1
  <2> QED
    BY <2>3, <2>4, <2>5
<1>3. rank \in [Columns -> Columns]
  BY <1>1, <1>000
<1>4. \A a, b \in Columns : a # b => rank[a] # rank[b]
  <2> SUFFICES ASSUME NEW a \in Columns, NEW b \in Columns, a # b PROVE rank[a] # rank[b]
    OBVIOUS
  <2>1. rank[a] \in Columns /\ rank[b] \in Columns
    BY <1>1
  <2>3. rank[a] \in Int /\ rank[b] \in Int
    BY <2>1, ColumnIs
  <2>2. <<a, b>> \in R \/ <<b, a>> \in R
    OBVIOUS
  <2> QED
    BY <1>2, <2>3, <2>2
<1>5. rank \in Orders
  BY <1>3, <1>4 DEF Orders
<1> DEFINE p == [i \in Columns |-> CHOOSE c \in Columns : rank[c] = i]
<1>6. \A i \in Columns : p[i] \in Columns /\ rank[p[i]] = i
  BY <1>5, OrdersReachAll
<1>7. p \in Orders
  BY <1>6 DEF Orders
<1>8. ASSUME NEW i \in Columns, NEW j \in Columns, i < j PROVE <<p[i], p[j]>> \in R
  <2> HIDE DEF p
  <2>1. p[i] # p[j] /\ ~(rank[p[j]] < rank[p[i]])
    BY <1>6, <1>8, Sizes
  <2> QED
    BY <1>2, <1>6, <2>1
<1> QED
  BY <1>7, <1>8

-----------------------------------------------------------------------------
(* What a generation holds.                                                  *)

\* The candidates as they were evaluated.
Own(g, values) ==
  [c \in Columns |-> [kind |-> Asked(g)[c].kind, id |-> c - 1, f |-> values[c]]]

\* The copies of them, if there are any.
Copied(values) ==
  gopt.uh => \E n \in Reevaluated : \E again \in [1 .. n -> GenValues] :
               uh = Reevaluation(values, again, n) /\ reev = n

GenInv ==
  /\ gpc \in {"idle", "start", "asked", "evaluated", "told"}
  /\ gpc \in {"idle", "start", "asked"} => ~injected
  /\ gpc = "asked" => \E g \in BOOLEAN : pop = Asked(g)
  /\ gpc = "evaluated" /\ ~injected =>
       \E g \in BOOLEAN : \E values \in [Columns -> GenValues] :
         pop = Own(g, values) /\ Copied(values)
  /\ TpaRanksOwn /\ QuietRanking

LEMMA OwnIs ==
  ASSUME NEW g, NEW values, NEW c \in Columns
  PROVE  /\ Own(g, values)[c].kind = Asked(g)[c].kind
         /\ Own(g, values)[c].id = c - 1 /\ Own(g, values)[c].f = values[c]
<1>1. PICK k, v, n : k = Asked(g)[c].kind /\ v = values[c] /\ n = c - 1
  OBVIOUS
<1>2. Own(g, values)[c] = [kind |-> k, id |-> n, f |-> v]
  BY <1>1, Zenon DEF Own
<1> QED
  BY <1>1, <1>2

LEMMA EvaluatedIs ==
  ASSUME NEW g \in BOOLEAN, pop = Asked(g), NEW values \in [Columns -> GenValues]
  PROVE  Evaluated(values) = Own(g, values)
<1>1. \A c \in Columns : pop[c] = [kind |-> Asked(g)[c].kind, id |-> -1, f |-> 0]
  BY DEF Asked
<1>2. ASSUME NEW c \in Columns
      PROVE  [pop[c] EXCEPT !.id = c - 1, !.f = values[c]]
               = [kind |-> Asked(g)[c].kind, id |-> c - 1, f |-> values[c]]
  <2>1. PICK k : k = Asked(g)[c].kind
    OBVIOUS
  <2>2. PICK r : r = pop[c] /\ r = [kind |-> k, id |-> -1, f |-> 0]
    BY <1>1, <2>1
  <2>3. PICK r1 : r1 = [r EXCEPT !.id = c - 1]
    OBVIOUS
  <2>4. r1 = [kind |-> k, id |-> c - 1, f |-> 0]
    BY <2>2, <2>3, ColumnIs
  <2>5. [r1 EXCEPT !.f = values[c]] = [kind |-> k, id |-> c - 1, f |-> values[c]]
    BY <2>4
  <2> QED
    BY <2>1, <2>2, <2>3, <2>5, Zenon
<1> QED
  BY <1>2, Zenon DEF Evaluated, Own

\* The candidates in any order: the one with an id is found, and is the one
\* put into the column of that id.
LEMMA RankIsOwn ==
  ASSUME NEW g \in BOOLEAN, NEW values \in [Columns -> GenValues], NEW order \in Orders,
         NEW s, s = [i \in Columns |-> Own(g, values)[order[i]]],
         NEW c \in Columns
  PROVE  /\ RankOf(c - 1, s) + 1 \in Columns
         /\ s[RankOf(c - 1, s) + 1].kind = Asked(g)[c].kind
<1> DEFINE at == {i \in Columns : s[i].id = c - 1}
<1>1. order \in [Columns -> Columns]
  BY DEF Orders
<1>2. \A i \in Columns : s[i].id = order[i] - 1 /\ s[i].kind = Asked(g)[order[i]].kind
  <2> SUFFICES ASSUME NEW i \in Columns
               PROVE  s[i].id = order[i] - 1 /\ s[i].kind = Asked(g)[order[i]].kind
    OBVIOUS
  <2>1. PICK k : k = Asked(g)[order[i]].kind
    OBVIOUS
  <2>2. s[i] = Own(g, values)[order[i]]
    OBVIOUS
  <2>3. Own(g, values)[order[i]] = [kind |-> k, id |-> order[i] - 1, f |-> values[order[i]]]
    BY <1>1, <2>1 DEF Own
  <2>4. s[i].id = order[i] - 1 /\ s[i].kind = k
    BY <2>2, <2>3
  <2> QED
    BY <2>1, <2>4
<1>3. at # {}
  <2>1. PICK i \in Columns : order[i] = c
    BY OrdersReachAll
  <2>2. s[i].id = c - 1
    BY <1>2, <2>1
  <2> QED
    BY <2>2
<1>4. at \in SUBSET Nat
  BY Sizes
<1>5. PICK i \in at : \A j \in at : i <= j
  BY <1>3, <1>4, LeastIn
<1> DEFINE first == CHOOSE k \in at : \A j \in at : k <= j
<1>6. first \in at
  BY <1>5
<1>7. RankOf(c - 1, s) = first - 1
  BY <1>3 DEF RankOf
<1> HIDE DEF first
<1>8. first \in Columns /\ s[first].id = c - 1 /\ first \in Nat
  BY <1>6, Sizes
<1>9. order[first] = c
  <2>1. s[first].id = order[first] - 1 /\ order[first] \in Columns
    BY <1>1, <1>2, <1>8, Zenon
  <2>2. PICK k : k = order[first]
    OBVIOUS
  <2>3. k \in Int /\ c \in Int /\ k - 1 = c - 1
    BY <1>8, <2>1, <2>2, ColumnIs
  <2> QED
    BY <2>2, <2>3
<1>10. s[first].kind = Asked(g)[c].kind
  BY <1>2, <1>8, <1>9, Zenon
<1>11. RankOf(c - 1, s) + 1 = first
  BY <1>7, <1>8
<1> QED
  BY <1>8, <1>10, <1>11, Zenon

-----------------------------------------------------------------------------
(* Sums.                                                                     *)

AnyOf(t) == CHOOSE c \in t : TRUE

\* The sums of s over the subsets of its domain, as the fold defines them.
Adds(h, s) ==
  \A t \in SUBSET DOMAIN s : h[t] = IF t = {} THEN 0 ELSE s[AnyOf(t)] + h[t \ {AnyOf(t)}]

Sums(s) == CHOOSE h : h = [t \in SUBSET DOMAIN s |->
                             IF t = {} THEN 0 ELSE s[AnyOf(t)] + h[t \ {AnyOf(t)}]]

LEMMA SumIs == ASSUME NEW s PROVE SumOf(s) = Sums(s)[DOMAIN s]
BY Zenon DEF SumOf, MapThenFoldSet, Sums, AnyOf

LEMMA AnyIsIn == ASSUME NEW t, t # {} PROVE AnyOf(t) \in t
BY DEF AnyOf

\* Taking an element out of a finite set leaves one less.
LEMMA OneLess ==
  ASSUME NEW S, IsFiniteSet(S), NEW t \in SUBSET S
  PROVE  /\ Cardinality(t) \in Nat
         /\ t # {} => /\ t \ {AnyOf(t)} \in SUBSET S
                      /\ Cardinality(t \ {AnyOf(t)}) = Cardinality(t) - 1
         /\ Cardinality(t) = 0 => t = {}
<1>1. IsFiniteSet(t)
  BY FS_Subset
<1>2. Cardinality(t) \in Nat
  BY <1>1, FS_CardinalityType
<1>3. Cardinality(t) = 0 => t = {}
  BY <1>1, FS_EmptySet
<1>4. ASSUME t # {} PROVE Cardinality(t \ {AnyOf(t)}) = Cardinality(t) - 1
  <2>1. PICK a : a = AnyOf(t) /\ a \in t
    BY <1>4, AnyIsIn
  <2>2. Cardinality(t \ {a}) = Cardinality(t) - 1
    BY <1>1, <2>1, FS_RemoveElement
  <2> QED
    BY <2>1, <2>2
<1> QED
  BY <1>2, <1>3, <1>4

\* Sets of naturals that hold 0 and with each number the next hold them all.
LEMMA AllOf ==
  ASSUME NEW S \in SUBSET Nat, 0 \in S, \A n \in Nat : n \in S => n + 1 \in S
  PROVE  S = Nat
<1> SUFFICES ASSUME S # Nat PROVE FALSE
  OBVIOUS
<1>1. PICK n \in Nat \ S : \A w \in Nat \ S : n <= w
  BY LeastIn
<1>2. n - 1 \in Nat /\ n - 1 \notin Nat \ S
  BY <1>1
<1>3. n - 1 + 1 \in S
  BY <1>2
<1> QED
  BY <1>1, <1>3

LEMMA SumsExist ==
  ASSUME NEW S, IsFiniteSet(S), NEW s \in [S -> Int]
  PROVE  Adds(Sums(s), s)
<1> DEFINE Layer(k) == {t \in SUBSET S : Cardinality(t) <= k}
           Next1(h, t) == IF t = {} THEN 0 ELSE s[AnyOf(t)] + h[t \ {AnyOf(t)}]
           Some == {k \in Nat : \E g \in [Layer(k) -> Int] : \A t \in Layer(k) : g[t] = Next1(g, t)}
<1>1. 0 \in Some
  <2> DEFINE g == [t \in Layer(0) |-> 0]
  <2>1. g \in [Layer(0) -> Int]
    OBVIOUS
  <2>2. ASSUME NEW t \in Layer(0) PROVE t = {}
    <3>1. Cardinality(t) \in Nat /\ Cardinality(t) <= 0
      BY OneLess
    <3>2. Cardinality(t) = 0
      BY <3>1
    <3>3. t \in SUBSET S
      OBVIOUS
    <3> QED
      BY <3>2, <3>3, OneLess, Zenon
  <2>3. \A t \in Layer(0) : g[t] = Next1(g, t)
    BY <2>2
  <2> QED
    BY <2>1, <2>3
<1>2. ASSUME NEW k \in Nat, k \in Some PROVE k + 1 \in Some
  <2>1. PICK g \in [Layer(k) -> Int] : \A t \in Layer(k) : g[t] = Next1(g, t)
    BY <1>2
  <2> DEFINE h == [t \in Layer(k + 1) |-> Next1(g, t)]
  <2>2. ASSUME NEW t \in Layer(k + 1), t # {}
        PROVE  t \ {AnyOf(t)} \in Layer(k) /\ s[AnyOf(t)] \in Int
    <3>1. t \ {AnyOf(t)} \in SUBSET S /\ Cardinality(t \ {AnyOf(t)}) = Cardinality(t) - 1
          /\ Cardinality(t) \in Nat /\ Cardinality(t) <= k + 1
      BY <2>2, OneLess
    <3>2. AnyOf(t) \in S
      BY <2>2, AnyIsIn
    <3> QED
      BY <3>1, <3>2
  <2>3. h \in [Layer(k + 1) -> Int]
    <3> SUFFICES ASSUME NEW t \in Layer(k + 1) PROVE Next1(g, t) \in Int
      OBVIOUS
    <3>1. CASE t = {}
      BY <3>1
    <3>2. CASE t # {}
      <4>1. g[t \ {AnyOf(t)}] \in Int /\ s[AnyOf(t)] \in Int
        BY <2>2, <3>2
      <4> QED
        BY <3>2, <4>1
    <3> QED
      BY <3>1, <3>2
  <2>4. ASSUME NEW t \in Layer(k) PROVE t \in Layer(k + 1) /\ h[t] = g[t]
    <3>1. t \in SUBSET S /\ Cardinality(t) \in Nat /\ Cardinality(t) <= k
      BY OneLess
    <3>2. Cardinality(t) <= k + 1
      BY <3>1
    <3> QED
      BY <2>1, <3>1, <3>2
  <2>5. ASSUME NEW t \in Layer(k + 1) PROVE h[t] = Next1(h, t)
    <3>1. CASE t = {}
      BY <3>1
    <3>2. CASE t # {}
      <4>1. h[t \ {AnyOf(t)}] = g[t \ {AnyOf(t)}]
        BY <2>2, <2>4, <3>2
      <4> HIDE DEF h
      <4>2. Next1(h, t) = Next1(g, t)
        BY <4>1
      <4> USE DEF h
      <4> QED
        BY <4>2
    <3> QED
      BY <3>1, <3>2
  <2>6. \E g1 \in [Layer(k + 1) -> Int] : \A t \in Layer(k + 1) : g1[t] = Next1(g1, t)
    <3> HIDE DEF h, Layer, Next1
    <3> QED
      BY <2>3, <2>5
  <2>7. k + 1 \in Nat
    OBVIOUS
  <2> QED
    BY <2>6, <2>7
<1>3. Some = Nat
  <2> HIDE DEF Some
  <2>1. Some \in SUBSET Nat
    BY DEF Some
  <2> QED
    BY <1>1, <1>2, <2>1, AllOf
<1>4. Cardinality(S) \in Nat /\ \A t \in SUBSET S : Cardinality(t) <= Cardinality(S)
  BY FS_CardinalityType, FS_Subset
<1>5. Layer(Cardinality(S)) = SUBSET S
  BY <1>4
<1>6. PICK g \in [SUBSET S -> Int] : \A t \in SUBSET S : g[t] = Next1(g, t)
  BY <1>3, <1>4, <1>5
<1>7. g = [t \in SUBSET S |-> Next1(g, t)]
  BY <1>6
<1>8. DOMAIN s = S
  OBVIOUS
<1>9. Sums(s) = [t \in SUBSET S |-> Next1(Sums(s), t)]
  BY <1>7, <1>8, Zenon DEF Sums
<1> QED
  BY <1>8, <1>9, Zenon DEF Adds

LEMMA SumIsNegative ==
  ASSUME NEW S, IsFiniteSet(S), NEW s \in [S -> Int], \A c \in S : s[c] <= 0
  PROVE  SumOf(s) \in Int /\ SumOf(s) <= 0
<1>1. PICK h : h = Sums(s) /\ Adds(h, s)
  BY SumsExist
<1>2. DOMAIN s = S
  OBVIOUS
<1> DEFINE Fine == {k \in Nat : \A t \in SUBSET S : Cardinality(t) = k => h[t] \in Int /\ h[t] <= 0}
<1>3. 0 \in Fine
  <2> SUFFICES ASSUME NEW t \in SUBSET S, Cardinality(t) = 0 PROVE h[t] \in Int /\ h[t] <= 0
    OBVIOUS
  <2>1. t = {}
    BY OneLess
  <2>2. h[{}] = 0
    BY <1>1, <1>2, Zenon DEF Adds
  <2> QED
    BY <2>1, <2>2
<1>4. ASSUME NEW k \in Nat, k \in Fine PROVE k + 1 \in Fine
  <2> SUFFICES ASSUME NEW t \in SUBSET S, Cardinality(t) = k + 1 PROVE h[t] \in Int /\ h[t] <= 0
    OBVIOUS
  <2>1. t # {}
    <3>1. Cardinality({}) = 0 /\ k + 1 # 0
      BY FS_EmptySet
    <3> QED
      BY <3>1
  <2>02. t \ {AnyOf(t)} \in SUBSET S /\ Cardinality(t \ {AnyOf(t)}) = k
    <3>1. t \ {AnyOf(t)} \in SUBSET S /\ Cardinality(t \ {AnyOf(t)}) = Cardinality(t) - 1
      BY <2>1, OneLess
    <3>2. Cardinality(t \ {AnyOf(t)}) = k + 1 - 1
      BY <3>1
    <3>3. k + 1 - 1 = k
      OBVIOUS
    <3> QED
      BY <3>1, <3>2, <3>3
  <2>2. PICK r : r = t \ {AnyOf(t)} /\ r \in SUBSET S /\ Cardinality(r) = k
    BY <2>02, Zenon
  <2>3. h[r] \in Int /\ h[r] <= 0
    BY <1>4, <2>2
  <2>4. PICK a \in S : a = AnyOf(t)
    BY <2>1, AnyIsIn
  <2>5. h[t] = s[a] + h[r]
    BY <1>1, <1>2, <2>1, <2>2, <2>4 DEF Adds
  <2> QED
    BY <2>3, <2>5
<1>5. Fine = Nat
  <2> HIDE DEF Fine
  <2>1. Fine \in SUBSET Nat
    BY DEF Fine
  <2> QED
    BY <1>3, <1>4, <2>1, AllOf
<1>6. Cardinality(S) \in Nat
  BY FS_CardinalityType
<1>7. h[S] \in Int /\ h[S] <= 0
  BY <1>5, <1>6
<1> QED
  BY <1>1, <1>2, <1>7, SumIs

-----------------------------------------------------------------------------
(* The noise that uncertainty handling sees.                                 *)

LEMMA QuantileIs ==
  ASSUME NEW d \in 0 .. PopSize - 1
  PROVE  Quantile(d) \in Nat
<1> DEFINE near(v) == {j \in 1 .. 2 * PopSize - 1 : Abs(j - d) < v}
           within(v) == Cardinality(near(v))
           tenth == (2 * PopSize - 1) \div 10
           Enough == {v \in Nat : tenth < within(v)}
<1>0. PopSize \in Nat /\ PopSize >= 3
  BY GenerationAssumption
<1>1. tenth \in Nat /\ tenth < 2 * PopSize - 1
  BY <1>0
<1>2. ASSUME NEW j \in 1 .. 2 * PopSize - 1 PROVE Abs(j - d) \in Nat /\ Abs(j - d) < 2 * PopSize + 1
  BY <1>0 DEF Abs
<1>3. near(2 * PopSize + 1) = 1 .. 2 * PopSize - 1 /\ near(0) = {}
  BY <1>2
<1>4. ASSUME NEW v PROVE within(v) \in Nat
  <2>1. IsFiniteSet(1 .. 2 * PopSize - 1) /\ near(v) \in SUBSET (1 .. 2 * PopSize - 1)
    BY <1>0, FS_Interval
  <2> HIDE DEF near
  <2> QED
    BY <2>1, FS_Subset, FS_CardinalityType
<1>5. within(2 * PopSize + 1) = 2 * PopSize - 1 /\ within(0) = 0
  <2>1. Cardinality(1 .. 2 * PopSize - 1) = 2 * PopSize - 1
    BY <1>0, FS_Interval
  <2> HIDE DEF near
  <2> QED
    BY <1>3, <2>1, FS_EmptySet
<1>6. Quantile(d) = CHOOSE v \in 0 .. 2 * PopSize : within(v) <= tenth /\ tenth < within(v + 1)
  BY Zenon DEF Quantile
<1> HIDE DEF near, within, tenth
<1>7. 2 * PopSize + 1 \in Enough /\ Enough \in SUBSET Nat
  BY <1>0, <1>1, <1>5
<1>8. PICK w \in Enough : \A v \in Enough : w <= v
  BY <1>7, LeastIn
<1>9. w \in Nat /\ w # 0 /\ w <= 2 * PopSize + 1 /\ tenth < within(w)
  BY <1>1, <1>5, <1>7, <1>8
<1>10. w - 1 \in Nat /\ w - 1 \notin Enough
  BY <1>8, <1>9
<1>11. within(w - 1) \in Nat /\ ~(tenth < within(w - 1))
  BY <1>4, <1>10
<1>12. PICK v \in 0 .. 2 * PopSize : v = w - 1
  BY <1>0, <1>9, <1>10
<1>13. v + 1 = w
  BY <1>9, <1>12
<1>14. within(v) <= tenth /\ tenth < within(v + 1)
  BY <1>1, <1>9, <1>11, <1>12, <1>13
<1>15. Quantile(d) \in 0 .. 2 * PopSize
  BY <1>6, <1>14, Zenon
<1> QED
  BY <1>0, <1>15

\* Rankings by values of which no two are equal are the same.
LEMMA RankingsAgree ==
  ASSUME NEW key \in [Columns -> Int], \A a, b \in Columns : a # b => key[a] # key[b],
         NEW p1 \in Rankings(key), NEW p2 \in Rankings(key)
  PROVE  p1 = p2
<1>1. /\ p1 \in Orders /\ p2 \in Orders
      /\ p1 \in [Columns -> Columns] /\ p2 \in [Columns -> Columns]
      /\ \A i, j \in Columns : /\ key[i] < key[j] => p1[i] < p1[j] /\ p2[i] < p2[j]
                               /\ i # j => p1[i] # p1[j] /\ p2[i] # p2[j]
  BY DEF Rankings, Orders
<1> DEFINE Bad == {k \in Columns : \E c \in Columns : p1[c] = k /\ p2[c] # k}
<1>2. CASE Bad = {}
  BY <1>1, <1>2
<1>3. CASE Bad # {}
  <2>1. PICK k \in Bad : \A w \in Bad : k <= w
    <3>1. Bad \in SUBSET Nat
      BY ColumnIs
    <3> QED
      BY <1>3, <3>1, LeastIn
  <2>2. PICK c \in Columns : p1[c] = k /\ p2[c] # k
    OBVIOUS
  <2>3. PICK d \in Columns : p2[d] = k
    BY <1>1, OrdersReachAll
  <2>4. c # d /\ p1[d] # k
    BY <1>1, <2>2, <2>3
  <2>5. p1[d] \in Bad
    BY <1>1, <2>3, <2>4
  <2>6. k \in Int /\ p1[d] \in Int /\ k < p1[d]
    <3>1. k \in Columns /\ p1[d] \in Columns
      BY <1>1
    <3>2. k <= p1[d]
      <4> HIDE DEF Bad
      <4> QED
        BY <2>1, <2>5
    <3>3. k \in Int /\ p1[d] \in Int
      BY <3>1, ColumnIs
    <3> QED
      BY <2>4, <3>2, <3>3
  <2>7. ~(key[d] < key[c])
    BY <1>1, <2>2, <2>6
  <2>8. key[c] < key[d]
    BY <2>4, <2>7
  <2>9. p2[c] \in Columns /\ p2[c] < k
    BY <1>1, <2>3, <2>8
  <2>10. p2[c] \notin Bad
    <3>1. p2[c] \in Int
      BY <2>9, ColumnIs
    <3> HIDE DEF Bad
    <3> QED
      BY <2>1, <2>6, <2>9, <3>1
  <2>11. PICK e \in Columns : p1[e] = p2[c]
    BY <1>1, <2>9, OrdersReachAll
  <2>12. p2[e] = p2[c]
    BY <2>9, <2>10, <2>11
  <2>13. e = c
    BY <1>1, <2>12
  <2> QED
    BY <2>2, <2>11, <2>13
<1> QED
  BY <1>2, <1>3

-----------------------------------------------------------------------------
(* tell().                                                                   *)

LEMMA GenConstants ==
  /\ PopSize \in Nat /\ PopSize >= 3 /\ GenValues \subseteq Nat
  /\ \A n \in Reevaluated : n \in Nat /\ n \in 1 .. PopSize
BY GenerationAssumption

LEMMA ValuesAre == ASSUME NEW values \in [Columns -> GenValues] PROVE values \in [Columns -> Int]
<1>1. GenValues \subseteq Int
  BY GenerationAssumption
<1>2. \A c \in Columns : values[c] \in Int
  BY <1>1
<1> QED
  BY <1>2

\* A record with three of its fields set.
LEMMA RankedBy ==
  ASSUME NEW u, NEW x, NEW y, NEW z, NEW v, NEW w, NEW i,
         u = [f |-> v, mut |-> w, idx |-> i, r1 |-> 0, r2 |-> 0, delta |-> 0],
         NEW r, r = [u EXCEPT !.r1 = x, !.r2 = y, !.delta = z]
  PROVE  r.f = v /\ r.mut = w /\ r.r1 = x /\ r.r2 = y /\ r.delta = z
<1>1. PICK u1 : u1 = [u EXCEPT !.r1 = x]
  OBVIOUS
<1>2. u1 = [f |-> v, mut |-> w, idx |-> i, r1 |-> x, r2 |-> 0, delta |-> 0]
  BY <1>1
<1>3. PICK u2 : u2 = [u1 EXCEPT !.r2 = y]
  OBVIOUS
<1>4. u2 = [f |-> v, mut |-> w, idx |-> i, r1 |-> x, r2 |-> y, delta |-> 0]
  BY <1>2, <1>3
<1>5. PICK u3 : u3 = [u2 EXCEPT !.delta = z]
  OBVIOUS
<1>6. u3 = [f |-> v, mut |-> w, idx |-> i, r1 |-> x, r2 |-> y, delta |-> z]
  BY <1>4, <1>5
<1>7. u3.f = v /\ u3.mut = w /\ u3.r1 = x /\ u3.r2 = y /\ u3.delta = z
  BY <1>6
<1> QED
  BY <1>1, <1>3, <1>5, <1>7, Zenon

\* Copies whose values agree, no two of them equal, have one ranking: r1 and r2
\* are it, there is no delta, and the noise is not above 0.
Quiet(u, p, v) ==
  \A c \in Columns : /\ u[c].f = v[c] /\ u[c].mut = v[c]
                     /\ u[c].r1 = p[c] - 1 /\ u[c].r2 = p[c] - 1 /\ u[c].delta = 0

LEMMA QuietNoise ==
  ASSUME NEW u, NEW p \in Orders, NEW v, Quiet(u, p, v), reev \in Reevaluated
  PROVE  Sgn(Uncertainty(u)) <= 0
<1> DEFINE term(c) == 2 * Abs(u[c].delta)
                        - Quantile(u[c].r2 - (IF u[c].r2 > u[c].r1 THEN 1 ELSE 0))
                        - Quantile(u[c].r1 - (IF u[c].r1 > u[c].r2 THEN 1 ELSE 0))
           terms == [c \in 1 .. reev |-> term(c)]
<1>1. ASSUME NEW c \in 1 .. reev PROVE term(c) \in Int /\ term(c) <= 0
  <2>1. c \in Columns
    BY GenConstants DEF Columns
  <2>2. PICK k \in 0 .. PopSize - 1 : k = p[c] - 1
    <3>1. p[c] \in Columns
      BY <2>1 DEF Orders
    <3> QED
      BY <3>1, GenConstants DEF Columns
  <2>3. u[c].r1 = k /\ u[c].r2 = k /\ u[c].delta = 0
    BY <2>1, <2>2 DEF Quiet
  <2>4. term(c) = 2 * Abs(0) - Quantile(k - 0) - Quantile(k - 0)
    BY <2>3
  <2>5. k - 0 = k /\ Abs(0) = 0
    BY DEF Abs
  <2>6. PICK q \in Nat : q = Quantile(k)
    BY QuantileIs
  <2>7. term(c) = 2 * 0 - q - q
    BY <2>4, <2>5, <2>6
  <2> HIDE DEF term
  <2> QED
    BY <2>7
<1> HIDE DEF term
<1>2. terms \in [1 .. reev -> Int] /\ \A c \in 1 .. reev : terms[c] <= 0
  BY <1>1
<1>3. IsFiniteSet(1 .. reev)
  BY GenConstants, FS_Interval
<1>4. Uncertainty(u) = SumOf(terms)
  BY Zenon DEF Uncertainty, term, terms
<1> HIDE DEF terms
<1>5. SumOf(terms) \in Int /\ SumOf(terms) <= 0
  BY <1>2, <1>3, SumIsNegative
<1> QED
  BY <1>4, <1>5 DEF Sgn

LEMMA QuietOrder ==
  ASSUME NEW u, NEW p \in Orders, NEW v \in [Columns -> Int], Quiet(u, p, v),
         p \in Rankings(v), \A a, b \in Columns : a # b => v[a] # v[b],
         NEW order \in Reranked(u)
  PROVE  /\ order \in Orders
         /\ \A i, j \in Columns : i < j => v[order[i]] < v[order[j]]
<1> DEFINE less == {ab \in Columns \X Columns : Rerank(u, ab[1], ab[2])}
<1>0. p \in [Columns -> Columns] /\ \A a, b \in Columns : a # b => p[a] # p[b]
  BY DEF Orders
<1>1. \A c \in Columns : p[c] \in Int
  BY <1>0, ColumnIs
<1>2. ASSUME NEW a \in Columns, NEW b \in Columns
      PROVE  Rerank(u, a, b) <=> p[a] < p[b]
  <2>1. PICK x \in Int, y \in Int : x = p[a] /\ y = p[b]
    BY <1>1
  <2>2. /\ u[a].r1 = x - 1 /\ u[a].r2 = x - 1 /\ u[b].r2 = y - 1 /\ u[b].r1 = y - 1
        /\ u[a].delta = 0 /\ u[b].delta = 0
        /\ u[a].f = v[a] /\ u[a].mut = v[a] /\ u[b].f = v[b] /\ u[b].mut = v[b]
    BY <2>1 DEF Quiet
  <2>3. Rerank(u, a, b) <=> IF (x - 1) + (x - 1) = (y - 1) + (y - 1)
                              THEN v[a] + v[a] < v[b] + v[b]
                              ELSE (x - 1) + (x - 1) < (y - 1) + (y - 1)
    BY <2>2, Zenon DEF Rerank
  <2>4. CASE a = b
    BY <2>1, <2>3, <2>4
  <2>5. CASE a # b
    BY <1>0, <2>1, <2>3, <2>5
  <2> QED
    BY <2>4, <2>5
<1>3. \A a, b \in Columns : <<a, b>> \in less <=> p[a] < p[b]
  BY <1>2
<1> HIDE DEF less
<1>4. StrictWeak(less)
  <2> SUFFICES ASSUME NEW a \in Columns, NEW b \in Columns, NEW c \in Columns
      PROVE  /\ <<a, b>> \in less => <<b, a>> \notin less
             /\ (<<a, b>> \in less /\ <<b, c>> \in less) => <<a, c>> \in less
             /\ ({<<a, b>>, <<b, a>>, <<b, c>>, <<c, b>>} \cap less = {})
                  => {<<a, c>>, <<c, a>>} \cap less = {}
    BY Zenon DEF StrictWeak
  <2>1. PICK x \in Int, y \in Int, z \in Int : x = p[a] /\ y = p[b] /\ z = p[c]
    BY <1>1
  <2>2. /\ <<a, b>> \in less <=> x < y
        /\ <<b, a>> \in less <=> y < x
        /\ <<b, c>> \in less <=> y < z
        /\ <<c, b>> \in less <=> z < y
        /\ <<a, c>> \in less <=> x < z
        /\ <<c, a>> \in less <=> z < x
    BY <1>3, <2>1
  <2>3. ASSUME {<<a, b>>, <<b, a>>, <<b, c>>, <<c, b>>} \cap less = {}
        PROVE  {<<a, c>>, <<c, a>>} \cap less = {}
    <3>1. <<a, b>> \notin less /\ <<b, a>> \notin less /\ <<b, c>> \notin less /\ <<c, b>> \notin less
      BY <2>3, Zenon
    <3>2. x = y /\ y = z
      BY <2>2, <3>1
    <3>3. <<a, c>> \notin less /\ <<c, a>> \notin less
      BY <2>2, <3>2
    <3> QED
      BY <3>3, Zenon
  <2> QED
    BY <2>2, <2>3
<1>5. order \in {q \in Orders : \A i, j \in Columns : i < j => <<q[j], q[i]>> \notin less}
  BY <1>4, Zenon DEF Reranked, less
<1>6. order \in Orders /\ order \in [Columns -> Columns]
      /\ \A a, b \in Columns : a # b => order[a] # order[b]
  BY <1>5 DEF Orders
<1>7. ASSUME NEW i \in Columns, NEW j \in Columns, i < j PROVE v[order[i]] < v[order[j]]
  <2>1. PICK a \in Columns, b \in Columns : a = order[i] /\ b = order[j]
    BY <1>6
  <2>2. a # b
    BY <1>6, <1>7, <2>1, ColumnIs
  <2>3. ~(p[b] < p[a])
    BY <1>3, <1>5, <1>7, <2>1
  <2>4. ~(v[b] < v[a])
    BY <2>3 DEF Rankings
  <2> QED
    BY <2>1, <2>2, <2>4
<1> QED
  BY <1>6, <1>7

\* Columns with a value each.
Sized(s) == \A c \in Columns : s[c].f \in Int

\* Sorted or in the order of uncertainty handling, the candidates told are the
\* ones evaluated, each once.
LEMMA ToldIsOrder ==
  ASSUME GenInv, gpc = "evaluated", GenerationTell, Sized(pop)
  PROVE  \E order \in Orders : pop' = [i \in Columns |-> pop[order[i]]]
<1>1. CASE gopt.uh
  <2>1. PICK order \in Reranked(uh') : pop' = [i \in Columns |-> pop[order[i]]]
    BY <1>1 DEF GenerationTell, UncertaintyHandling
  <2>2. order \in Orders
    BY Zenon DEF Reranked
  <2> QED
    BY <2>1, <2>2
<1>2. CASE ~gopt.uh
  <2> DEFINE before(a, b) == pop[a].f < pop[b].f \/ (pop[a].f = pop[b].f /\ a < b)
             R == {ab \in Columns \X Columns : before(ab[1], ab[2])}
             sorts(p) == \A i, j \in Columns : i < j => before(p[i], p[j])
             order == CHOOSE p \in Orders : sorts(p)
  <2>1. \A a, b \in Columns : <<a, b>> \in R <=> before(a, b)
    OBVIOUS
  <2>2. \A c \in Columns : pop[c].f \in Int
    BY DEF Sized
  <2>3. /\ \A a, b \in Columns : a # b => <<a, b>> \in R \/ <<b, a>> \in R
        /\ \A a, b, c \in Columns : <<a, b>> \in R /\ <<b, c>> \in R => <<a, c>> \in R
        /\ \A a \in Columns : <<a, a>> \notin R
    BY <2>1, <2>2, ColumnIs
  <2>4. R \in SUBSET (Columns \X Columns)
    OBVIOUS
  <2>5. \E p \in Orders : \A i, j \in Columns : i < j => <<p[i], p[j]>> \in R
    <3> HIDE DEF R
    <3> QED
      BY <2>3, <2>4, CanBeSorted
  <2>6. \E p \in Orders : sorts(p)
    <3>1. PICK p \in Orders : \A i, j \in Columns : i < j => <<p[i], p[j]>> \in R
      BY <2>5
    <3>2. \A i \in Columns : p[i] \in Columns
      BY DEF Orders
    <3>3. sorts(p)
      <4> HIDE DEF R, before
      <4> QED
        BY <2>1, <3>1, <3>2
    <3> QED
      BY <3>3
  <2>7. order \in Orders
    BY <2>6, Zenon
  <2>8. pop' = SortCandidates(pop)
    BY <1>2 DEF GenerationTell
  <2>9. SortCandidates(pop) = [i \in Columns |-> pop[order[i]]]
    BY Zenon DEF SortCandidates
  <2> QED
    BY <2>7, <2>8, <2>9, Zenon
<1> QED
  BY <1>1, <1>2

LEMMA TellTpa ==
  ASSUME GenInv, GenerationTell
  PROVE  TpaRanksOwn'
<1>1. gpc = "evaluated" /\ gopt' = gopt /\ injected' = injected
  BY DEF GenerationTell
<1>2. TpaActive' = TpaActive
  BY <1>1 DEF TpaActive
<1> SUFFICES ASSUME TpaActive, ~injected
             PROVE  pop'[ranks'[1] + 1].kind = "tpa1" /\ pop'[ranks'[2] + 1].kind = "tpa2"
  BY <1>1, <1>2 DEF TpaRanksOwn
<1>3. PICK g \in BOOLEAN, values \in [Columns -> GenValues] : pop = Own(g, values)
  BY <1>1 DEF GenInv
<1>4. Sized(pop)
  BY <1>3, ValuesAre, OwnIs DEF Sized
<1>5. PICK order \in Orders : pop' = [i \in Columns |-> Own(g, values)[order[i]]]
  BY <1>1, <1>3, <1>4, ToldIsOrder
<1>6. ranks' = <<RankOf(TpaIds[1], pop'), RankOf(TpaIds[2], pop')>>
  BY DEF GenerationTell
<1>7. CASE gopt.gradient
  <2>1. TpaIds[1] = 2 - 1 /\ TpaIds[2] = 3 - 1 /\ 2 \in Columns /\ 3 \in Columns
    BY <1>7, Sizes DEF TpaIds
  <2>2. Asked(g)[2].kind = "tpa1" /\ Asked(g)[3].kind = "tpa2"
    BY <1>7, <2>1 DEF Asked
  <2>3. pop'[RankOf(2 - 1, pop') + 1].kind = "tpa1" /\ pop'[RankOf(3 - 1, pop') + 1].kind = "tpa2"
    BY <1>5, <2>1, <2>2, RankIsOwn
  <2> QED
    BY <1>6, <2>1, <2>3
<1>8. CASE ~gopt.gradient
  <2>1. TpaIds[1] = 1 - 1 /\ TpaIds[2] = 2 - 1 /\ 1 \in Columns /\ 2 \in Columns
    BY <1>8, Sizes DEF TpaIds
  <2>2. Asked(g)[1].kind = "tpa1" /\ Asked(g)[2].kind = "tpa2"
    BY <1>8, <2>1 DEF Asked
  <2>3. pop'[RankOf(1 - 1, pop') + 1].kind = "tpa1" /\ pop'[RankOf(2 - 1, pop') + 1].kind = "tpa2"
    BY <1>5, <2>1, <2>2, RankIsOwn
  <2> QED
    BY <1>6, <2>1, <2>3
<1> QED
  BY <1>7, <1>8

LEMMA TellQuiet ==
  ASSUME GenInv, GenerationTell
  PROVE  QuietRanking'
<1>1. gpc = "evaluated" /\ gopt' = gopt /\ injected' = injected /\ reev' = reev
  BY DEF GenerationTell
<1> SUFFICES ASSUME gopt.uh, ~injected,
                    \A c, d \in Columns : uh'[c].mut = uh'[c].f /\ (c # d => uh'[c].f # uh'[d].f)
             PROVE  /\ noise' <= 0
                    /\ \A i \in 1 .. PopSize - 1 : pop'[i].f < pop'[i + 1].f
  BY <1>1 DEF QuietRanking
<1>2. PICK g \in BOOLEAN, values \in [Columns -> GenValues] : pop = Own(g, values) /\ Copied(values)
  BY <1>1 DEF GenInv
<1>3. PICK n \in Reevaluated : \E again \in [1 .. n -> GenValues] :
        uh = Reevaluation(values, again, n) /\ reev = n
  BY <1>2 DEF Copied
<1>4. PICK again \in [1 .. n -> GenValues] : uh = Reevaluation(values, again, n) /\ reev = n
  BY <1>3
<1> DEFINE mut(c) == IF c <= n THEN again[c] ELSE values[c]
<1>5. \A c \in Columns : uh[c] = [f |-> values[c], mut |-> mut(c), idx |-> c,
                                  r1 |-> 0, r2 |-> 0, delta |-> 0]
  BY <1>4 DEF Reevaluation
<1> HIDE DEF mut
<1>6. PICK p1 \in Rankings([c \in Columns |-> uh[c].f]), p2 \in Rankings([c \in Columns |-> uh[c].mut]) :
        /\ uh' = RankedAll(p1, p2)
        /\ \E order \in Reranked(uh') : pop' = [i \in Columns |-> pop[order[i]]]
        /\ noise' = Sgn(Uncertainty(uh'))
  BY <1>1, Zenon DEF GenerationTell, UncertaintyHandling
<1>7. ASSUME NEW c \in Columns
      PROVE  /\ uh'[c].f = values[c] /\ uh'[c].mut = mut(c)
             /\ uh'[c].r1 = p1[c] - 1 /\ uh'[c].r2 = p2[c] - 1
             /\ uh'[c].delta = IF c <= reev THEN (p2[c] - p1[c]) - Sgn(p2[c] - p1[c]) ELSE 0
  <2>1. PICK v : v = values[c]
    OBVIOUS
  <2>2. PICK w : w = mut(c)
    OBVIOUS
  <2>3. PICK u : u = uh[c] /\ u = [f |-> v, mut |-> w, idx |-> c, r1 |-> 0, r2 |-> 0, delta |-> 0]
    BY <1>5, <2>1, <2>2
  <2> DEFINE z == IF c <= reev THEN (p2[c] - p1[c]) - Sgn(p2[c] - p1[c]) ELSE 0
  <2>4. uh'[c] = [u EXCEPT !.r1 = p1[c] - 1, !.r2 = p2[c] - 1, !.delta = z]
    BY <1>6, <2>3, Zenon DEF RankedAll
  <2>5. PICK x, y, d : x = p1[c] - 1 /\ y = p2[c] - 1 /\ d = z
    OBVIOUS
  <2> HIDE DEF z
  <2>6. PICK r : r = [u EXCEPT !.r1 = x, !.r2 = y, !.delta = d]
    OBVIOUS
  <2>7. r.f = v /\ r.mut = w /\ r.r1 = x /\ r.r2 = y /\ r.delta = d
    <3>1. u = [f |-> v, mut |-> w, idx |-> c, r1 |-> 0, r2 |-> 0, delta |-> 0]
      BY <2>3
    <3> QED
      BY <3>1, <2>6, RankedBy, Zenon
  <2>8. uh'[c] = r
    BY <2>4, <2>5, <2>6, Zenon
  <2>9. z = IF c <= reev THEN (p2[c] - p1[c]) - Sgn(p2[c] - p1[c]) ELSE 0
    BY DEF z
  <2> QED
    BY <2>1, <2>2, <2>5, <2>7, <2>8, <2>9, Zenon
<1>8. \A c \in Columns : uh'[c].f = values[c] /\ uh'[c].mut = mut(c)
  BY <1>7, Zenon
<1>9. /\ \A c \in Columns : mut(c) = values[c]
      /\ \A c, d \in Columns : c # d => values[c] # values[d]
  BY <1>8, Zenon
<1>10. /\ [c \in Columns |-> uh[c].f] = values /\ [c \in Columns |-> uh[c].mut] = values
  <2>1. ASSUME NEW c \in Columns PROVE uh[c].f = values[c] /\ uh[c].mut = values[c]
    <3>1. PICK v : v = values[c] /\ v = mut(c)
      BY <1>9
    <3>2. uh[c] = [f |-> v, mut |-> v, idx |-> c, r1 |-> 0, r2 |-> 0, delta |-> 0]
      BY <1>5, <3>1
    <3> QED
      BY <3>1, <3>2
  <2> QED
    BY <2>1
<1>11. values \in [Columns -> Int]
  BY ValuesAre
<1>12. p1 \in Rankings(values) /\ p2 = p1 /\ p1 \in Orders
  <2>1. p1 \in Rankings(values) /\ p2 \in Rankings(values)
    BY <1>6, <1>10
  <2>2. p2 = p1
    BY <1>9, <1>11, <2>1, RankingsAgree
  <2> QED
    BY <2>1, <2>2 DEF Rankings
<1>13. ASSUME NEW c \in Columns
       PROVE  /\ uh'[c].f = values[c] /\ uh'[c].mut = values[c]
              /\ uh'[c].r1 = p1[c] - 1 /\ uh'[c].r2 = p1[c] - 1 /\ uh'[c].delta = 0
  <2>1. PICK k \in Int : k = p1[c]
    BY <1>12, ColumnIs DEF Orders
  <2>2. k - k = 0 /\ Sgn(0) = 0 /\ 0 - 0 = 0
    BY DEF Sgn
  <2>3. uh'[c].delta = IF c <= reev THEN (k - k) - Sgn(k - k) ELSE 0
    BY <1>7, <1>12, <2>1, Zenon
  <2>4. uh'[c].delta = 0
    BY <2>2, <2>3, Zenon
  <2>5. uh'[c].r1 = p1[c] - 1 /\ uh'[c].r2 = p1[c] - 1
    BY <1>7, <1>12, Zenon
  <2> QED
    BY <1>8, <1>9, <2>4, <2>5
<1>14. PICK u : u = uh'
  OBVIOUS
<1>15. Quiet(u, p1, values)
  BY <1>13, <1>14 DEF Quiet
<1>16. noise' <= 0
  BY <1>3, <1>6, <1>12, <1>14, <1>15, QuietNoise
<1>17. PICK order \in Reranked(u) : pop' = [i \in Columns |-> pop[order[i]]]
  BY <1>6, <1>14
<1>18. /\ order \in [Columns -> Columns]
       /\ \A i, j \in Columns : i < j => values[order[i]] < values[order[j]]
  BY <1>9, <1>11, <1>12, <1>15, QuietOrder DEF Orders
<1>19. \A i \in Columns : pop'[i].f = values[order[i]]
  BY <1>2, <1>17, <1>18, OwnIs
<1>20. ASSUME NEW i \in 1 .. PopSize - 1 PROVE pop'[i].f < pop'[i + 1].f
  <2>1. i \in Columns /\ i + 1 \in Columns /\ i < i + 1
    BY GenConstants DEF Columns
  <2> QED
    BY <1>18, <1>19, <2>1
<1> QED
  BY <1>16, <1>20

LEMMA GenNextInv == GenInv /\ [GenerationNext]_genVars => GenInv'
<1> SUFFICES ASSUME GenInv, [GenerationNext]_genVars PROVE GenInv'
  OBVIOUS
<1>1. CASE StartGeneration
  <2>1. gpc' = "start" /\ injected' = injected /\ gpc = "idle"
    BY <1>1 DEF StartGeneration
  <2> QED
    BY <2>1 DEF GenInv, TpaRanksOwn, QuietRanking
<1>2. CASE Ask
  <2>1. gpc' = "asked" /\ injected' = injected /\ gpc = "start" /\ gopt' = gopt
    BY <1>2 DEF Ask
  <2>2. PICK g \in BOOLEAN : pop' = Asked(g)
    BY <1>2 DEF Ask
  <2>3. Asked(g)' = Asked(g)
    BY <2>1 DEF Asked, TpaActive
  <2> QED
    BY <2>1, <2>2, <2>3 DEF GenInv, TpaRanksOwn, QuietRanking
<1>3. CASE GenerationEval
  <2>1. gpc' = "evaluated" /\ gpc = "asked" /\ gopt' = gopt
    BY <1>3 DEF GenerationEval
  <2>2. PICK g \in BOOLEAN : pop = Asked(g)
    BY <2>1 DEF GenInv
  <2>3. PICK values \in [Columns -> GenValues] :
       /\ IF gopt.uh
            THEN \E n \in Reevaluated : \E again \in [1 .. n -> GenValues] :
                   uh' = Reevaluation(values, again, n) /\ reev' = n
            ELSE UNCHANGED <<uh, reev>>
       /\ IF gopt.elitist /\ gopt.later /\ FewBelow(values)
            THEN /\ pop' = [Evaluated(values) EXCEPT ![2] =
                              [kind |-> "elite", id |-> ref.id, f |-> ref.f]]
                 /\ injected' = TRUE
            ELSE pop' = Evaluated(values) /\ UNCHANGED injected
    BY <1>3, Zenon DEF GenerationEval
  <2>4. Copied(values)'
    BY <2>1, <2>3, Zenon DEF Copied, Reevaluation
  <2>5. ~injected' => pop' = Evaluated(values)
    BY <2>3, Zenon
  <2>6. Own(g, values)' = Own(g, values)
    BY <2>1 DEF Own, Asked, TpaActive
  <2>7. ~injected' => pop' = Own(g, values)'
    BY <2>2, <2>5, <2>6, EvaluatedIs
  <2>8. ~injected' => \E g1 \in BOOLEAN : \E v1 \in [Columns -> GenValues] :
                        pop' = Own(g1, v1)' /\ Copied(v1)'
    BY <2>4, <2>7
  <2> QED
    BY <2>1, <2>8 DEF GenInv, TpaRanksOwn, QuietRanking
<1>4. CASE GenerationTell
  <2>1. gpc' = "told"
    BY <1>4 DEF GenerationTell
  <2> QED
    BY <1>4, <2>1, TellTpa, TellQuiet DEF GenInv
<1>5. CASE NextGeneration
  <2>1. gpc' = "idle" /\ injected' = FALSE
    BY <1>5 DEF NextGeneration
  <2> QED
    BY <2>1 DEF GenInv, TpaRanksOwn, QuietRanking
<1>6. CASE UNCHANGED genVars
  BY <1>6 DEF genVars, GenInv, Own, Asked, Copied, Reevaluation, TpaRanksOwn, QuietRanking, TpaActive
<1> QED
  BY <1>1, <1>2, <1>3, <1>4, <1>5, <1>6 DEF GenerationNext

LEMMA GenInitInv == GenerationInit => GenInv
BY DEF GenerationInit, GenInv, NoOptions, TpaRanksOwn, QuietRanking

LEMMA GenInvariance == GenerationSpec => []GenInv
<1> QED
  BY GenInitInv, GenNextInv, PTL DEF GenerationSpec

\* The ranks tpa_update() reads are those of the two points that ask() put into
\* the population for it, whatever else it put there and however eval() valued
\* them.
THEOREM TpaFollowsItsPoints == GenerationSpec => []TpaRanksOwn
<1>1. GenInv => TpaRanksOwn
  BY DEF GenInv
<1> QED
  BY <1>1, GenInvariance, PTL

\* Where second evaluations agree with the first, uncertainty_handling() sees no
\* noise and ranks by value: its comparator, which is none in general, orders
\* such candidates.
THEOREM RanksByValueInQuiet == GenerationSpec => []QuietRanking
<1>1. GenInv => QuietRanking
  BY DEF GenInv
<1> QED
  BY <1>1, GenInvariance, PTL

=============================================================================
