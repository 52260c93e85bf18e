----------------------------- MODULE Contour_proofs -----------------------------
(***************************************************************************)
(* Theorems about ProfileLikelihood and Contour, for every problem, size   *)
(* of the table and bound of cross(): BoundsFromSearches and ContourGrows. *)
(*                                                                         *)
(* PLInv says what the table holds while the two directions are searched:  *)
(* once the second one begins, every cell of the first was stored by its   *)
(* search, unless maxiters cut it, and likewise at the bounds, so that the *)
(* cell minCoeff() picks is a point of its own direction.  CInv says that  *)
(* the points of the contour are numbered in the order they were found, so *)
(* that the number of a new one is in the sequence once, and what holds of *)
(* the locals of cross(): the solution it keeps for a point has the value  *)
(* it was searched for, until flsb moves on alone.  What an insertion does *)
(* to a closed curve is in the lemmas about sequences, which know nothing  *)
(* of either.                                                              *)
(***************************************************************************)
EXTENDS Contour, SequenceTheorems, FiniteSetTheorems, NaturalsInduction, WellFoundedInduction, TLAPS

-----------------------------------------------------------------------------
(* The profile likelihood.                                                   *)

\* A set of naturals has a least element.
LEMMA LeastNatural ==
  ASSUME NEW S \in SUBSET Nat, S # {}
  PROVE  \E v \in S : \A w \in S : v <= w
<1>1. PICK v \in S : \A w \in S : ~ (<<w, v>> \in OpToRel(<, Nat))
  BY NatLessThanWellFounded, WFMin, Zenon
<1>2. \A w \in S : ~ (w < v)
  BY <1>1 DEF OpToRel
<1>3. \A w \in S : v <= w
  BY <1>2
<1> QED
  BY <1>3

PosCells == CENTER + 1 .. 2 * SAMPLESIZE + 1
NegCells == 1 .. SAMPLESIZE

\* A cell that bounds at fup, for a search that is no curve.
Crosses(f) == 10 * Gap(f, problem.minimum + FUP) <= FUP

\* A direction of the table is filled with points of its search or the minimum.
Filled(cells, side) ==
  \A c \in cells : \/ le[c].by = "start"
                   \/ le[c].by = side /\ (search.curve \/ Crosses(le[c].f))

InSearch == plpc \in {"linear", "optimize", "store", "bounds"}

PLInv ==
  /\ plpc \in {"idle", "linear", "optimize", "store", "bounds", "return"}
  /\ problem \in [dim : Dims, minimum : Minima, zero : BOOLEAN]
  /\ search.i \in Nat /\ search.neg \in BOOLEAN /\ search.curve \in BOOLEAN
  /\ found \in [status : Int, f : Int]
  /\ le \in [Cells -> [by : {"none", "start", "pos", "neg"}, f : Int]]
  /\ plpc # "return" => bounds = {}
  /\ InSearch => le[CENTER] = Start
  /\ InSearch /\ plpc # "bounds" /\ search.curve =>
       search.i < SAMPLESIZE /\ \A n \in Nat : n < search.i => le[Cell(n)].by = Side
  /\ InSearch /\ search.neg /\ ~cut => Filled(PosCells, "pos")
  /\ plpc = "bounds" /\ ~cut => search.neg /\ Filled(NegCells, "neg")
  /\ BoundsFromSearches

LEMMA PLNumbers ==
  /\ SAMPLESIZE \in Nat /\ SAMPLESIZE >= 1 /\ CENTER = SAMPLESIZE + 1 /\ FUP \in Nat /\ FUP >= 1
  /\ \A m \in Minima : m \in Int
  /\ \A v \in PLValues : v \in Int
BY PLAssumption DEF CENTER

LEMMA CellIs ==
  ASSUME NEW n \in Nat, n < SAMPLESIZE
  PROVE  /\ search.neg = TRUE => Cell(n) = SAMPLESIZE - n /\ Cell(n) \in NegCells
         /\ search.neg = FALSE => Cell(n) = SAMPLESIZE + 2 + n /\ Cell(n) \in PosCells
<1>1. /\ search.neg = TRUE => Cell(n) = CENTER - (1 + n)
      /\ search.neg = FALSE => Cell(n) = CENTER + (1 + n)
  BY DEF Cell
<1> QED
  BY <1>1, PLNumbers DEF NegCells, PosCells

LEMMA CellsAre ==
  /\ \A c \in NegCells : c \in Cells /\ c # CENTER /\ c \notin PosCells
  /\ \A c \in PosCells : c \in Cells /\ c # CENTER
  /\ CENTER \in Cells
BY PLNumbers DEF NegCells, PosCells, Cells

\* The cells of a direction are numbered.
LEMMA CellNumbers ==
  /\ search.neg = TRUE => \A c \in NegCells : \E n \in 0 .. SAMPLESIZE - 1 : c = Cell(n)
  /\ search.neg = FALSE => \A c \in PosCells : \E n \in 0 .. SAMPLESIZE - 1 : c = Cell(n)
<1>1. ASSUME search.neg = TRUE, NEW c \in NegCells PROVE \E n \in 0 .. SAMPLESIZE - 1 : c = Cell(n)
  <2>1. SAMPLESIZE - c \in 0 .. SAMPLESIZE - 1 /\ SAMPLESIZE - c \in Nat /\ SAMPLESIZE - c < SAMPLESIZE
        /\ SAMPLESIZE - (SAMPLESIZE - c) = c
    BY PLNumbers DEF NegCells
  <2>2. Cell(SAMPLESIZE - c) = c
    BY <1>1, <2>1, CellIs
  <2> QED
    BY <2>1, <2>2
<1>2. ASSUME search.neg = FALSE, NEW c \in PosCells PROVE \E n \in 0 .. SAMPLESIZE - 1 : c = Cell(n)
  <2>1. PICK n \in Nat : n = c - SAMPLESIZE - 2 /\ n < SAMPLESIZE /\ SAMPLESIZE + 2 + n = c
    <3>1. c \in Int /\ SAMPLESIZE + 2 <= c /\ c <= 2 * SAMPLESIZE + 1
      BY PLNumbers DEF PosCells
    <3>2. c - SAMPLESIZE - 2 \in Nat /\ c - SAMPLESIZE - 2 < SAMPLESIZE
      BY <3>1, PLNumbers
    <3> QED
      BY <3>1, <3>2, PLNumbers
  <2>2. Cell(n) = SAMPLESIZE + 2 + n
    BY <1>2, <2>1, CellIs
  <2>3. n \in 0 .. SAMPLESIZE - 1
    BY <2>1, PLNumbers
  <2> QED
    BY <2>1, <2>2, <2>3
<1> QED
  BY <1>1, <1>2

LEMMA GapIs == ASSUME NEW v \in Int, NEW w \in Int PROVE Gap(v, w) \in Nat
BY DEF Gap

\* minCoeff() finds a cell.
LEMMA ClosestIs ==
  ASSUME NEW s \in SUBSET Cells, s # {}, NEW v \in Int,
         le \in [Cells -> [by : {"none", "start", "pos", "neg"}, f : Int]]
  PROVE  Closest(s, v) \in s
<1>0. \A c \in Cells : c \in Nat
  BY PLNumbers DEF Cells
<1>1. \A c \in s : Gap(le[c].f, v) \in Nat /\ c \in Nat
  <2>1. \A c \in s : le[c].f \in Int
    OBVIOUS
  <2> QED
    BY <1>0, <2>1, GapIs
<1> DEFINE far == {Gap(le[c].f, v) : c \in s}
<1>2. PICK g \in far : \A h \in far : g <= h
  <2>1. far \in SUBSET Nat /\ far # {}
    BY <1>1
  <2> HIDE DEF far
  <2> QED
    BY <2>1, LeastNatural
<1> DEFINE near == {c \in s : Gap(le[c].f, v) = g}
<1>3. PICK c \in near : \A d \in near : c <= d
  <2>1. near \in SUBSET Nat /\ near # {}
    BY <1>1, <1>2
  <2> HIDE DEF near
  <2> QED
    BY <2>1, LeastNatural
<1>4. c \in s /\ \A d \in s : /\ Gap(le[c].f, v) <= Gap(le[d].f, v)
                              /\ Gap(le[c].f, v) = Gap(le[d].f, v) => c <= d
  BY <1>2, <1>3
<1> QED
  BY <1>4, Zenon DEF Closest

LEMMA PLInitInv == PLInit => PLInv
<1> SUFFICES ASSUME PLInit PROVE PLInv
  OBVIOUS
<1>1. /\ plpc = "idle" /\ problem \in [dim : Dims, minimum : Minima, zero : BOOLEAN]
      /\ search = NoSearch /\ bounds = {} /\ found = NotFound /\ le = [c \in Cells |-> Zero]
  BY DEF PLInit
<1>2. search.i = 0 /\ search.neg = FALSE /\ search.curve = FALSE
  BY <1>1 DEF NoSearch
<1>3. found \in [status : Int, f : Int]
  BY <1>1 DEF NotFound
<1>4. le \in [Cells -> [by : {"none", "start", "pos", "neg"}, f : Int]]
  BY <1>1 DEF Zero
<1>5. BoundsFromSearches
  <2>1. \A side \in {"pos", "neg"} : {b \in bounds : b.by = side} = {}
    BY <1>1
  <2> QED
    BY <1>1, <2>1, FS_EmptySet DEF BoundsFromSearches
<1>6. plpc \notin {"linear", "optimize", "store", "bounds"}
  BY <1>1
<1>7. search.i \in Nat /\ search.neg \in BOOLEAN /\ search.curve \in BOOLEAN
  <2>1. search.i \in Nat
    BY <1>2
  <2>2. search.neg \in BOOLEAN /\ search.curve \in BOOLEAN
    BY <1>2, Zenon
  <2> QED
    BY <2>1, <2>2
<1>8. /\ plpc \in {"idle", "linear", "optimize", "store", "bounds", "return"}
      /\ plpc # "return" => bounds = {}
      /\ ~ InSearch /\ plpc # "bounds"
  BY <1>1 DEF InSearch
<1> QED
  BY <1>1, <1>3, <1>4, <1>5, <1>7, <1>8, Zenon DEF PLInv

LEMMA PLStarts ==
  ASSUME PLInv, NEW k, NEW curve \in BOOLEAN, NEW maxiters, ProfileLikelihood(k, curve, maxiters)
  PROVE  PLInv'
<1>1. /\ plpc = "idle" /\ plpc' = "linear" /\ UNCHANGED <<problem, found, bounds, pls, cut>>
      /\ search' = [k |-> k, curve |-> curve, maxiters |-> maxiters, neg |-> FALSE, i |-> 0]
      /\ le' = [[c \in Cells |-> Zero] EXCEPT ![CENTER] = Start]
  BY DEF ProfileLikelihood
<1>2. search'.i = 0 /\ search'.neg = FALSE /\ search'.curve = curve
  BY <1>1
<1>3. PICK start, zero : start = Start /\ zero = Zero
  OBVIOUS
<1>4. start \in [by : {"none", "start", "pos", "neg"}, f : Int]
  <2>1. problem.minimum \in Int
    BY PLNumbers DEF PLInv
  <2> QED
    BY <1>3, <2>1 DEF Start
<1>5. zero \in [by : {"none", "start", "pos", "neg"}, f : Int]
  BY <1>3 DEF Zero
<1>6. /\ le' \in [Cells -> [by : {"none", "start", "pos", "neg"}, f : Int]]
      /\ le'[CENTER] = start
  BY <1>1, <1>3, <1>4, <1>5, CellsAre
<1>7. Start' = start
  BY <1>1, <1>3 DEF Start
<1>8. BoundsFromSearches'
  <2>1. bounds' = {}
    BY <1>1 DEF PLInv
  <2>2. \A side \in {"pos", "neg"} : {b \in bounds' : b.by = side} = {}
    BY <2>1
  <2> QED
    BY <2>1, <2>2, FS_EmptySet DEF BoundsFromSearches
<1>9. SAMPLESIZE > 0
  BY PLNumbers
<1> QED
  BY <1>1, <1>2, <1>6, <1>7, <1>8, <1>9 DEF PLInv, InSearch

TableOf == [Cells -> [by : {"none", "start", "pos", "neg"}, f : Int]]

\* A search in one direction ends with its side of the table filled.
LEMMA SideEnds ==
  ASSUME PLInv, plpc = "store", EndOfSide, le' \in TableOf, le'[CENTER] = Start,
         problem' = problem, found' = found, bounds' = bounds, cut => cut',
         search.neg = FALSE /\ ~cut' =>
           \A c \in PosCells : \/ le'[c].by = "start"
                               \/ le'[c].by = "pos" /\ (search.curve \/ Crosses(le'[c].f)),
         search.neg = TRUE /\ ~cut' =>
           \A c \in NegCells : \/ le'[c].by = "start"
                               \/ le'[c].by = "neg" /\ (search.curve \/ Crosses(le'[c].f)),
         search.neg = TRUE => \A c \in PosCells : le'[c] = le[c]
  PROVE  PLInv'
<1>1. Start' = Start
  BY DEF Start
<1>2. bounds' = {}
  BY DEF PLInv
<1>3. BoundsFromSearches'
  <2>1. \A side \in {"pos", "neg"} : {b \in bounds' : b.by = side} = {}
    BY <1>2
  <2> QED
    BY <1>2, <2>1, FS_EmptySet DEF BoundsFromSearches
<1>4. search.neg \in BOOLEAN /\ search.curve \in BOOLEAN /\ search.i \in Nat
  BY DEF PLInv
<1>5. CASE search.neg = TRUE
  <2>1. plpc' = "bounds" /\ search' = search
    BY <1>5 DEF EndOfSide
  <2>2. ~cut' => Filled(NegCells, "neg")'
    BY <1>5, <2>1 DEF Filled, Crosses, Gap
  <2>3. ~cut' => Filled(PosCells, "pos")'
    BY <1>5, <2>1 DEF PLInv, InSearch, Filled, Crosses, Gap
  <2> QED
    BY <1>1, <1>2, <1>3, <1>4, <1>5, <2>1, <2>2, <2>3 DEF PLInv, InSearch, TableOf
<1>6. CASE search.neg = FALSE
  <2>1. plpc' = "linear" /\ search' = [search EXCEPT !.neg = TRUE, !.i = 0]
    BY <1>6 DEF EndOfSide
  <2>2. search'.curve = search.curve /\ search'.neg \in BOOLEAN /\ search'.i = 0
    BY <2>1
  <2>3. ~cut' => Filled(PosCells, "pos")'
    BY <1>6, <2>2 DEF Filled, Crosses, Gap
  <2>4. SAMPLESIZE > 0
    BY PLNumbers
  <2> QED
    BY <1>1, <1>2, <1>3, <1>4, <2>1, <2>2, <2>3, <2>4 DEF PLInv, InSearch, TableOf
<1> QED
  BY <1>4, <1>5, <1>6

LEMMA PLStoreKeeps ==
  ASSUME PLInv, StorePoint
  PROVE  PLInv'
<1>1. /\ plpc = "store" /\ UNCHANGED <<problem, found, bounds, pls>>
      /\ le \in TableOf /\ le[CENTER] = Start /\ bounds = {}
      /\ search.neg \in BOOLEAN /\ search.curve \in BOOLEAN /\ search.i \in Nat
      /\ found.f \in Int /\ problem \in [dim : Dims, minimum : Minima, zero : BOOLEAN]
  BY DEF StorePoint, PLInv, InSearch, TableOf
<1>2. Start \in [by : {"none", "start", "pos", "neg"}, f : Int] /\ Start.by = "start"
  <2>1. problem.minimum \in Int
    BY <1>1, PLNumbers
  <2> QED
    BY <2>1 DEF Start
<1>3. /\ Point \in [by : {"none", "start", "pos", "neg"}, f : Int]
      /\ Point.by = Side /\ Point.f = found.f
  BY <1>1 DEF Point, Side
<1>4. /\ search.neg = TRUE => Side = "neg"
      /\ search.neg = FALSE => Side = "pos"
  BY DEF Side
<1>5. ASSUME NEW v \in [by : {"none", "start", "pos", "neg"}, f : Int],
             v.by = "start" \/ (v.by = Side /\ Crosses(v.f)),
             le' = Padded(v), EndOfSide, cut' = cut
      PROVE  PLInv'
  <2>1. le' \in TableOf /\ \A c \in Cells : le'[c] =
          IF \E n \in 0 .. SAMPLESIZE - 1 : c = Cell(n) THEN v ELSE le[c]
    BY <1>1, <1>5 DEF Padded, TableOf
  <2>2. \A n \in 0 .. SAMPLESIZE - 1 : n \in Nat /\ n < SAMPLESIZE
    BY PLNumbers
  <2>3. /\ search.neg = TRUE => \A c \in NegCells : le'[c] = v
        /\ search.neg = FALSE => \A c \in PosCells : le'[c] = v
    BY <2>1, CellNumbers, CellsAre, Zenon
  <2>4. search.neg = TRUE => \A c \in PosCells : le'[c] = le[c]
    <3>1. SUFFICES ASSUME search.neg = TRUE, NEW c \in PosCells PROVE le'[c] = le[c]
      OBVIOUS
    <3>2. \A n \in 0 .. SAMPLESIZE - 1 : Cell(n) \in NegCells
      BY <2>2, <3>1, CellIs, Zenon
    <3>3. c \in Cells /\ ~ \E n \in 0 .. SAMPLESIZE - 1 : c = Cell(n)
      BY <3>1, <3>2, CellsAre, Zenon
    <3> QED
      BY <2>1, <3>3, Zenon
  <2>5. le'[CENTER] = Start
    <3>1. \A n \in 0 .. SAMPLESIZE - 1 : Cell(n) \in NegCells \/ Cell(n) \in PosCells
      BY <1>1, <2>2, CellIs, Zenon
    <3>2. CENTER \in Cells /\ ~ \E n \in 0 .. SAMPLESIZE - 1 : CENTER = Cell(n)
      BY <3>1, CellsAre, Zenon
    <3> QED
      BY <1>1, <2>1, <3>2, Zenon
  <2> QED
    <3>1. Crosses(v.f) => search.curve \/ Crosses(v.f)
      OBVIOUS
    <3>2. /\ search.neg = FALSE => \A c \in PosCells :
                le'[c].by = "start" \/ (le'[c].by = "pos" /\ (search.curve \/ Crosses(le'[c].f)))
          /\ search.neg = TRUE => \A c \in NegCells :
                le'[c].by = "start" \/ (le'[c].by = "neg" /\ (search.curve \/ Crosses(le'[c].f)))
      BY <1>4, <1>5, <2>3, <3>1, Zenon
    <3>3. problem' = problem /\ found' = found /\ bounds' = bounds /\ plpc = "store" /\ (cut => cut')
      BY <1>1, <1>5
    <3> HIDE DEF Crosses, EndOfSide, TableOf, Start, PosCells, NegCells
    <3> QED
      BY <1>5, <2>1, <2>4, <2>5, <3>2, <3>3, SideEnds, Zenon
<1>6. CASE GivesUp /\ le' = Padded(le[CENTER]) /\ EndOfSide /\ UNCHANGED cut
  <2>1. le' = Padded(Start) /\ EndOfSide /\ cut' = cut
    BY <1>1, <1>6, Zenon
  <2> HIDE DEF Start, Padded, EndOfSide
  <2> QED
    BY <1>2, <1>5, <2>1, Zenon
<1>7. CASE Crossed /\ le' = Padded(Point) /\ EndOfSide /\ UNCHANGED cut
  <2>1. Crosses(Point.f)
    BY <1>3, <1>7 DEF Crosses, Crossed
  <2> QED
    BY <1>3, <1>5, <1>7, <2>1
<1>8. CASE /\ le' = IF search.curve THEN [le EXCEPT ![Cell(search.i)] = Point] ELSE le
           /\ \/ /\ search.curve /\ search.i + 1 = SAMPLESIZE /\ EndOfSide /\ UNCHANGED cut
              \/ EndOfSide /\ cut' = TRUE
              \/ /\ ~(search.curve /\ search.i + 1 = SAMPLESIZE)
                 /\ search' = [search EXCEPT !.i = search.i + 1]
                 /\ plpc' = "linear" /\ UNCHANGED cut
  <2>1. search.curve => /\ search.i < SAMPLESIZE
                        /\ \A n \in Nat : n < search.i => le[Cell(n)].by = Side
    BY <1>1 DEF PLInv, InSearch
  <2>2. search.curve => /\ search.neg = TRUE => Cell(search.i) \in NegCells
                        /\ search.neg = FALSE => Cell(search.i) \in PosCells
    BY <1>1, <2>1, CellIs
  <2>3. /\ le' \in TableOf /\ le'[CENTER] = Start
        /\ search.neg = TRUE => \A c \in PosCells : le'[c] = le[c]
    BY <1>1, <1>3, <1>8, <2>2, CellsAre DEF TableOf
  <2>4. search.curve => \A n \in Nat : n < search.i + 1 => le'[Cell(n)].by = Side
    <3>1. SUFFICES ASSUME search.curve, NEW n \in Nat, n < search.i + 1 PROVE le'[Cell(n)].by = Side
      OBVIOUS
    <3>2. n < SAMPLESIZE /\ (n = search.i \/ n < search.i)
      BY <1>1, <2>1, <3>1, PLNumbers
    <3>3. Cell(n) \in Cells
      BY <1>1, <3>2, CellIs, CellsAre
    <3> HIDE DEF Cell, Side, Point
    <3>4. CASE n = search.i
      <4>1. le' = [le EXCEPT ![Cell(n)] = Point]
        BY <1>8, <3>1, <3>4, Zenon
      <4> QED
        BY <1>1, <1>3, <3>3, <4>1 DEF TableOf
    <3>5. CASE n < search.i
      <4>1. le[Cell(n)].by = Side
        BY <2>1, <3>1, <3>5
      <4>2. PICK d : d = Cell(search.i) /\ le' = [le EXCEPT ![d] = Point]
        BY <1>8, <3>1, Zenon
      <4> QED
        BY <1>1, <1>3, <3>3, <4>1, <4>2 DEF TableOf
    <3> QED
      BY <3>2, <3>4, <3>5
  <2>5. CASE search.curve /\ search.i + 1 = SAMPLESIZE /\ EndOfSide /\ UNCHANGED cut
    <3>1. \A n \in 0 .. SAMPLESIZE - 1 : le'[Cell(n)].by = Side
      BY <1>1, <2>4, <2>5
    <3>2. /\ search.neg = TRUE => \A c \in NegCells : le'[c].by = "neg"
          /\ search.neg = FALSE => \A c \in PosCells : le'[c].by = "pos"
      BY <1>4, <3>1, CellNumbers
    <3> QED
      BY <1>1, <2>3, <2>5, <3>2, SideEnds
  <2>6. CASE EndOfSide /\ cut' = TRUE
    BY <1>1, <2>3, <2>6, SideEnds
  <2>7. CASE /\ ~(search.curve /\ search.i + 1 = SAMPLESIZE)
             /\ search' = [search EXCEPT !.i = search.i + 1]
             /\ plpc' = "linear" /\ UNCHANGED cut
    <3>1. search'.i = search.i + 1 /\ search'.curve = search.curve /\ search'.neg = search.neg
      <4>1. PICK m : m = search.i + 1
        OBVIOUS
      <4>2. search' = [search EXCEPT !.i = m]
        BY <2>7, <4>1
      <4> QED
        BY <1>1, <4>1, <4>2
    <3>2. search' = [search EXCEPT !.i = search.i + 1] /\ Start' = Start /\ bounds' = {}
      BY <1>1, <2>7 DEF Start
    <3>3. BoundsFromSearches'
      <4>1. \A side \in {"pos", "neg"} : {b \in bounds' : b.by = side} = {}
        BY <3>2
      <4> QED
        BY <3>2, <4>1, FS_EmptySet DEF BoundsFromSearches
    <3>4. search'.curve => search'.i < SAMPLESIZE /\ \A n \in Nat : n < search'.i => le'[Cell(n)'].by = Side'
      <4>1. Side' = Side /\ \A n \in Nat : Cell(n)' = Cell(n)
        BY <3>1 DEF Side, Cell
      <4>2. search.curve => search.i + 1 < SAMPLESIZE
        BY <1>1, <2>1, <2>7, PLNumbers
      <4> QED
        BY <2>4, <3>1, <4>1, <4>2, Zenon
    <3>5. search.neg /\ ~cut' => Filled(PosCells, "pos")'
      BY <1>1, <2>3, <2>7, <3>1 DEF PLInv, InSearch, Filled, Crosses, Gap
    <3>6. plpc' = "linear" /\ search'.i \in Nat
      BY <1>1, <2>7, <3>1
    <3> QED
      BY <1>1, <2>3, <3>1, <3>2, <3>3, <3>4, <3>5, <3>6 DEF PLInv, InSearch, TableOf
  <2> QED
    BY <1>8, <2>5, <2>6, <2>7
<1> QED
  BY <1>6, <1>7, <1>8, Zenon DEF StorePoint

LEMMA PLStepKeeps == PLInv /\ PLStep => PLInv'
<1> SUFFICES ASSUME PLInv, PLStep PROVE PLInv'
  OBVIOUS
<1>1. /\ search.neg \in BOOLEAN /\ search.curve \in BOOLEAN /\ search.i \in Nat /\ le \in TableOf
      /\ problem \in [dim : Dims, minimum : Minima, zero : BOOLEAN]
  BY DEF PLInv, TableOf
<1>2. CASE LinearStep
  <2>1. /\ plpc = "linear" /\ plpc' \in {"linear", "optimize"}
        /\ UNCHANGED <<problem, search, le, found, bounds, cut>>
    BY <1>2 DEF LinearStep
  <2> QED
    BY <1>1, <2>1 DEF PLInv, InSearch, Start, Filled, Crosses, Gap, Cell, Side, BoundsFromSearches, TableOf
<1>3. CASE OptimizePk
  <2>1. /\ plpc = "optimize" /\ plpc' = "store" /\ found' \in OptimizeVpk(1, problem.minimum)
        /\ UNCHANGED <<problem, search, le, bounds, cut>>
    BY <1>3 DEF OptimizePk
  <2>2. found' \in [status : Int, f : Int]
    <3>1. problem.minimum \in Int /\ \A v \in Near : v \in Int
      BY <1>1, PLNumbers DEF Near
    <3> QED
      BY <2>1, <3>1 DEF OptimizeVpk
  <2> QED
    BY <1>1, <2>1, <2>2 DEF PLInv, InSearch, Start, Filled, Crosses, Gap, Cell, Side, BoundsFromSearches, TableOf
<1>4. CASE StorePoint
  BY <1>4, PLStoreKeeps
<1>5. CASE SetErrMinMax
  <2>1. /\ plpc = "bounds" /\ plpc' = "return" /\ bounds' = GetMinMax(le[CENTER].f + FUP)
        /\ le' = [c \in Cells |-> Zero] /\ found' = NotFound /\ UNCHANGED <<problem, search, cut>>
    BY <1>5 DEF SetErrMinMax
  <2>2. le[CENTER].f + FUP \in Int
    BY <1>1, CellsAre, PLNumbers DEF TableOf
  <2>3. PICK v \in Int : v = le[CENTER].f + FUP
    BY <2>2
  <2>4. /\ NegCells \in SUBSET Cells /\ NegCells # {} /\ PosCells \in SUBSET Cells /\ PosCells # {}
    <3>1. 1 \in NegCells /\ CENTER + 1 \in PosCells
      BY PLNumbers DEF NegCells, PosCells
    <3> QED
      BY <3>1, CellsAre
  <2>5. PICK low \in NegCells, high \in PosCells : bounds' = {le[low], le[high]}
    <3>1. Closest(NegCells, v) \in NegCells /\ Closest(PosCells, v) \in PosCells
      BY <1>1, <2>3, <2>4, ClosestIs DEF TableOf
    <3>2. bounds' = {le[Closest(NegCells, v)], le[Closest(PosCells, v)]}
      BY <2>1, <2>3 DEF GetMinMax, NegCells, PosCells
    <3> QED
      BY <3>1, <3>2
  <2>6. BoundsFromSearches'
    <3>1. SUFFICES ASSUME ~cut PROVE BoundsFromSearches'
      BY <2>1 DEF BoundsFromSearches
    <3>2. search.neg /\ Filled(NegCells, "neg") /\ Filled(PosCells, "pos")
      BY <2>1, <3>1 DEF PLInv, InSearch
    <3>3. /\ le[low].by = "start" \/ (le[low].by = "neg" /\ (search.curve \/ Crosses(le[low].f)))
          /\ le[high].by = "start" \/ (le[high].by = "pos" /\ (search.curve \/ Crosses(le[high].f)))
      BY <2>5, <3>2, Zenon DEF Filled
    <3>4. \A side \in {"pos", "neg"} : Cardinality({b \in bounds' : b.by = side}) <= 1
      <4> SUFFICES ASSUME NEW side \in {"pos", "neg"}
                   PROVE  Cardinality({b \in bounds' : b.by = side}) <= 1
        OBVIOUS
      <4>1. PICK one : {b \in bounds' : b.by = side} \in SUBSET {one}
        <5>1. le[low].by # "pos" /\ le[high].by # "neg"
          BY <3>3
        <5>2. CASE side = "pos"
          BY <2>5, <5>1, <5>2
        <5>3. CASE side = "neg"
          BY <2>5, <5>1, <5>3
        <5> QED
          BY <5>2, <5>3
      <4>2. Cardinality({one}) = 1 /\ IsFiniteSet({one})
        BY FS_Singleton
      <4>3. PICK T : T = {b \in bounds' : b.by = side}
        OBVIOUS
      <4>4. T \in SUBSET {one}
        BY <4>1, <4>3
      <4>5. Cardinality(T) <= Cardinality({one})
        BY <4>2, <4>4, FS_Subset
      <4> QED
        BY <4>2, <4>3, <4>5
    <3>5. \A b \in bounds' : b.by # "none" /\ (b.by # "start" /\ ~search.curve => Crosses(b.f))
      BY <2>5, <3>3
    <3>6. problem' = problem /\ search' = search
      BY <2>1
    <3> QED
      BY <3>4, <3>5, <3>6 DEF BoundsFromSearches, Crosses, Gap
  <2>7. found' \in [status : Int, f : Int]
    BY <2>1 DEF NotFound
  <2>8. le' \in TableOf
    BY <2>1 DEF Zero, TableOf
  <2> QED
    BY <1>1, <2>1, <2>6, <2>7, <2>8 DEF PLInv, InSearch, TableOf
<1>6. CASE PLReturn
  <2>1. /\ plpc = "return" /\ plpc' = "idle" /\ bounds' = {} /\ search' = NoSearch
        /\ UNCHANGED <<problem, le, found>>
    BY <1>6 DEF PLReturn
  <2>2. search'.i \in Nat
    BY <2>1 DEF NoSearch
  <2>3. search'.neg \in BOOLEAN /\ search'.curve \in BOOLEAN
    <3>1. search'.neg = FALSE /\ search'.curve = FALSE
      BY <2>1 DEF NoSearch
    <3> QED
      BY <3>1, Zenon
  <2>4. BoundsFromSearches'
    <3>1. \A side \in {"pos", "neg"} : {b \in bounds' : b.by = side} = {}
      BY <2>1
    <3> QED
      BY <2>1, <3>1, FS_EmptySet DEF BoundsFromSearches
  <2> QED
    BY <1>1, <2>1, <2>2, <2>3, <2>4 DEF PLInv, InSearch, TableOf
<1> QED
  BY <1>2, <1>3, <1>4, <1>5, <1>6 DEF PLStep

-----------------------------------------------------------------------------
(* Sequences.                                                                *)

\* What a sequence holds after the insertion.
LEMMA AppendedIs ==
  ASSUME NEW s \in Seq(Nat), NEW e \in Nat, Len(s) >= 1
  PROVE  /\ Append(s, e) \in Seq(Nat) /\ Len(Append(s, e)) = Len(s) + 1
         /\ \A i \in 1 .. Len(s) : Append(s, e)[i] = s[i]
         /\ Append(s, e)[Len(s) + 1] = e
BY AppendProperties

\* Counting past a place.
LEMMA Counting ==
  ASSUME NEW n \in Nat, NEW p \in Nat, p <= n
  PROVE  /\ (p + 1) - 1 = p /\ p + 1 + 1 = p + 2 /\ p + (n - p) = n /\ (p + 1) + (n - p) = n + 1
         /\ n + 1 - (p + 2) + 1 = n - p /\ n - (p + 1) + 1 = n - p
         /\ \A i \in 1 .. n - p : p + 2 + i - 1 = p + 1 + i /\ p + 1 + i - 1 = p + i
OBVIOUS

LEMMA Beyond ==
  ASSUME NEW n \in Nat, NEW p \in Nat, p <= n, NEW i \in 1 .. n, i > p
  PROVE  /\ i - p \in 1 .. n - p /\ p + 1 + (i - p) = i + 1
         /\ i + 1 \in p + 2 .. n + 1 /\ (i + 1) - 1 = i
OBVIOUS

LEMMA SliceIs ==
  ASSUME NEW s \in Seq(Nat), NEW m \in Nat, m >= 1, NEW k \in Nat, m <= k + 1, k <= Len(s)
  PROVE  /\ SubSeq(s, m, k) \in Seq(Nat)
         /\ Len(SubSeq(s, m, k)) = k - m + 1
         /\ \A i \in 1 .. k - m + 1 : SubSeq(s, m, k)[i] = s[m + i - 1]
<1>1. \A i \in m .. k : s[i] \in Nat
  BY ElementOfSeq, LenProperties
<1>2. /\ SubSeq(s, m, k) \in Seq(Nat)
      /\ Len(SubSeq(s, m, k)) = IF m <= k THEN k - m + 1 ELSE 0
      /\ \A i \in 1 .. k - m + 1 : SubSeq(s, m, k)[i] = s[m + i - 1]
  BY <1>1, SubSeqProperties
<1> QED
  BY <1>2

\* t is s with e after its place b.
Longer(s, e, n, b, t) ==
  /\ t \in Seq(Nat) /\ Len(t) = n + 1
  /\ \A i \in 1 .. b : t[i] = s[i]
  /\ t[b + 1] = e
  /\ \A i \in b + 2 .. n + 1 : t[i] = s[i - 1]

LEMMA InsertedInside ==
  ASSUME NEW s \in Seq(Nat), NEW e \in Nat, NEW n \in Nat, n = Len(s), NEW b \in 1 .. n - 1
  PROVE  Longer(s, e, n, b, InsertAt(s, b + 1, e))
<1>1. b \in Nat /\ 1 <= b /\ b < n /\ (b + 1) - 1 = b
  OBVIOUS
<1>2. \A i \in 1 .. n : s[i] \in Nat
  OBVIOUS
<1>3. PICK u \in Seq(Nat) : u = SubSeq(s, 1, b) /\ Len(u) = b /\ \A i \in 1 .. b : u[i] = s[i]
  <2>1. 1 <= b + 1 /\ b <= Len(s)
    BY <1>1
  <2>2. /\ SubSeq(s, 1, b) \in Seq(Nat) /\ Len(SubSeq(s, 1, b)) = b - 1 + 1
        /\ \A i \in 1 .. b - 1 + 1 : SubSeq(s, 1, b)[i] = s[1 + i - 1]
    BY <1>1, <2>1, SliceIs
  <2>3. Len(SubSeq(s, 1, b)) = b /\ \A i \in 1 .. b : SubSeq(s, 1, b)[i] = s[i]
    BY <1>1, <2>2
  <2> QED
    BY <2>2, <2>3, Zenon
<1>4. PICK v \in Seq(Nat) : /\ v = SubSeq(s, b + 1, n) /\ Len(v) = n - b
                            /\ \A i \in 1 .. n - b : v[i] = s[b + i]
  <2>1. PICK m \in Nat : m = b + 1 /\ m >= 1 /\ m <= n + 1
    BY <1>1
  <2>2. /\ SubSeq(s, m, n) \in Seq(Nat) /\ Len(SubSeq(s, m, n)) = n - m + 1
        /\ \A i \in 1 .. n - m + 1 : SubSeq(s, m, n)[i] = s[m + i - 1]
    BY <2>1, SliceIs
  <2>3. n - m + 1 = n - b /\ \A i \in 1 .. n - b : m + i - 1 = b + i
    BY <1>1, <2>1, Counting
  <2>4. Len(SubSeq(s, m, n)) = n - b /\ \A i \in 1 .. n - b : SubSeq(s, m, n)[i] = s[b + i]
    BY <2>2, <2>3, Zenon
  <2>5. SubSeq(s, b + 1, n) \in Seq(Nat) /\ SubSeq(s, b + 1, n) = SubSeq(s, m, n)
    BY <2>1, <2>2, Zenon
  <2> QED
    BY <2>4, <2>5, Zenon
<1>5. InsertAt(s, b + 1, e) = (u \o <<e>>) \o v
  <2>1. InsertAt(s, b + 1, e) = SubSeq(s, 1, (b + 1) - 1) \o <<e>> \o SubSeq(s, b + 1, Len(s))
    BY DEF InsertAt
  <2> QED
    BY <1>1, <1>3, <1>4, <2>1
<1>6. Len(u) = b /\ Len(v) = n - b /\ <<e>> \in Seq(Nat) /\ Len(<<e>>) = 1 /\ <<e>>[1] = e
  BY <1>3, <1>4
<1>7. PICK m \in Seq(Nat) : m = u \o <<e>>
  BY <1>6, ConcatProperties
<1>8. Len(m) = b + 1 /\ \A i \in 1 .. b + 1 : m[i] = IF i <= b THEN u[i] ELSE <<e>>[i - b]
  BY <1>6, <1>7, ConcatProperties
<1>9. m[b + 1] = e /\ \A i \in 1 .. b : m[i] = s[i]
  BY <1>1, <1>3, <1>6, <1>8
<1>10. PICK t \in Seq(Nat) : t = m \o v
  BY ConcatProperties
<1>11. Len(m) + Len(v) = n + 1 /\ Len(m) = b + 1
  BY <1>6, <1>8, <1>1
<1>12. Len(t) = n + 1 /\ \A i \in 1 .. n + 1 : t[i] = IF i <= b + 1 THEN m[i] ELSE v[i - (b + 1)]
  <2>1. /\ Len(m \o v) = Len(m) + Len(v)
        /\ \A i \in 1 .. Len(m) + Len(v) : (m \o v)[i] = IF i <= Len(m) THEN m[i] ELSE v[i - Len(m)]
    BY ConcatProperties
  <2> QED
    <3>1. Len(t) = n + 1
      BY <1>10, <1>11, <2>1
    <3>2. ASSUME NEW i \in 1 .. n + 1 PROVE t[i] = IF i <= b + 1 THEN m[i] ELSE v[i - (b + 1)]
      <4>1. i \in 1 .. Len(m) + Len(v)
        BY <1>11
      <4>2. (m \o v)[i] = IF i <= Len(m) THEN m[i] ELSE v[i - Len(m)]
        BY <2>1, <4>1
      <4> QED
        BY <1>10, <1>11, <4>2
    <3> QED
      BY <3>1, <3>2
<1>13. t[b + 1] = e /\ \A i \in 1 .. b : t[i] = s[i]
  <2>1. b + 1 \in 1 .. n + 1 /\ t[b + 1] = m[b + 1]
    BY <1>1, <1>12
  <2>2. ASSUME NEW i \in 1 .. b PROVE t[i] = s[i]
    <3>1. i \in 1 .. n + 1 /\ i <= b + 1
      BY <1>1
    <3> QED
      BY <1>9, <1>12, <3>1, Zenon
  <2> QED
    BY <1>9, <2>1, <2>2, Zenon
<1>14. \A i \in b + 2 .. n + 1 : t[i] = s[i - 1]
  <2> TAKE i \in b + 2 .. n + 1
  <2>1. i \in 1 .. n + 1 /\ ~(i <= b + 1) /\ i - (b + 1) \in 1 .. n - b /\ b + (i - (b + 1)) = i - 1
    BY <1>1
  <2>2. t[i] = v[i - (b + 1)] /\ v[i - (b + 1)] = s[b + (i - (b + 1))]
    BY <1>4, <1>12, <2>1, Zenon
  <2> QED
    BY <2>1, <2>2, Zenon
<1> QED
  BY <1>5, <1>7, <1>10, <1>12, <1>13, <1>14, Zenon DEF Longer

LEMMA SmallModulus ==
  ASSUME NEW n \in Nat, NEW m \in Nat, n < m
  PROVE  n % m = n /\ (n + 1) % (m + 1) = n + 1
OBVIOUS

LEMMA WholeModulus == ASSUME NEW n \in Nat, n >= 1 PROVE n % n = 0 /\ (n + 1) % (n + 1) = 0
OBVIOUS

\* e is at its place, and s is around it.
Around(s, e, n, p, t) ==
  /\ (CHOOSE i \in DOMAIN t : t[i] = e) = p + 1
  /\ RemoveAt(t, p + 1) = s
  /\ t[(p + 1) - 1] = s[p]
  /\ t[((p + 1) % (n + 1)) + 1] = s[(p % n) + 1]

LEMMA RestIs ==
  ASSUME NEW t \in Seq(Nat), NEW n \in Nat, Len(t) = n + 1, NEW p \in 1 .. n
  PROVE  /\ SubSeq(t, p + 2, n + 1) \in Seq(Nat)
         /\ Len(SubSeq(t, p + 2, n + 1)) = n - p
         /\ \A i \in 1 .. n - p : SubSeq(t, p + 2, n + 1)[i] = t[p + 1 + i]
<1>1. PICK m \in Nat, k \in Nat : m = p + 2 /\ m >= 1 /\ m <= k + 1 /\ k = n + 1 /\ k <= Len(t)
  <2>1. p + 2 \in Nat /\ p + 2 >= 1 /\ p + 2 <= n + 1 + 1 /\ n + 1 \in Nat /\ n + 1 <= Len(t)
    OBVIOUS
  <2> QED
    BY <2>1, Zenon
<1>2. /\ SubSeq(t, m, k) \in Seq(Nat) /\ Len(SubSeq(t, m, k)) = k - m + 1
      /\ \A i \in 1 .. k - m + 1 : SubSeq(t, m, k)[i] = t[m + i - 1]
  BY <1>1, SliceIs
<1>3. k - m + 1 = n - p /\ \A i \in 1 .. n - p : m + i - 1 = p + 1 + i
  BY <1>1
<1>4. Len(SubSeq(t, m, k)) = n - p /\ \A i \in 1 .. n - p : SubSeq(t, m, k)[i] = t[p + 1 + i]
  BY <1>2, <1>3, Zenon
<1> QED
  BY <1>1, <1>2, <1>4, Zenon

\* The place of the new element, and what is around it.
LEMMA GrownAround ==
  ASSUME NEW s \in Seq(Nat), NEW e \in Nat, NEW n \in Nat, n = Len(s), n >= 1,
         NEW p \in 1 .. n, NEW t, Longer(s, e, n, p, t), \A i \in 1 .. n : s[i] # e
  PROVE  Around(s, e, n, p, t)
<1>0. t \in Seq(Nat) /\ Len(t) = n + 1
  BY DEF Longer
<1>1. p \in Nat /\ 1 <= p /\ p <= n /\ DOMAIN t = 1 .. n + 1 /\ p + 1 \in 1 .. n + 1
  BY <1>0
<1>2. \A i \in 1 .. n + 1 : t[i] = e => i = p + 1
  <2> SUFFICES ASSUME NEW i \in 1 .. n + 1, t[i] = e, i # p + 1 PROVE FALSE
    OBVIOUS
  <2>1. i \in 1 .. p \/ i \in p + 2 .. n + 1
    BY <1>1
  <2>2. ASSUME i \in 1 .. p PROVE FALSE
    <3>1. i \in 1 .. n
      BY <1>1, <2>2
    <3> QED
      BY <2>2, <3>1, Zenon DEF Longer
  <2>3. ASSUME i \in p + 2 .. n + 1 PROVE FALSE
    <3>1. i - 1 \in 1 .. n
      BY <1>1, <2>3
    <3> QED
      BY <2>3, <3>1, Zenon DEF Longer
  <2> QED
    BY <2>1, <2>2, <2>3
<1>3. (CHOOSE i \in DOMAIN t : t[i] = e) = p + 1
  <2>1. t[p + 1] = e
    BY DEF Longer
  <2>2. \E i \in DOMAIN t : t[i] = e
    BY <1>1, <2>1
  <2>3. \A i \in DOMAIN t : t[i] = e => i = p + 1
    BY <1>1, <1>2
  <2> QED
    BY <2>2, <2>3, Zenon
<1>4. RemoveAt(t, p + 1) = s
  <2>1. /\ SubSeq(t, 1, p) \in Seq(Nat) /\ Len(SubSeq(t, 1, p)) = p - 1 + 1
        /\ \A i \in 1 .. p - 1 + 1 : SubSeq(t, 1, p)[i] = t[1 + i - 1]
    <3>1. 1 <= p + 1 /\ p <= Len(t)
      BY <1>1
    <3> QED
      BY <1>0, <1>1, <3>1, SliceIs
  <2>2. PICK u \in Seq(Nat) : u = SubSeq(t, 1, p)
    BY <2>1
  <2>3. Len(u) = p /\ \A i \in 1 .. p : u[i] = t[i]
    BY <1>1, <2>1, <2>2
  <2>4. PICK v \in Seq(Nat) : /\ v = SubSeq(t, p + 2, n + 1) /\ Len(v) = n - p
                              /\ \A i \in 1 .. n - p : v[i] = t[p + 1 + i]
    BY <1>0, RestIs, Zenon
  <2>9. RemoveAt(t, p + 1) = u \o v
    <3>1. RemoveAt(t, p + 1) = SubSeq(t, 1, (p + 1) - 1) \o SubSeq(t, p + 1 + 1, Len(t))
      BY DEF RemoveAt
    <3>2. (p + 1) - 1 = p /\ p + 1 + 1 = p + 2
      BY <1>1
    <3> QED
      BY <1>0, <2>2, <2>4, <3>1, <3>2, Zenon
  <2>10. /\ u \o v \in Seq(Nat) /\ Len(u \o v) = Len(u) + Len(v)
         /\ \A i \in 1 .. Len(u) + Len(v) : (u \o v)[i] = IF i <= Len(u) THEN u[i] ELSE v[i - Len(u)]
    BY ConcatProperties
  <2>11. Len(u) = p /\ Len(v) = n - p /\ Len(u) + Len(v) = n
    <3>1. Len(u) = p /\ Len(v) = n - p
      BY <2>3, <2>4
    <3> QED
      BY <1>1, <3>1
  <2>12. PICK w \in Seq(Nat) : w = u \o v
    BY <2>10
  <2>13. Len(w) = n /\ \A i \in 1 .. n : w[i] = IF i <= p THEN u[i] ELSE v[i - p]
    BY <2>10, <2>11, <2>12
  <2>14. \A i \in 1 .. n : w[i] = s[i]
    <3> TAKE i \in 1 .. n
    <3>1. CASE i <= p
      <4>1. i \in 1 .. p
        BY <1>1, <3>1
      <4> QED
        BY <2>3, <2>13, <3>1, <4>1, Zenon DEF Longer
    <3>2. CASE i > p
      <4>1. /\ i - p \in 1 .. n - p /\ p + 1 + (i - p) = i + 1 /\ ~(i <= p)
            /\ i + 1 \in p + 2 .. n + 1 /\ (i + 1) - 1 = i
        BY <1>1, <3>2, Beyond
      <4>2. w[i] = v[i - p]
        BY <2>13, <4>1, Zenon
      <4>3. v[i - p] = t[p + 1 + (i - p)]
        BY <2>4, <4>1, Zenon
      <4>4. \A j \in p + 2 .. n + 1 : t[j] = s[j - 1]
        BY DEF Longer
      <4>5. PICK j \in p + 2 .. n + 1 : j = i + 1 /\ j - 1 = i
        BY <4>1
      <4>6. t[j] = s[j - 1]
        BY <4>4
      <4> QED
        BY <4>1, <4>2, <4>3, <4>5, <4>6, Zenon
    <3> QED
      BY <1>1, <3>1, <3>2
  <2>15. w = s
    BY <2>13, <2>14, SeqEqual
  <2> QED
    BY <2>9, <2>12, <2>15
<1>5. t[(p + 1) - 1] = s[p]
  <2>1. (p + 1) - 1 = p /\ p \in 1 .. p
    BY <1>1
  <2> QED
    BY <2>1, Zenon DEF Longer
<1>6. t[((p + 1) % (n + 1)) + 1] = s[(p % n) + 1]
  <2>1. CASE p = n
    <3>1. (p + 1) % (n + 1) = 0 /\ p % n = 0
      BY <1>1, <2>1, WholeModulus
    <3>2. 1 \in 1 .. p /\ 0 + 1 = 1
      BY <1>1
    <3>3. t[1] = s[1]
      BY <3>2, Zenon DEF Longer
    <3> QED
      BY <3>1, <3>2, <3>3, Zenon
  <2>2. CASE p < n
    <3>1. (p + 1) % (n + 1) = p + 1 /\ p % n = p
      BY <1>1, <2>2, SmallModulus
    <3>2. p + 2 \in p + 2 .. n + 1 /\ p + 1 + 1 = p + 2 /\ p + 2 - 1 = p + 1
      BY <1>1, <2>2
    <3>3. \A j \in p + 2 .. n + 1 : t[j] = s[j - 1]
      BY DEF Longer
    <3>4. PICK j \in p + 2 .. n + 1 : j = p + 2 /\ j - 1 = p + 1
      BY <3>2
    <3>5. t[j] = s[j - 1]
      BY <3>3
    <3> QED
      BY <3>1, <3>2, <3>4, <3>5, Zenon
  <2> QED
    BY <1>1, <2>1, <2>2
<1> QED
  BY <1>3, <1>4, <1>5, <1>6, Zenon DEF Around

\* Where the point comes: after this one.
After == IF between = 0 THEN Len(points) ELSE between

\* The new point comes between its neighbours.
PlacedWell(new) ==
  LET r == CHOOSE i \in DOMAIN new : new[i] = tried + 1
  IN /\ RemoveAt(new, r) = points
     /\ new[IF r = 1 THEN Len(new) ELSE r - 1] = points[After]
     /\ new[(r % Len(new)) + 1] = points[(After % Len(points)) + 1]

Numbered == \A i \in 1 .. Len(points) : points[i] <= tried

LEMMA PlacedIs ==
  ASSUME points \in Seq(Nat), tried \in Nat, NEW n \in Nat, n = Len(points), n >= 1,
         between \in 0 .. n - 1, Numbered
  PROVE  /\ Placed \in Seq(Nat) /\ Len(Placed) = n + 1
         /\ \A i \in 1 .. n + 1 : Placed[i] <= tried + 1
         /\ PlacedWell(Placed)
<1>1. tried + 1 \in Nat /\ \A i \in 1 .. n : points[i] # tried + 1 /\ points[i] <= tried + 1
  <2>1. tried + 1 \in Nat
    OBVIOUS
  <2>2. ASSUME NEW i \in 1 .. n PROVE points[i] # tried + 1 /\ points[i] <= tried + 1
    <3>1. points[i] \in Nat /\ points[i] <= tried
      BY DEF Numbered
    <3> QED
      BY <3>1
  <2> QED
    BY <2>1, <2>2
<1>0. PICK t : t = Placed
  OBVIOUS
<1>2. PICK p \in 1 .. n : p = After /\ t = Placed /\ Longer(points, tried + 1, n, p, t)
  <2>1. CASE between = 0
    <3>1. Placed = Append(points, tried + 1) /\ After = n /\ n \in 1 .. n
      BY <2>1 DEF Placed, After
    <3>2. /\ Append(points, tried + 1) \in Seq(Nat) /\ Len(Append(points, tried + 1)) = n + 1
          /\ \A i \in 1 .. n : Append(points, tried + 1)[i] = points[i]
          /\ Append(points, tried + 1)[n + 1] = tried + 1
      BY <1>1, AppendedIs
    <3>3. n + 2 .. n + 1 = {}
      OBVIOUS
    <3>4. Longer(points, tried + 1, n, n, Append(points, tried + 1))
      BY <3>2, <3>3, Zenon DEF Longer
    <3> QED
      BY <1>0, <3>1, <3>4, Zenon
  <2>2. CASE between # 0
    <3>1. Placed = InsertAt(points, between + 1, tried + 1) /\ After = between
      BY <2>2, Zenon DEF Placed, After
    <3>2. between \in 1 .. n - 1 /\ between \in 1 .. n
      BY <2>2
    <3>3. PICK e \in Nat, b \in 1 .. n - 1 : e = tried + 1 /\ b = between
      BY <1>1, <3>2
    <3>4. Longer(points, e, n, b, InsertAt(points, b + 1, e))
      BY InsertedInside, Zenon
    <3> QED
      BY <1>0, <3>1, <3>2, <3>3, <3>4, Zenon
  <2> QED
    BY <2>1, <2>2
<1>3. Len(t) = n + 1 /\ Around(points, tried + 1, n, p, t)
  <2>1. PICK e \in Nat : e = tried + 1
    BY <1>1
  <2>2. Longer(points, e, n, p, t) /\ \A i \in 1 .. n : points[i] # e
    BY <1>1, <1>2, <2>1, Zenon
  <2>3. Around(points, e, n, p, t)
    BY <2>2, GrownAround, Zenon
  <2> QED
    BY <1>2, <2>1, <2>3, Zenon DEF Longer
<1>4. PlacedWell(Placed)
  <2>1. PICK r : r = CHOOSE i \in DOMAIN t : t[i] = tried + 1
    OBVIOUS
  <2>2. r = p + 1 /\ r # 1
    <3>1. p + 1 # 1
      OBVIOUS
    <3> QED
      BY <1>3, <2>1, <3>1, Zenon DEF Around
  <2>3. RemoveAt(t, r) = points /\ t[IF r = 1 THEN Len(t) ELSE r - 1] = points[After]
    BY <1>2, <1>3, <2>2, Zenon DEF Around
  <2>4. t[(r % Len(t)) + 1] = points[(After % Len(points)) + 1]
    BY <1>2, <1>3, <2>2, Zenon DEF Around
  <2>5. PlacedWell(t)
    BY <2>1, <2>3, <2>4, Zenon DEF PlacedWell
  <2> QED
    BY <1>2, <2>5, Zenon
<1>5. \A i \in 1 .. n + 1 : t[i] <= tried + 1
  <2> SUFFICES ASSUME NEW i \in 1 .. n + 1 PROVE t[i] <= tried + 1
    OBVIOUS
  <2>1. i \in 1 .. p \/ i = p + 1 \/ i \in p + 2 .. n + 1
    OBVIOUS
  <2>2. CASE i \in 1 .. p
    <3>1. t[i] = points[i] /\ i \in 1 .. n
      BY <1>2, <2>2 DEF Longer
    <3> QED
      BY <1>1, <3>1, Zenon
  <2>3. CASE i = p + 1
    <3>1. t[i] = tried + 1
      BY <1>2, <2>3 DEF Longer
    <3> QED
      BY <1>1, <3>1
  <2>4. CASE i \in p + 2 .. n + 1
    <3>1. t[i] = points[i - 1]
      BY <1>2, <2>4 DEF Longer
    <3>2. i - 1 \in 1 .. n
      BY <2>4
    <3> QED
      BY <1>1, <3>1, <3>2, Zenon
  <2> QED
    BY <2>1, <2>2, <2>3, <2>4
<1> QED
  BY <1>2, <1>4, <1>5, Zenon DEF Longer

Searching == {"slope", "point3", "decide", "line"}

\* The locals of cross(): the first two points are the ones that were found
\* until flsb has moved on, the first one raised to a tenth of fup; and what
\* is the minimum everywhere stays below aim.
Crossing ==
  /\ DOMAIN x = DOMAIN NoCross /\ x.fl \in [1 .. 3 -> Int] /\ x.sols \in Seq(Int)
  /\ cpc \in Searching => Len(x.sols) >= 2
  /\ (cpc \in Searching /\ ~moved) =>
       x.sols[2] = x.fl[2] /\ (x.sols[1] = x.fl[1] \/ x.fl[1] < AIM)
  /\ (cpc \in Searching /\ problem.dim <= Pair) =>
       /\ cpc # "line" /\ x.fl[1] < AIM /\ x.fl[2] < AIM
       /\ cpc = "decide" => x.fl[3] < AIM

CInv ==
  /\ cpc \in {"idle", "profiles", "points", "pair", "crossed"} \cup Searching
  /\ tried \in Nat /\ points \in Seq(Nat)
  /\ cpc = "profiles" => tried = 4
  /\ cpc \notin {"idle", "profiles"} => Len(points) >= 1 /\ Numbered
  /\ cpc \in {"pair", "crossed"} \cup Searching => between \in 0 .. Len(points) - 1
  /\ Crossing
  /\ (cpc = "crossed" /\ ~crossing.dummy) =>
       (moved \/ crossing.f = crossing.at) /\ problem.dim > Pair

LEMMA AimIs ==
  ASSUME PLInv
  PROVE  /\ problem.minimum \in Int /\ problem.dim \in Nat /\ AIM \in Int
         /\ problem.minimum < AIM /\ problem.minimum + FUP \div 10 < AIM
         /\ problem.minimum + FUP \div 10 \in Int
<1>1. problem.minimum \in Int /\ problem.dim \in Nat
  BY PLNumbers, PLAssumption DEF PLInv
<1>2. FUP \div 10 \in Int /\ FUP \div 10 < FUP
  BY PLNumbers
<1> QED
  BY <1>1, <1>2, PLNumbers DEF AIM

LEMMA PlacesAre ==
  ASSUME PLInv
  PROVE  /\ \A v \in Values : v \in Int
         /\ problem.dim <= Pair => \A v \in Values : v = problem.minimum
<1>1. \A v \in Values : v \in Int
  BY AimIs, PLNumbers DEF Values
<1>2. ASSUME problem.dim <= Pair, NEW v \in Values PROVE v = problem.minimum
  BY <1>2 DEF Values, OptimizeVpk
<1> QED
  BY <1>1, <1>2



\* An update of some locals leaves the others.
LEMMA FirstIs ==
  ASSUME NEW fl, NEW al, NEW sols, NEW w, NEW d, NEW lk,
         x' = [NoCross EXCEPT !.fl = fl, !.al = al, !.sols = sols, !.second = w, !.dfda = d, !.lk = lk]
  PROVE  DOMAIN x' = DOMAIN NoCross /\ x'.fl = fl /\ x'.sols = sols
BY DEF NoCross

LEMMA AgainIs ==
  ASSUME DOMAIN x = DOMAIN NoCross, NEW w, NEW al, NEW lk,
         x' = [x EXCEPT !.fl[2] = w, !.al = al, !.lk = lk]
  PROVE  DOMAIN x' = DOMAIN NoCross /\ x'.fl = [x.fl EXCEPT ![2] = w] /\ x'.sols = x.sols
<1>1. DOMAIN x = {"fl", "al", "sols", "second", "dfda", "lk", "tentatives", "best", "line"}
  BY DEF NoCross
<1> QED
  BY <1>1 DEF NoCross

LEMMA StraightIs ==
  ASSUME DOMAIN x = DOMAIN NoCross, NEW fl, NEW al, NEW d,
         x' = [x EXCEPT !.fl = fl, !.al = al, !.dfda = d]
  PROVE  DOMAIN x' = DOMAIN NoCross /\ x'.fl = fl /\ x'.sols = x.sols
<1>1. DOMAIN x = {"fl", "al", "sols", "second", "dfda", "lk", "tentatives", "best", "line"}
  BY DEF NoCross
<1> QED
  BY <1>1 DEF NoCross

LEMMA OneFieldIs ==
  ASSUME DOMAIN x = DOMAIN NoCross, NEW v,
         x' = [x EXCEPT !.tentatives = v] \/ x' = [x EXCEPT !.line = v]
  PROVE  DOMAIN x' = DOMAIN NoCross /\ x'.fl = x.fl /\ x'.sols = x.sols
<1>1. DOMAIN x = {"fl", "al", "sols", "second", "dfda", "lk", "tentatives", "best", "line"}
  BY DEF NoCross
<1> QED
  BY <1>1 DEF NoCross

\* A step of cross() is about its locals: what is proved of them is enough.
LEMMA CrossingKeeps ==
  ASSUME CInv, cpc \in {"pair"} \cup Searching, cpc' \in {"crossed"} \cup Searching, Crossing',
         UNCHANGED <<points, tried, between>>,
         (cpc' = "crossed" /\ ~crossing'.dummy) =>
           (moved' \/ crossing'.f = crossing'.at) /\ problem'.dim > Pair
  PROVE  CInv'
BY DEF CInv, Searching, Numbered

LEMMA FirstTwoKeeps == ASSUME PLInv, CInv, FirstTwo PROVE CInv'
<1>1. /\ cpc = "pair" /\ cpc' = "slope"
      /\ UNCHANGED <<points, tried, between, crossing, moved, plVars>>
  BY DEF FirstTwo
<1>2. PICK v \in Values, w \in Values :
        \E al, d, lk :
          LET f1 == IF v < problem.minimum + FUP \div 10 THEN problem.minimum + FUP \div 10 ELSE v
          IN x' = [NoCross EXCEPT !.fl = <<f1, w, 0>>, !.al = al, !.sols = <<v, w>>, !.second = w,
                                  !.dfda = d, !.lk = lk]
  BY DEF FirstTwo
<1>3. PICK f1 : f1 = IF v < problem.minimum + FUP \div 10 THEN problem.minimum + FUP \div 10 ELSE v
  OBVIOUS
<1>4. PICK al, d, lk :
        x' = [NoCross EXCEPT !.fl = <<f1, w, 0>>, !.al = al, !.sols = <<v, w>>, !.second = w,
                             !.dfda = d, !.lk = lk]
  BY <1>2, <1>3, Zenon
<1>5. DOMAIN x' = DOMAIN NoCross /\ x'.fl = <<f1, w, 0>> /\ x'.sols = <<v, w>>
  BY <1>4, FirstIs
<1>6. v \in Int /\ w \in Int /\ (problem.dim <= Pair => v = problem.minimum /\ w = problem.minimum)
  BY PlacesAre
<1>7. f1 \in Int /\ (v = f1 \/ f1 < AIM) /\ (problem.dim <= Pair => f1 < AIM /\ w < AIM)
  BY <1>3, <1>6, AimIs
<1>8. /\ x'.fl \in [1 .. 3 -> Int] /\ x'.fl[1] = f1 /\ x'.fl[2] = w
      /\ x'.sols \in Seq(Int) /\ Len(x'.sols) = 2 /\ x'.sols[1] = v /\ x'.sols[2] = w
  BY <1>5, <1>6, <1>7
<1>9. AIM' = AIM /\ problem' = problem
  BY <1>1 DEF AIM, plVars
<1>10. Crossing'
  BY <1>1, <1>5, <1>7, <1>8, <1>9 DEF Crossing, Searching
<1> QED
  BY <1>1, <1>10, CrossingKeeps DEF Searching

LEMMA SlopeStepKeeps == ASSUME PLInv, CInv, SlopeStep PROVE CInv'
<1>1. /\ cpc = "slope" /\ cpc' = "slope" /\ moved' = TRUE
      /\ UNCHANGED <<points, tried, between, crossing, plVars>>
  BY DEF SlopeStep
<1>0. PICK w \in Values :
        \E al, d, lk : x' = [x EXCEPT !.fl = <<x.fl[2], w, x.fl[3]>>, !.al = al, !.sols[2] = w,
                                    !.dfda = d, !.lk = lk]
  BY DEF SlopeStep
<1>2. PICK al, d, lk :
        x' = [x EXCEPT !.fl = <<x.fl[2], w, x.fl[3]>>, !.al = al, !.sols[2] = w, !.dfda = d, !.lk = lk]
  BY <1>0
<1>3. /\ DOMAIN x = DOMAIN NoCross /\ x.fl \in [1 .. 3 -> Int] /\ x.sols \in Seq(Int)
      /\ Len(x.sols) >= 2 /\ (problem.dim <= Pair => x.fl[2] < AIM)
  BY <1>1 DEF CInv, Crossing, Searching
<1>4. /\ DOMAIN x' = DOMAIN NoCross /\ x'.fl = <<x.fl[2], w, x.fl[3]>>
      /\ x'.sols = [x.sols EXCEPT ![2] = w]
  <2>1. DOMAIN x = {"fl", "al", "sols", "second", "dfda", "lk", "tentatives", "best", "line"}
    BY <1>3 DEF NoCross
  <2> QED
    BY <1>2, <2>1 DEF NoCross
<1>5. w \in Int /\ (problem.dim <= Pair => w < AIM)
  BY PlacesAre, AimIs
<1>6. /\ x'.fl \in [1 .. 3 -> Int] /\ x'.fl[1] = x.fl[2] /\ x'.fl[2] = w
      /\ x'.sols \in Seq(Int) /\ Len(x'.sols) >= 2
  BY <1>3, <1>4, <1>5
<1>7. AIM' = AIM /\ problem' = problem
  BY <1>1 DEF AIM, plVars
<1>8. Crossing'
  BY <1>1, <1>3, <1>4, <1>5, <1>6, <1>7 DEF Crossing, Searching
<1> QED
  BY <1>1, <1>8, CrossingKeeps DEF Searching

LEMMA SlopeEndKeeps == ASSUME PLInv, CInv, SlopeEnd PROVE CInv'
<1>1. /\ cpc = "slope" /\ cpc' = "point3" /\ x' = [x EXCEPT !.tentatives = 0]
      /\ UNCHANGED <<points, tried, between, crossing, moved, plVars>>
  BY DEF SlopeEnd
<1>2. DOMAIN x' = DOMAIN NoCross /\ x'.fl = x.fl /\ x'.sols = x.sols
  BY <1>1, OneFieldIs DEF CInv, Crossing
<1>3. AIM' = AIM /\ problem' = problem
  BY <1>1 DEF AIM, plVars
<1>4. Crossing'
  BY <1>1, <1>2, <1>3 DEF CInv, Crossing, Searching
<1> QED
  BY <1>1, <1>4, CrossingKeeps DEF Searching

\* Where nothing is left to optimize, three points below aim.
LEMMA AllBelow ==
  ASSUME CInv, cpc = "decide", problem.dim <= Pair
  PROVE  Below # {} /\ Cardinality(Below) = 3
<1>1. x.fl[1] < AIM /\ x.fl[2] < AIM /\ x.fl[3] < AIM
  BY DEF CInv, Crossing, Searching
<1>2. Below = 1 .. 3
  <2>1. \A i \in 1 .. 3 : i = 1 \/ i = 2 \/ i = 3
    OBVIOUS
  <2> QED
    BY <1>1, <2>1 DEF Below
<1>3. Cardinality(1 .. 3) = 3
  <2>1. PICK three \in Int : three = 3
    OBVIOUS
  <2>2. Cardinality(1 .. three) = IF 1 > three THEN 0 ELSE three - 1 + 1
    BY FS_Interval
  <2> QED
    BY <2>1, <2>2
<1>4. 1 .. 3 # {}
  <2>1. 1 \in 1 .. 3
    OBVIOUS
  <2> QED
    BY <2>1
<1> QED
  BY <1>2, <1>3, <1>4

LEMMA ThirdPointKeeps == ASSUME PLInv, CInv, ThirdPoint PROVE CInv'
<1>1. /\ cpc = "point3" /\ UNCHANGED <<points, tried, between, plVars>>
  BY DEF ThirdPoint
<1>2. AIM' = AIM /\ problem' = problem
  BY <1>1 DEF AIM, plVars
<1>3. /\ DOMAIN x = DOMAIN NoCross /\ x.fl \in [1 .. 3 -> Int] /\ x.sols \in Seq(Int)
      /\ Len(x.sols) >= 2 /\ (problem.dim <= Pair => x.fl[1] < AIM /\ x.fl[2] < AIM)
      /\ ~moved => x.sols[2] = x.fl[2] /\ (x.sols[1] = x.fl[1] \/ x.fl[1] < AIM)
  BY <1>1 DEF CInv, Crossing, Searching
<1>4. CASE /\ AIM \in {x.fl[1], x.fl[2]} /\ Return(x.second, x.second) /\ UNCHANGED <<x, moved>>
  <2>1. /\ cpc' = "crossed" /\ crossing'.f = x.second /\ crossing'.at = x.second
        /\ x' = x /\ moved' = moved
    BY <1>4 DEF Return
  <2>2. ~(problem.dim <= Pair)
    BY <1>3, <1>4, AimIs
  <2>3. problem.dim > Pair
    BY <2>2, AimIs DEF Pair
  <2>4. Crossing'
    BY <1>3, <2>1 DEF Crossing, Searching
  <2> QED
    BY <1>1, <1>2, <2>1, <2>3, <2>4, CrossingKeeps DEF Searching
<1>5. ASSUME NEW w \in Values, NEW al, NEW t,
             x' = [x EXCEPT !.fl[3] = w, !.al = al, !.sols = Append(SubSeq(x.sols, 1, 2), w),
                            !.tentatives = t],
             cpc' = "decide", UNCHANGED <<crossing, moved>>
      PROVE  CInv'
  <2>1. /\ DOMAIN x' = DOMAIN NoCross /\ x'.fl = [x.fl EXCEPT ![3] = w]
        /\ x'.sols = Append(SubSeq(x.sols, 1, 2), w)
    <3>1. DOMAIN x = {"fl", "al", "sols", "second", "dfda", "lk", "tentatives", "best", "line"}
      BY <1>3 DEF NoCross
    <3> QED
      BY <1>5, <3>1 DEF NoCross
  <2>2. w \in Int /\ (problem.dim <= Pair => w < AIM)
    BY PlacesAre, AimIs
  <2>3. /\ x'.fl \in [1 .. 3 -> Int] /\ x'.fl[1] = x.fl[1] /\ x'.fl[2] = x.fl[2] /\ x'.fl[3] = w
    BY <1>3, <2>1, <2>2
  <2>4. /\ x'.sols \in Seq(Int) /\ Len(x'.sols) = 3
        /\ x'.sols[1] = x.sols[1] /\ x'.sols[2] = x.sols[2]
    <3>1. PICK u : u = SubSeq(x.sols, 1, 2)
      OBVIOUS
    <3>2. u \in Seq(Int) /\ Len(u) = 2 /\ u[1] = x.sols[1] /\ u[2] = x.sols[2]
      BY <1>3, <3>1
    <3> QED
      BY <2>1, <2>2, <3>1, <3>2
  <2>5. Crossing'
    BY <1>2, <1>3, <1>5, <2>1, <2>2, <2>3, <2>4 DEF Crossing, Searching
  <2> QED
    BY <1>1, <1>5, <2>5, CrossingKeeps DEF Searching
<1> QED
  BY <1>4, <1>5 DEF ThirdPoint

LEMMA DecideKeeps ==
  ASSUME PLInv, CInv, Bracketed \/ LineStep \/ AllAbove
  PROVE  CInv'
<1>1. AIM \in Int /\ problem.dim \in Nat
  BY AimIs
<1>2. /\ DOMAIN x = DOMAIN NoCross /\ x.fl \in [1 .. 3 -> Int] /\ x.sols \in Seq(Int)
  BY DEF CInv, Crossing
<1>3. CASE Bracketed
  <2>1. /\ cpc = "decide" /\ cpc' = "line" /\ Cardinality(Below) \in {1, 2}
        /\ \E v : x' = [x EXCEPT !.line = v]
        /\ UNCHANGED <<points, tried, between, crossing, moved, plVars>>
    BY <1>3 DEF Bracketed
  <2>2. ~(problem.dim <= Pair)
    BY <2>1, AllBelow
  <2>3. DOMAIN x' = DOMAIN NoCross /\ x'.fl = x.fl /\ x'.sols = x.sols
    BY <1>2, <2>1, OneFieldIs
  <2>4. AIM' = AIM /\ problem' = problem
    BY <2>1 DEF AIM, plVars
  <2>5. Crossing'
    BY <2>1, <2>2, <2>3, <2>4 DEF CInv, Crossing, Searching
  <2> QED
    BY <2>1, <2>5, CrossingKeeps DEF Searching
<1>4. CASE LineStep
  <2>1. /\ cpc = "line" /\ UNCHANGED <<points, tried, between, moved, plVars>>
        /\ \/ Return(x.line, x.line) /\ x' = x
           \/ (\E v : x' = [x EXCEPT !.line = v]) /\ UNCHANGED <<cpc, crossing>>
    BY <1>4 DEF LineStep
  <2>2. problem.dim > Pair
    <3>1. ~(problem.dim <= Pair)
      BY <2>1 DEF CInv, Crossing, Searching
    <3> QED
      BY <1>1, <3>1 DEF Pair
  <2>3. AIM' = AIM /\ problem' = problem
    BY <2>1 DEF AIM, plVars
  <2>4. CASE Return(x.line, x.line) /\ x' = x
    <3>1. cpc' = "crossed" /\ crossing'.f = x.line /\ crossing'.at = x.line
      BY <2>4 DEF Return
    <3>2. Crossing'
      BY <1>2, <2>4, <3>1 DEF Crossing, Searching
    <3> QED
      BY <2>1, <2>2, <2>3, <3>1, <3>2, CrossingKeeps DEF Searching
  <2>5. CASE (\E v : x' = [x EXCEPT !.line = v]) /\ UNCHANGED <<cpc, crossing>>
    <3>1. DOMAIN x' = DOMAIN NoCross /\ x'.fl = x.fl /\ x'.sols = x.sols
      BY <1>2, <2>5, OneFieldIs
    <3>2. Crossing'
      BY <2>1, <2>3, <2>5, <3>1 DEF CInv, Crossing, Searching
    <3> QED
      BY <2>1, <2>5, <3>2, CrossingKeeps DEF Searching
  <2> QED
    BY <2>1, <2>4, <2>5
<1>5. CASE AllAbove
  <2>1. /\ cpc = "decide" /\ Below = {} /\ Best # 3 /\ Return(x.fl[Best], BestSolution)
        /\ UNCHANGED <<x, moved, points, tried, between, plVars>>
    BY <1>5 DEF AllAbove
  <2>2. cpc' = "crossed" /\ crossing'.f = x.fl[Best] /\ crossing'.at = x.sols[Best]
    BY <2>1 DEF Return, BestSolution
  <2>3. problem.dim > Pair
    <3>1. ~(problem.dim <= Pair)
      BY <2>1, AllBelow
    <3> QED
      BY <1>1, <3>1 DEF Pair
  <2>4. Best = 1 \/ Best = 2
    BY <2>1, Zenon DEF Best
  <2>5. ~moved => x.sols[1] = x.fl[1] /\ x.sols[2] = x.fl[2]
    <3>1. ~(x.fl[1] < AIM)
      BY <2>1 DEF Below
    <3> QED
      BY <2>1, <3>1 DEF CInv, Crossing, Searching
  <2>6. moved \/ crossing'.f = crossing'.at
    BY <2>2, <2>4, <2>5, Zenon
  <2>7. problem' = problem /\ moved' = moved
    BY <2>1 DEF plVars
  <2>8. Crossing'
    BY <1>2, <2>1, <2>2 DEF Crossing, Searching
  <2> HIDE DEF Best
  <2> QED
    BY <2>1, <2>2, <2>3, <2>6, <2>7, <2>8, CrossingKeeps DEF Searching
<1> QED
  BY <1>3, <1>4, <1>5

LEMMA AgainKeeps ==
  ASSUME PLInv, CInv, SlopeAgain \/ StraightLine
  PROVE  CInv'
<1>1. /\ cpc = "decide" /\ moved' = TRUE /\ UNCHANGED <<points, tried, between, plVars>>
      /\ cpc' \in {"slope", "point3", "crossed"}
      /\ cpc' = "crossed" => crossing' = None
  BY DEF SlopeAgain, StraightLine
<1>2. /\ DOMAIN x = DOMAIN NoCross /\ x.fl \in [1 .. 3 -> Int] /\ x.sols \in Seq(Int) /\ Len(x.sols) >= 2
      /\ problem.dim <= Pair => x.fl[1] < AIM /\ x.fl[2] < AIM /\ x.fl[3] < AIM
  BY <1>1 DEF CInv, Crossing, Searching
<1>3. /\ DOMAIN x' = DOMAIN NoCross /\ x'.sols = x.sols /\ x'.fl \in [1 .. 3 -> Int]
      /\ \A i \in 1 .. 3 : x'.fl[i] = x.fl[i] \/ x'.fl[i] = x.fl[3]
  <2>1. CASE SlopeAgain
    <3>1. PICK al, lk : x' = [x EXCEPT !.fl[2] = x.fl[3], !.al = al, !.lk = lk]
      BY <2>1 DEF SlopeAgain
    <3>2. DOMAIN x' = DOMAIN NoCross /\ x'.fl = [x.fl EXCEPT ![2] = x.fl[3]] /\ x'.sols = x.sols
      BY <1>2, <3>1, AgainIs
    <3> QED
      BY <1>2, <3>2
  <2>2. CASE StraightLine
    <3>1. PICK fl, al, d : /\ fl = [x.fl EXCEPT ![Worst] = x.fl[3]]
                           /\ x' = [x EXCEPT !.fl = fl, !.al = al, !.dfda = d]
      BY <2>2 DEF StraightLine
    <3>2. DOMAIN x' = DOMAIN NoCross /\ x'.fl = fl /\ x'.sols = x.sols
      BY <1>2, <3>1, StraightIs
    <3>3. PICK worst : worst = Worst
      OBVIOUS
    <3>4. fl = [x.fl EXCEPT ![worst] = x.fl[3]]
      BY <3>1, <3>3
    <3>5. PICK f : f = x.fl
      OBVIOUS
    <3>6. f \in [1 .. 3 -> Int] /\ fl = [f EXCEPT ![worst] = f[3]]
      BY <1>2, <3>4, <3>5
    <3>7. fl \in [1 .. 3 -> Int] /\ \A i \in 1 .. 3 : fl[i] = f[i] \/ fl[i] = f[3]
      <4>1. ASSUME NEW i \in 1 .. 3 PROVE fl[i] = f[i] \/ fl[i] = f[3]
        BY <3>6
      <4>2. ASSUME NEW i \in 1 .. 3 PROVE fl[i] \in Int
        BY <3>6, <4>1
      <4>3. fl = [i \in 1 .. 3 |-> fl[i]]
        BY <3>6
      <4> QED
        BY <4>1, <4>2, <4>3
    <3> QED
      BY <3>2, <3>5, <3>7
  <2> QED
    BY <2>1, <2>2
<1>4. AIM' = AIM /\ problem' = problem
  BY <1>1 DEF AIM, plVars
<1>5. problem.dim <= Pair => x'.fl[1] < AIM /\ x'.fl[2] < AIM
  BY <1>2, <1>3
<1>6. Crossing'
  BY <1>1, <1>2, <1>3, <1>4, <1>5 DEF Crossing, Searching
<1> QED
  BY <1>1, <1>6, CrossingKeeps DEF Searching, None

\* Steps of the contour itself.
LEMMA ContourKeeps ==
  ASSUME PLInv, CInv, ContourPoints \/ FourPoints \/ ChoosePair \/ AddPoint \/ ContourReturn
  PROVE  CInv'
<1>1. AIM' = AIM /\ problem' = problem
  BY DEF ContourPoints, FourPoints, ChoosePair, AddPoint, ContourReturn, AIM, plVars
<1>2. /\ tried \in Nat /\ points \in Seq(Nat) /\ Crossing
  BY DEF CInv
<1>3. CASE ContourPoints
  <2>1. /\ cpc' = "profiles" /\ points' = <<>> /\ tried' = 4 /\ x' = x /\ moved' = moved
    BY <1>3 DEF ContourPoints, crossVars
  <2>2. Crossing'
    BY <1>2, <2>1 DEF Crossing, Searching
  <2> QED
    BY <2>1, <2>2 DEF CInv, Searching
<1>4. CASE FourPoints
  <2>1. /\ cpc = "profiles" /\ cpc' = "points" /\ points' = <<1, 2, 3, 4>> /\ tried' = tried
        /\ x' = x /\ moved' = moved
    BY <1>4 DEF FourPoints, crossVars
  <2>2. Crossing'
    BY <1>2, <2>1 DEF Crossing, Searching
  <2>3. points' \in Seq(Nat) /\ Len(points') = 4
    BY <2>1
  <2>4. Numbered'
    <3>1. \A i \in 1 .. 4 : i = 1 \/ i = 2 \/ i = 3 \/ i = 4
      OBVIOUS
    <3>2. tried' = 4
      BY <2>1 DEF CInv
    <3> QED
      BY <2>1, <2>3, <3>1, <3>2 DEF Numbered
  <2> QED
    BY <1>2, <2>1, <2>2, <2>3, <2>4 DEF CInv, Searching
<1>5. CASE ChoosePair
  <2>1. /\ cpc = "points" /\ cpc' = "pair" /\ between' \in 0 .. Len(points) - 1
        /\ points' = points /\ tried' = tried /\ x' = x /\ moved' = moved
    BY <1>5 DEF ChoosePair, crossVars
  <2>2. Crossing'
    BY <1>2, <2>1 DEF Crossing, Searching
  <2> QED
    BY <1>2, <2>1, <2>2 DEF CInv, Searching, Numbered
<1>6. CASE AddPoint
  <2>1. /\ cpc = "crossed" /\ points' = IF crossing.dummy THEN points ELSE Placed
        /\ tried' = tried + 1 /\ cpc' = "points" /\ x' = NoCross
    BY <1>6 DEF AddPoint
  <2>2. Crossing'
    <3>1. /\ x'.fl = <<0, 0, 0>> /\ x'.sols = <<>>
      BY <2>1 DEF NoCross
    <3> QED
      BY <2>1, <3>1 DEF Crossing, Searching
  <2>3. PICK n \in Nat : n = Len(points) /\ n >= 1 /\ between \in 0 .. n - 1
    BY <1>2, <2>1 DEF CInv, Searching
  <2>4. Numbered
    BY <2>1 DEF CInv
  <2>5. /\ Placed \in Seq(Nat) /\ Len(Placed) = n + 1
        /\ \A i \in 1 .. n + 1 : Placed[i] <= tried + 1
    BY <1>2, <2>3, <2>4, PlacedIs
  <2>6. points' \in Seq(Nat) /\ Len(points') >= 1 /\ \A i \in 1 .. Len(points') : points'[i] <= tried + 1
    <3>1. CASE crossing.dummy
      <4>1. points' = points
        BY <2>1, <3>1
      <4>2. ASSUME NEW i \in 1 .. Len(points) PROVE points[i] <= tried + 1
        <5>1. points[i] <= tried /\ points[i] \in Nat
          BY <1>2, <2>4 DEF Numbered
        <5> QED
          BY <1>2, <5>1
      <4> QED
        BY <1>2, <2>3, <4>1, <4>2
    <3>2. CASE ~crossing.dummy
      <4>1. points' = Placed
        BY <2>1, <3>2
      <4>2. PICK placed : placed = Placed
        OBVIOUS
      <4> QED
        BY <2>3, <2>5, <4>1, <4>2
    <3> QED
      BY <3>1, <3>2
  <2>7. Numbered' /\ tried' \in Nat
    BY <1>2, <2>1, <2>6 DEF Numbered
  <2> QED
    BY <2>1, <2>2, <2>6, <2>7 DEF CInv, Searching
<1>7. CASE ContourReturn
  <2>1. /\ cpc' = "idle" /\ points' = <<>> /\ tried' = 0 /\ x' = x /\ moved' = moved
    BY <1>7 DEF ContourReturn, crossVars
  <2>2. Crossing'
    BY <1>2, <2>1 DEF Crossing, Searching
  <2> QED
    BY <2>1, <2>2 DEF CInv, Searching
<1> QED
  BY <1>3, <1>4, <1>5, <1>6, <1>7

LEMMA CInvOnPl ==
  ASSUME PLInv, CInv, UNCHANGED contourVars, problem' = problem
  PROVE  CInv'
<1>1. AIM' = AIM
  BY DEF AIM
<1> QED
  BY <1>1 DEF CInv, Crossing, Searching, contourVars, crossVars, Numbered

LEMMA PLOnContour == ASSUME PLInv, UNCHANGED plVars PROVE PLInv'
BY DEF PLInv, plVars, InSearch, Start, Filled, Crosses, Gap, Cell, Side, BoundsFromSearches

\* The error statistics.
ErrStatsInv == PLInv /\ CInv

LEMMA ErrStatsInitInv == ErrStatsInit => ErrStatsInv
<1> SUFFICES ASSUME ErrStatsInit PROVE ErrStatsInv
  OBVIOUS
<1>1. PLInv
  BY PLInitInv DEF ErrStatsInit
<1>2. cpc = "idle" /\ points = <<>> /\ tried = 0 /\ x = NoCross
  BY DEF ErrStatsInit, ContourInit
<1>3. x.fl = <<0, 0, 0>> /\ x.sols = <<>>
  BY <1>2 DEF NoCross
<1>4. CInv
  BY <1>2, <1>3 DEF CInv, Crossing, Searching
<1> QED
  BY <1>1, <1>4 DEF ErrStatsInv

LEMMA ErrStatsNextInv == ErrStatsInv /\ [ErrStatsNext]_ErrStatsVars => ErrStatsInv'
<1> SUFFICES ASSUME PLInv, CInv, [ErrStatsNext]_ErrStatsVars PROVE PLInv' /\ CInv'
  BY DEF ErrStatsInv
<1>1. CASE UserProfile
  <2>1. PICK k \in {1, 2}, curve \in BOOLEAN, m \in MaxIters : ProfileLikelihood(k, curve, m)
    BY <1>1, Zenon DEF UserProfile
  <2>2. PLInv'
    BY <2>1, PLStarts
  <2>3. problem' = problem /\ UNCHANGED contourVars
    BY <1>1, <2>1 DEF UserProfile, ProfileLikelihood
  <2> QED
    BY <2>2, <2>3, CInvOnPl
<1>2. CASE PLStep /\ UNCHANGED contourVars
  <2>1. problem' = problem
    BY <1>2 DEF PLStep, LinearStep, OptimizePk, StorePoint, SetErrMinMax, PLReturn
  <2> QED
    BY <1>2, <2>1, PLStepKeeps, CInvOnPl
<1>3. CASE ContourProfile
  <2>1. PICK k, m : ProfileLikelihood(k, FALSE, m)
    BY <1>3 DEF ContourProfile
  <2>2. PLInv'
    BY <2>1, PLStarts
  <2>3. problem' = problem /\ UNCHANGED contourVars
    BY <1>3, <2>1 DEF ContourProfile, ProfileLikelihood
  <2> QED
    BY <2>2, <2>3, CInvOnPl
<1>4. CASE ContourPoints \/ FourPoints \/ ChoosePair \/ AddPoint \/ ContourReturn
  <2>1. UNCHANGED plVars
    BY <1>4 DEF ContourPoints, FourPoints, ChoosePair, AddPoint, ContourReturn
  <2> QED
    BY <1>4, <2>1, ContourKeeps, PLOnContour
<1>5. CASE CrossStep
  <2>1. UNCHANGED plVars
    BY <1>5, Zenon DEF CrossStep, FirstTwo, SlopeStep, SlopeEnd, ThirdPoint, Bracketed, LineStep, AllAbove,
                SlopeAgain, StraightLine
  <2>2. CInv'
    BY <1>5, FirstTwoKeeps, SlopeStepKeeps, SlopeEndKeeps, ThirdPointKeeps, DecideKeeps, AgainKeeps
       DEF CrossStep
  <2> QED
    BY <2>1, <2>2, PLOnContour
<1>6. CASE UNCHANGED ErrStatsVars
  BY <1>6, PLOnContour, CInvOnPl DEF ErrStatsVars, plVars
<1> QED
  BY <1>1, <1>2, <1>3, <1>4, <1>5, <1>6 DEF ErrStatsNext

\* What ContourGrows says of a step.
GrowStep ==
  (AddPoint /\ ~crossing.dummy) =>
       LET p == IF between = 0 THEN Len(points) ELSE between
           r == CHOOSE i \in DOMAIN points' : points'[i] = tried + 1
       IN /\ RemoveAt(points', r) = points
          /\ points'[IF r = 1 THEN Len(points') ELSE r - 1] = points[p]
          /\ points'[(r % Len(points')) + 1] = points[(p % Len(points)) + 1]
          /\ ~moved => crossing.f = crossing.at
          /\ problem.dim > Pair

LEMMA ErrStatsGrows == ErrStatsInv => GrowStep
<1> SUFFICES ASSUME PLInv, CInv, AddPoint, ~crossing.dummy PROVE GrowStep
  BY Zenon DEF ErrStatsInv, GrowStep
<1>1. cpc = "crossed" /\ points' = Placed /\ tried \in Nat /\ points \in Seq(Nat)
  BY DEF AddPoint, CInv
<1>2. PICK n \in Nat : n = Len(points) /\ n >= 1 /\ between \in 0 .. n - 1
  BY <1>1 DEF CInv, Searching
<1>3. Numbered
  BY <1>1 DEF CInv
<1>4. PlacedWell(Placed)
  BY <1>1, <1>2, <1>3, PlacedIs
<1>5. PlacedWell(points')
  BY <1>1, <1>4, Zenon
<1>6. (~moved => crossing.f = crossing.at) /\ problem.dim > Pair
  BY <1>1 DEF CInv
<1> QED
  BY <1>5, <1>6, Zenon DEF PlacedWell, After, GrowStep

-----------------------------------------------------------------------------
LEMMA ErrStatsInvariance == ErrStatsSpec => []ErrStatsInv
BY ErrStatsInitInv, ErrStatsNextInv, PTL DEF ErrStatsSpec

\* The bounds of a profile likelihood come from its searches, one from each
\* direction and at fup, unless maxiters cut one (errstats.cc,
\* profile_likelihood_search() and pli::setErrMinMax()).
THEOREM BoundsAreSearched == ErrStatsSpec => []BoundsFromSearches
<1>1. ErrStatsInv => BoundsFromSearches
  BY DEF ErrStatsInv, PLInv
<1> QED
  BY <1>1, ErrStatsInvariance, PTL

\* The contour stays a closed curve: a point found between two neighbours goes
\* between them, wherever in the vector and however often the search is begun
\* again (errstats.cc, contour_points(), the insertion into c._points).
THEOREM ContourStaysClosed == ErrStatsSpec => ContourGrows
<1>1. ErrStatsInv /\ [ErrStatsNext]_ErrStatsVars => [GrowStep]_contourVars
  BY ErrStatsGrows
<1> QED
  BY <1>1, ErrStatsInvariance, PTL DEF ErrStatsSpec, ContourGrows, GrowStep
=============================================================================
