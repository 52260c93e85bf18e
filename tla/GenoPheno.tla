------------------------------ MODULE GenoPheno ------------------------------
(***************************************************************************)
(* libcmaes/src/genopheno.h with scaling.h, pwq_bound_strategy.cc and      *)
(* noboundstrategy.h: the search moves in a genotype that knows no bound,  *)
(* and every point is evaluated as the phenotype: a user's function, then  *)
(* the bounds, then the scaling.                                           *)
(*                                                                         *)
(* Dimensions do not mix, so a state follows one coordinate of one of the  *)
(* dimensions.  A genotype coordinate is an integer, UNIT of which make 1; *)
(* a phenotype coordinate is that times Grain(c), which makes the          *)
(* quadratic pieces of the bounds exact.  Rounding is left out.            *)
(***************************************************************************)
EXTENDS Integers, Sequences, SequencesExt

CONSTANTS
  UNIT,      (* genotype integers in 1                                      *)
  Boxes,     (* the bounds a user may give: a pair for each dimension       *)
  Samples,   (* genotype coordinates the search may come to                 *)
  Starts,    (* phenotype coordinates a user may start at                   *)
  CUSTOM,    (* the user's phenof adds this, genof takes it away            *)
  Garbage    (* what a vector nobody filled may hold                        *)

\* Bounds are a box; a multiple of 4 has a half that has a half, which makes the
\* scaled boxes and the middle of them exact.  A twentieth of 1 is not 0.
ASSUME GenoPhenoAssumption ==
  /\ UNIT \in Nat /\ UNIT >= 20
  /\ \A boxes \in Boxes :
       /\ boxes \in Seq(Int \X Int)
       /\ \A d \in DOMAIN boxes : /\ boxes[d][1] % 4 = 0 /\ boxes[d][2] % 4 = 0
                                 /\ boxes[d][1] < boxes[d][2]
  /\ Samples \subseteq Int /\ Starts \subseteq Int /\ CUSTOM \in Int
  /\ Garbage \subseteq Int

\* The internal box of linScalingStrategy: 0 .. 10.
INTMIN == 0
INTMAX == 10 * UNIT

VARIABLES
  gppc,      (* "none", "built", "mean", "started", "sampled", "evaluated"  *)
  gp,        (* the user's GenoPheno object: a converter per parameter      *)
  held,      (* whose converters the object of the search holds, in order   *)
  kept,      (* the parameters the search moves, in order                   *)
  coord,     (* the dimension followed, the user's start, the genotype and, *)
             (* when evaluated, the phenotype                               *)
  pinned     (* history: the phenotype before geno() took it back           *)

gpVars == <<gppc, gp, held, kept, coord, pinned>>

NoCoord == [dim |-> 1, x0 |-> 0, x |-> 0, y |-> 0]

GenoPhenoInit ==
  gppc = "none" /\ gp = <<>> /\ held = <<>> /\ kept = <<>> /\ coord = NoCoord
  /\ pinned = <<>>

-----------------------------------------------------------------------------
(* linScalingStrategy: y = off + w * x, w and off from the bounds or given.  *)

Identity == [w |-> 1, off |-> 0, id |-> TRUE]

\* compute_scaling(): the box goes to 0 .. 10.
ComputeScaling(box) ==
  LET w == (box[2] - box[1]) \div (INTMAX - INTMIN)
  IN  [w |-> w, off |-> box[2] - w * INTMAX, id |-> FALSE]

\* A scaling vector of 1/2 and a shift of 1.
ScalingVector == [w |-> 2, off |-> -2 * UNIT, id |-> FALSE]

ScaleToInternal(s, y, grain) == (y - grain * s.off) \div s.w
ScaleToF(s, x, grain) == grain * s.off + s.w * x

-----------------------------------------------------------------------------
(* pwqBoundStrategy.                                                         *)

NoBound == [bounded |-> FALSE, lb |-> 0, ub |-> 0, al |-> 1, au |-> 1]

AbsOf(n) == IF n < 0 THEN -n ELSE n
Lesser(a, b) == IF a < b THEN a ELSE b

\* al and au: half the box, or a twentieth of 1 + |bound| if that is less.
PwqBounds(lb, ub) ==
  LET half == (ub - lb) \div 2
  IN  [bounded |-> TRUE, lb |-> lb, ub |-> ub,
       al |-> Lesser(half, (UNIT + AbsOf(lb)) \div 20),
       au |-> Lesser(half, (UNIT + AbsOf(ub)) \div 20)]

XLow(b) == b.lb - 2 * b.al - (b.ub - b.lb) \div 2
XUp(b) == b.ub + 2 * b.au + (b.ub - b.lb) \div 2
Period(b) == 2 * (b.ub - b.lb + b.al + b.au)

\* Mutant: what lies above the period is not reflected.
ShiftDownOnly(b, x) ==
  IF x > XUp(b) THEN x - Period(b) * (1 + (x - XUp(b)) \div Period(b)) ELSE x

\* shift_into_feasible(): by periods until between xlow and xup, then
\* reflected at the edges.
ShiftIntoFeasible(b, x) ==
  LET up == IF x < XLow(b) THEN x + Period(b) * (1 + (XLow(b) - x) \div Period(b)) ELSE x
      down == IF up > XUp(b) THEN up - Period(b) * (1 + (up - XUp(b)) \div Period(b)) ELSE up
      low == IF down < b.lb - b.al THEN down + 2 * (b.lb - b.al - down) ELSE down
  IN  IF low > b.ub + b.au THEN low - 2 * (low - b.ub - b.au) ELSE low

Grain(b) == 4 * b.al * b.au

\* Quadratic next to a bound, the identity in between.
ToFRepresentation(b, x) ==
  LET y == ShiftIntoFeasible(b, x)
      down == y - (b.lb - b.al)
      up == y - (b.ub + b.au)
  IN  IF ~b.bounded THEN Grain(b) * x
      ELSE IF y < b.lb + b.al THEN Grain(b) * b.lb + b.au * down * down
      ELSE IF y > b.ub - b.au THEN Grain(b) * b.ub - b.al * up * up
      ELSE Grain(b) * y

Root(n) == CHOOSE s \in 0 .. n : s * s <= n /\ n < (s + 1) * (s + 1)

\* The inverse, of a phenotype that is one.
ToInternalRepresentation(b, y) ==
  IF ~b.bounded THEN y \div Grain(b)
  ELSE IF y < Grain(b) * (b.lb + b.al)
    THEN b.lb - b.al + Root(AbsOf(Grain(b) * b.lb - y) \div b.au)
  ELSE IF y > Grain(b) * (b.ub - b.au)
    THEN b.ub + b.au - Root(AbsOf(y - Grain(b) * b.ub) \div b.al)
  ELSE y \div Grain(b)

-----------------------------------------------------------------------------
(* GenoPheno.                                                                *)

\* What the constructors make of a kind of object and a box; a scaled object
\* bounds the internal box, or the box as its vector scales it.
Converter(kind, custom, box) ==
  LET scaling == CASE kind \in {"linear", "pwq_linear"} -> ComputeScaling(box)
                   [] kind \in {"vector", "pwq_vector"} -> ScalingVector
                   [] OTHER -> Identity
      bounds == CASE kind = "pwq" -> PwqBounds(box[1], box[2])
                  [] kind = "pwq_linear" -> PwqBounds(INTMIN, INTMAX)
                  [] kind = "pwq_vector" ->
                       PwqBounds(ScaleToInternal(scaling, box[1], 1),
                                 ScaleToInternal(scaling, box[2], 1))
                  [] OTHER -> NoBound
  IN  [scaling |-> scaling, bounds |-> bounds, custom |-> custom, box |-> box]

\* pheno(), of a vector and of every column of a matrix, and its specializations.
Pheno(c, x) ==
  LET ext == IF c.custom THEN x + CUSTOM ELSE x
      phen == ToFRepresentation(c.bounds, ext)
  IN  IF c.scaling.id THEN phen ELSE ScaleToF(c.scaling, phen, Grain(c.bounds))

\* The specialization of geno() for a scaling without bounds has genof write over
\* its argument and returns the vector it should have written to.
Unfilled(c) == c.custom /\ ~c.bounds.bounded /\ ~c.scaling.id

\* geno(): the same backwards; what it may return.
Geno(c, y) ==
  LET scaled == IF c.scaling.id THEN y ELSE ScaleToInternal(c.scaling, y, Grain(c.bounds))
      gen == ToInternalRepresentation(c.bounds, scaled)
  IN  IF Unfilled(c) THEN Garbage ELSE {IF c.custom THEN gen - CUSTOM ELSE gen}

\* removeElement(): an index past the end removes nothing.
RemoveElement(vec, k) == IF k > Len(vec) THEN vec ELSE RemoveAt(vec, k)

\* The converter of dimension d of the search.
Searched(d) == gp[held[d]]

\* Only a vector's constructor takes no user function; nobody scales or
\* bounds by a box that has no width.
BuildGenoPheno ==
  /\ gppc = "none"
  /\ \E kind \in {"none", "linear", "vector", "pwq", "pwq_linear", "pwq_vector"},
        custom \in BOOLEAN, boxes \in Boxes :
       /\ (custom => kind \notin {"vector", "pwq_vector"})
       /\ (kind \in {"linear", "pwq_linear"} =>
             \A d \in DOMAIN boxes : (boxes[d][2] - boxes[d][1]) % (INTMAX - INTMIN) = 0)
       /\ gp' = [d \in DOMAIN boxes |-> Converter(kind, custom, boxes[d])]
       /\ held' = [d \in DOMAIN boxes |-> d]
       /\ kept' = [d \in DOMAIN boxes |-> d]
  /\ gppc' = "built"
  /\ UNCHANGED <<coord, pinned>>

\* Mutant: the mean is the user's point unscaled.
MeanUnscaled(c, x0) == x0

\* CMASolutions: the mean is the user's point, scaled but not taken through geno().
InitialMean(c, x0) == IF c.scaling.id THEN x0 ELSE ScaleToInternal(c.scaling, x0, 1)

StartMean ==
  /\ gppc = "built"
  /\ \E d \in DOMAIN kept, x0 \in Starts :
       /\ gp[kept[d]].box[1] <= x0 /\ x0 <= gp[kept[d]].box[2]
       /\ (x0 - Searched(d).scaling.off) % Searched(d).scaling.w = 0
       /\ coord' = [dim |-> d, x0 |-> x0, x |-> InitialMean(Searched(d), x0), y |-> 0]
  /\ gppc' = "mean"
  /\ UNCHANGED <<gp, held, kept, pinned>>

\* The optimized coordinate, wherever the distribution goes.
SampleX ==
  /\ gppc = "built"
  /\ \E d \in DOMAIN kept, x \in Samples : coord' = [dim |-> d, x0 |-> 0, x |-> x, y |-> 0]
  /\ gppc' = "sampled"
  /\ UNCHANGED <<gp, held, kept, pinned>>

EvaluatePheno ==
  /\ gppc \in {"mean", "sampled"}
  /\ coord' = [coord EXCEPT !.y = Pheno(Searched(coord.dim), coord.x)]
  /\ gppc' = IF gppc = "mean" THEN "started" ELSE "evaluated"
  /\ UNCHANGED <<gp, held, kept, pinned>>

\* errstats: a parameter held at a phenotype comes back as a genotype, through
\* the user's object.
PinBack ==
  /\ gppc = "evaluated" /\ pinned = <<>> /\ Len(kept) = Len(gp)
  /\ pinned' = <<coord.y>>
  /\ \E x \in Geno(gp[kept[coord.dim]], coord.y) : coord' = [coord EXCEPT !.x = x]
  /\ gppc' = "sampled"
  /\ UNCHANGED <<gp, held, kept>>

\* errstats: the problem without one parameter, for a profile.
FixOne ==
  /\ gppc = "built" /\ Len(kept) = Len(gp) /\ Len(gp) > 1
  /\ \E a \in DOMAIN gp : held' = RemoveElement(held, a) /\ kept' = RemoveElement(kept, a)
  /\ UNCHANGED <<gppc, gp, coord, pinned>>

\* And without two, for a contour, taken to be given in ascending order: the
\* object loses the first and then the second, by its place before that, but the
\* start and the objective's argument lose the second first.  If the second is
\* the last, the object loses one only, and a scaling whose vectors are longer
\* than the point ends the program at an assertion of Eigen.
FixTwo ==
  /\ gppc = "built" /\ Len(kept) = Len(gp) /\ Len(gp) > 2
  /\ \E a, b \in DOMAIN gp :
       /\ a < b /\ (b = Len(gp) => gp[b].scaling.id)
       /\ held' = RemoveElement(RemoveElement(held, a), b)
       /\ kept' = RemoveElement(RemoveElement(kept, b), a)
  /\ UNCHANGED <<gppc, gp, coord, pinned>>

GenoPhenoReset ==
  /\ gppc \in {"started", "evaluated"}
  /\ gppc' = "none" /\ gp' = <<>> /\ held' = <<>> /\ kept' = <<>> /\ coord' = NoCoord
  /\ pinned' = <<>>

GenoPhenoNext ==
  \/ BuildGenoPheno \/ StartMean \/ SampleX \/ EvaluatePheno \/ PinBack \/ FixOne
  \/ FixTwo \/ GenoPhenoReset

GenoPhenoSpec == GenoPhenoInit /\ [][GenoPhenoNext]_gpVars

-----------------------------------------------------------------------------
InBox(b, box, y) == Grain(b) * box[1] <= y /\ y <= Grain(b) * box[2]

\* The parameter right after the second one a contour fixes.
FollowsFixed(p) ==
  LET searched == {kept[d] : d \in DOMAIN kept} IN
  /\ Len(kept) = Len(gp) - 2
  /\ p - 1 \in DOMAIN gp \ searched /\ p .. Len(gp) \subseteq searched

\* Whatever the search samples, with parameters fixed or not and however the
\* bounds, a scaling and a user's function are combined, the objective gets each
\* parameter inside that parameter's own bounds.  One parameter of a contour is
\* the exception, and gets its predecessor's: the second removal goes by an index
\* the first has moved.  And a parameter errstats holds at a phenotype is, taken
\* back to the genotype, held there, where geno() returns what genof wrote.
EvaluatedAsMeant ==
  gppc \in {"started", "evaluated"} =>
    LET c == Searched(coord.dim)
        own == kept[coord.dim] IN
    /\ c.bounds.bounded =>
         \/ InBox(c.bounds, gp[own].box, coord.y)
         \/ FollowsFixed(own) /\ InBox(c.bounds, gp[own - 1].box, coord.y)
    /\ pinned # <<>> /\ ~Unfilled(c) => coord.y = pinned[1]

\* A search begins at the point the user gave, if that is not next to a bound,
\* where the mean would have to be taken through the inverse of the bounds.
StartsAtX0 ==
  (gppc = "started" /\ ~Searched(coord.dim).custom) =>
    LET c == Searched(coord.dim) IN
    \/ coord.y = Grain(c.bounds) * coord.x0
    \/ c.bounds.bounded /\ ~(coord.x \in c.bounds.lb + c.bounds.al .. c.bounds.ub - c.bounds.au)
=============================================================================
