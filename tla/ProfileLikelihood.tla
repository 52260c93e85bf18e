-------------------------- MODULE ProfileLikelihood --------------------------
(***************************************************************************)
(* libcmaes/src/errstats.cc, pli.h: the profile likelihood of one          *)
(* parameter.  From the minimum, a line search moves x[k] one way and then *)
(* the other; after each move the other parameters are optimized again,    *)
(* and the points found are stored in a table from which the error bounds  *)
(* are read: the points closest to minimum + fup.                          *)
(*                                                                         *)
(* A point is its function value.  What the function gives at a new point  *)
(* is a choice from VALUES; take_linear_step only asks on which side of    *)
(* fup it lies.  The statuses in _err are printed and nothing else.        *)
(***************************************************************************)
EXTENDS Integers, FiniteSets

CONSTANTS
  PLValues,      (* the values the function may have, see Near              *)
  Minima,        (* the value of the minimum the search starts from         *)
  FUP,           (* fup, in the unit of the values                          *)
  SAMPLESIZE,    (* samplesize: table cells on either side                  *)
  MaxIters,      (* the values of maxiters                                  *)
  STEPS,         (* n: evaluations of a linear step, 10 in the code         *)
  DOUBLINGS,     (* bound: doublings of the first step before x[k]          *)
                 (* overflows and leaves the loop, some 2000                *)
  Dims           (* the dimensions of the problem                           *)

ASSUME PLAssumption ==
  /\ PLValues \subseteq Int /\ Minima \subseteq PLValues
  /\ FUP \in Nat \ {0} /\ SAMPLESIZE \in Nat \ {0}
  /\ MaxIters \subseteq Nat \ {0} /\ STEPS \in Nat /\ DOUBLINGS \in Nat
  /\ Dims \subseteq Nat \ {0}

VARIABLES
  plpc,      (* "idle", "linear", "optimize", "store", "bounds", "return"   *)
  problem,   (* dim, minimum, and whether x[k] = 0 there                    *)
  search,    (* the arguments of the call, its direction and its i          *)
  step,      (* take_linear_step: linit, its branch, i and where f is       *)
  le,        (* the table _fvaluem/_xm: what was stored in each cell        *)
  found,     (* ncitsol, what optimize_pk returned                          *)
  bounds,    (* the cells the error bounds were read from                   *)
  pls,       (* the parameters with an entry in cmasol._pls                 *)
  cut        (* history: maxiters ended a search with cells not stored      *)

plVars == <<plpc, problem, search, step, le, found, bounds, pls, cut>>

Zero  == [by |-> "none", f |-> 0]       \* dVec::Zero, dMat::Zero
Start == [by |-> "start", f |-> problem.minimum]
Cells == 1 .. 2 * SAMPLESIZE + 1
CENTER == SAMPLESIZE + 1
NotFound == [status |-> 0, f |-> 0]
NoSearch == [k |-> 0, curve |-> FALSE, maxiters |-> 1, neg |-> FALSE, i |-> 0]
NoStep == [linit |-> FALSE, branch |-> "below", left |-> 0, f |-> "within"]

PLInit ==
  /\ plpc = "idle"
  /\ problem \in [dim : Dims, minimum : Minima, zero : BOOLEAN]
  /\ search = NoSearch /\ step = NoStep
  /\ le = [c \in Cells |-> Zero] /\ found = NotFound
  /\ bounds = {} /\ pls = {} /\ cut = FALSE

-----------------------------------------------------------------------------
\* The distance |v - w|.
Gap(v, w) == IF v < w THEN w - v ELSE v - w

\* Bound: values are looked at up to fup above minimum + fup.
Near == {v \in PLValues : v <= problem.minimum + 2 * FUP}

\* What a reoptimization with `fixed` parameters held returns: when nothing is
\* left to optimize, the best candidate is that of the solution it was given.
OptimizeVpk(fixed, given) ==
  IF problem.dim <= fixed THEN {[status |-> 0, f |-> given]}
                          ELSE [status : {-1, 1}, f : Near]

\* The first step of a search starts at the minimum, where f is below fup.
FirstStep ==
  [linit |-> TRUE, branch |-> "below", left |-> DOUBLINGS, f |-> "below"]

\* profile_likelihood(): the positive direction, then the negative one.
ProfileLikelihood(k, curve, maxiters) ==
  /\ plpc = "idle"
  /\ search' = [k |-> k, curve |-> curve, maxiters |-> maxiters,
                neg |-> FALSE, i |-> 0]
  /\ le' = [[c \in Cells |-> Zero] EXCEPT ![CENTER] = Start]
  /\ step' = FirstStep
  /\ plpc' = "linear"
  /\ UNCHANGED <<problem, found, bounds, pls, cut>>

\* The while loops of take_linear_step go on on one side of fup, up to n
\* times and inside the bounds of x[k]; the first step of a search counts no i.
Stepping == step.f = step.branch /\ step.left > 0

\* d is a tenth of x[k]: with x[k] = 0 the point does not move, and the
\* first loop has no other end.
LinearStep ==
  /\ plpc = "linear"
  /\ IF Stepping
       THEN /\ ~problem.zero
            /\ \E f \in {"above", "within", "below", "outside"} :
                 step' = [step EXCEPT !.f = f, !.left = @ - 1]
            /\ UNCHANGED plpc
       ELSE plpc' = "optimize" /\ UNCHANGED step
  /\ UNCHANGED <<problem, search, le, found, bounds, pls, cut>>

OptimizePk ==
  /\ plpc = "optimize"
  /\ found' \in OptimizeVpk(1, problem.minimum)
  /\ plpc' = "store"
  /\ UNCHANGED <<problem, search, step, le, bounds, pls, cut>>

Side == IF search.neg THEN "neg" ELSE "pos"

\* Mutant: both directions fill the same side of the table.
CellPositive(n) == CENTER + (1 + n)

\* samplesize + sign*(1+n)
Cell(n) == IF search.neg THEN CENTER - (1 + n) ELSE CENTER + (1 + n)

\* "pad and return"
Padded(value) ==
  [c \in Cells |-> IF \E n \in 0 .. SAMPLESIZE - 1 : c = Cell(n) THEN value ELSE le[c]]

NewMinimum == 10 * found.f < problem.minimum
Crossed    == 10 * Gap(found.f, problem.minimum + FUP) <= FUP
Point      == [by |-> Side, f |-> found.f]

GivesUp == found.status < 0 \/ NewMinimum

\* The search in one direction is over.
EndOfSide ==
  IF search.neg
    THEN plpc' = "bounds" /\ UNCHANGED <<search, step>>
    ELSE /\ plpc' = "linear" /\ step' = FirstStep
         /\ search' = [search EXCEPT !.neg = TRUE, !.i = 0]

\* The other steps start where the optimization ended, wherever that is.
NextStep(f) ==
  [linit |-> FALSE, branch |-> IF f = "above" THEN f ELSE "below",
   left |-> STEPS, f |-> f]

StorePoint ==
  /\ plpc = "store"
  /\ LET last == search.i + 1 IN
     \/ /\ GivesUp
        /\ le' = Padded(le[CENTER])
        /\ EndOfSide /\ UNCHANGED cut
     \/ /\ ~GivesUp /\ ~search.curve /\ Crossed
        /\ le' = Padded(Point)
        /\ EndOfSide /\ UNCHANGED cut
     \/ /\ ~GivesUp /\ (search.curve \/ ~Crossed)
        /\ le' = IF search.curve THEN [le EXCEPT ![Cell(search.i)] = Point] ELSE le
        /\ \/ search.curve /\ last = SAMPLESIZE /\ EndOfSide /\ UNCHANGED cut
           \/ /\ ~(search.curve /\ last = SAMPLESIZE) /\ last = search.maxiters
              /\ EndOfSide /\ cut' = TRUE
           \/ /\ ~(search.curve /\ last = SAMPLESIZE) /\ last # search.maxiters
              /\ \E f \in {"above", "within", "below"} : step' = NextStep(f)
              /\ search' = [search EXCEPT !.i = last]
              /\ plpc' = "linear" /\ UNCHANGED cut
  /\ UNCHANGED <<problem, found, bounds, pls>>

\* minCoeff: the first cell of s closest to v.
Closest(s, v) ==
  CHOOSE c \in s : \A d \in s :
    /\ Gap(le[c].f, v) <= Gap(le[d].f, v)
    /\ Gap(le[c].f, v) = Gap(le[d].f, v) => c <= d

\* getMinMax(): one bound from the head of the table, one from its tail.
GetMinMax(v) ==
  {le[Closest(1 .. SAMPLESIZE, v)], le[Closest(CENTER + 1 .. 2 * SAMPLESIZE + 1, v)]}

\* setErrMinMax(), and _pls.insert, which keeps an entry of an earlier call.
SetErrMinMax ==
  /\ plpc = "bounds"
  /\ bounds' = GetMinMax(le[CENTER].f + FUP)
  /\ pls' = pls \cup {search.k}
  /\ le' = [c \in Cells |-> Zero] /\ found' = NotFound
  /\ step' = NoStep /\ plpc' = "return"
  /\ UNCHANGED <<problem, search, cut>>

PLReturn ==
  /\ plpc = "return"
  /\ plpc' = "idle" /\ bounds' = {} /\ search' = NoSearch /\ cut' = FALSE
  /\ UNCHANGED <<problem, step, le, found, pls>>

PLStep == LinearStep \/ OptimizePk \/ StorePoint \/ SetErrMinMax \/ PLReturn

-----------------------------------------------------------------------------
(* Properties.                                                               *)

\* The error bounds are read from points the two searches stored, one from
\* each direction, or from the minimum where a search gave up; and a search
\* that is no curve bounds at fup - unless maxiters ended a search, which
\* leaves zeros in the table that no one computed.
BoundsFromSearches ==
  ~cut =>
    /\ \A b \in bounds : b.by # "none"
    /\ \A side \in {"pos", "neg"} :
         Cardinality({b \in bounds : b.by = side}) <= 1
    /\ \A b \in bounds : (b.by # "start" /\ ~search.curve) =>
         10 * Gap(b.f, problem.minimum + FUP) <= FUP
=============================================================================
