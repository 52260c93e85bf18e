------------------------------- MODULE Contour -------------------------------
(***************************************************************************)
(* libcmaes/src/errstats.cc, contour_points() and cross(): the contour of  *)
(* two parameters at minimum + fup.  Four points come from the two profile *)
(* likelihoods, computed here unless the solution already has them; every  *)
(* further one is a crossing searched between the two most distant         *)
(* neighbours.                                                             *)
(*                                                                         *)
(* Positions along the search line are kept as an order: the code divides  *)
(* and multiplies them, and uses which side of which they are on.          *)
(***************************************************************************)
EXTENDS ProfileLikelihood, Sequences, SequencesExt

CONSTANTS
  NPOINTS,       (* npoints                                                 *)
  MAXITR,        (* maxitr: 15 in the code                                  *)
  TENTATIVES     (* third points tried: 10 in the code                      *)

ASSUME ContourAssumption ==
  NPOINTS \in Nat /\ MAXITR \in Nat /\ MAXITR > 2 /\ TENTATIVES \in Nat \ {0}

VARIABLES
  cpc,       (* "idle", "profiles", "points", "pair", "point2", "slope",    *)
             (* "point3", "decide", "line", "crossed"                       *)
  points,    (* c._points: the contour, each point named by its number      *)
  tried,     (* i, the number of the point being generated                  *)
  between,   (* the place in points before which the new one goes           *)
  x,         (* the locals of cross()                                       *)
  crossing,  (* what cross() returned: a value and the value at its point   *)
  moved      (* history: flsb was updated and cmasols was not               *)

crossVars == <<x, crossing, moved>>
contourVars == <<cpc, points, tried, between, crossVars>>

None == [f |-> 0, at |-> 0, dummy |-> TRUE]
NoCross == [fl |-> <<0, 0, 0>>, al |-> <<0, 0, 0>>, sols |-> <<>>, second |-> 0,
            dfda |-> 0, lk |-> 0, tentatives |-> 0, best |-> 0, line |-> 0]

ContourInit ==
  /\ cpc = "idle" /\ points = <<>> /\ tried = 0 /\ between = 0
  /\ x = NoCross /\ crossing = None /\ moved = FALSE

AIM == problem.minimum + FUP
SignOf(n) == IF n > 0 THEN 1 ELSE IF n < 0 THEN -1 ELSE 0
Pair == 2    \* the two parameters of the contour are held

-----------------------------------------------------------------------------
(* contour_points().                                                         *)

ContourPoints ==
  /\ cpc = "idle" /\ plpc = "idle" /\ problem.dim >= Pair
  /\ cpc' = "profiles" /\ points' = <<>> /\ tried' = 4
  /\ UNCHANGED <<between, crossVars, plVars>>

\* get_pli, and profile_likelihood where there is none: x first, then y.
ContourProfile ==
  /\ cpc = "profiles" /\ plpc = "idle"
  /\ \E k \in {1, 2} :
       /\ k \notin pls /\ (k = 2 => 1 \in pls)
       /\ \E m \in MaxIters : ProfileLikelihood(k, FALSE, m)
  /\ UNCHANGED contourVars

\* The other parameter is optimized at each of the four bounds.
FourPoints ==
  /\ cpc = "profiles" /\ plpc = "idle" /\ {1, 2} \subseteq pls
  /\ points' = <<1, 2, 3, 4>>
  /\ cpc' = "points"
  /\ UNCHANGED <<tried, between, crossVars, plVars>>

\* The most distant neighbours, the last and the first point among them:
\* 0 for these two, i for the points i and i+1.
ChoosePair ==
  /\ cpc = "points" /\ tried < NPOINTS
  /\ between' \in 0 .. Len(points) - 1
  /\ cpc' = "pair"
  /\ UNCHANGED <<points, tried, crossVars, plVars>>

\* Mutant: the point goes in front of the first neighbour.
PlaceBefore == IF between = 0 THEN Append(points, tried + 1)
                              ELSE InsertAt(points, between, tried + 1)

\* add_point(): before idist2, at the end when that is begin().
Placed == IF between = 0 THEN Append(points, tried + 1)
                         ELSE InsertAt(points, between + 1, tried + 1)

\* A dummy crossing is skipped.
AddPoint ==
  /\ cpc = "crossed"
  /\ points' = IF crossing.dummy THEN points ELSE Placed
  /\ tried' = tried + 1
  /\ cpc' = "points"
  /\ x' = NoCross /\ crossing' = None /\ moved' = FALSE
  /\ UNCHANGED <<between, plVars>>

ContourReturn ==
  /\ cpc = "points" /\ tried >= NPOINTS
  /\ cpc' = "idle" /\ points' = <<>> /\ tried' = 0 /\ between' = 0
  /\ UNCHANGED <<crossVars, plVars>>

-----------------------------------------------------------------------------
(* cross().                                                                  *)

\* The value of optimize_vpk's best candidate; bound: no new minimum is found.
Values == {r.f : r \in OptimizeVpk(Pair, problem.minimum)} \cap problem.minimum .. AIM + FUP

\* Positions only count by their order: 0, 2, 4.
Ranked(s) ==
  [i \in DOMAIN s |-> 2 * Cardinality({s[j] : j \in {n \in DOMAIN s : s[n] < s[i]}})]

\* The slope between the first two points, the sign of dfda.
Slope(fl, al) == SignOf(fl[2] - fl[1]) * SignOf(al[2] - al[1])

Return(f, at) ==
  /\ crossing' = [f |-> f, at |-> at, dummy |-> FALSE]
  /\ cpc' = "crossed"

\* The first point, whose value is raised to a tenth of fup at least, and the
\* second, further on when the first is below aim.
FirstTwo ==
  /\ cpc = "pair"
  /\ \E v, w \in Values :
       LET floor == problem.minimum + FUP \div 10
           f1    == IF v < floor THEN floor ELSE v
       IN \E a \in {-1, 1} :
            /\ (f1 < AIM => a = 1) /\ (f1 > AIM => a = -1)
            /\ x' = [NoCross EXCEPT !.fl = <<f1, w, 0>>, !.al = Ranked(<<0, a>>) \o <<0>>,
                                    !.sols = <<v, w>>, !.second = w,
                                    !.dfda = SignOf(w - f1) * a,
                                    !.lk = MAXITR - 2]
  /\ cpc' = "slope"
  /\ UNCHANGED <<points, tried, between, crossing, moved, plVars>>

\* "if negative slope, update until positive": the first point becomes the
\* second, in alsb and flsb, and a new second is taken further on.
SlopeStep ==
  /\ cpc = "slope" /\ x.dfda <= 0 /\ x.lk > 0
  /\ x.dfda = 0 => x.lk < MAXITR - 2     \* the loop is not entered on a flat
  /\ \E w \in Values :
       x' = [x EXCEPT !.fl = <<x.fl[2], w, x.fl[3]>>, !.al = <<0, 2, x.al[3]>>,
                      !.sols[2] = w, !.dfda = SignOf(w - x.fl[2]), !.lk = @ - 1]
  /\ moved' = TRUE
  /\ UNCHANGED <<cpc, points, tried, between, crossing, plVars>>

SlopeEnd ==
  /\ cpc = "slope"
  /\ x.dfda > 0 \/ x.lk = 0 \/ (x.dfda = 0 /\ x.lk = MAXITR - 2)
  /\ x' = [x EXCEPT !.tentatives = 0]
  /\ cpc' = "point3"
  /\ UNCHANGED <<points, tried, between, crossing, moved, plVars>>

\* Where the line through the first two points reaches aim, at most a step
\* beyond them; a flat line reaches it nowhere and ends up there too.
ThirdPlaces ==
  LET d == SignOf(AIM - x.fl[2]) * x.dfda IN
  IF x.dfda = 0 THEN {-1, 3}
  ELSE {a \in -1 .. 3 : SignOf(a - x.al[2]) = d}

\* "return second optimized point" below tolerance, or get a third point.
ThirdPoint ==
  /\ cpc = "point3"
  /\ \E a \in ThirdPlaces :
       IF a \in {x.al[1], x.al[2]} /\ AIM \in {x.fl[1], x.fl[2]}
         THEN Return(x.second, x.second) /\ UNCHANGED <<x, moved>>
         ELSE /\ \E w \in Values :
                   x' = [x EXCEPT !.fl[3] = w, !.al = Ranked(<<@[1], @[2], a>>),
                                  !.sols = Append(SubSeq(@, 1, 2), w),
                                  !.tentatives = @ + 1]
              /\ cpc' = "decide" /\ UNCHANGED <<crossing, moved>>
  /\ UNCHANGED <<points, tried, between, plVars>>

Off(i) == Gap(x.fl[i], AIM)

\* ibest: the third point unless another one is closer; iworst: the first of
\* the furthest.
Best ==
  IF \A i \in 1 .. 3 : Off(i) >= Off(3) THEN 3 ELSE IF Off(1) <= Off(2) THEN 1 ELSE 2
Worst == CHOOSE i \in 1 .. 3 : \A j \in 1 .. 3 : Off(j) <= Off(i) /\ (Off(j) = Off(i) => i <= j)
Below == {i \in 1 .. 3 : x.fl[i] < AIM}

\* srefp: the closest on the other side of aim, the last of equals.
Opposite ==
  LET side == {i \in 1 .. 3 : IF Best \in Below THEN x.fl[i] > AIM ELSE i \in Below}
  IN CHOOSE i \in side : \A j \in side : Off(i) <= Off(j) /\ (Off(i) = Off(j) => i >= j)

\* "at least one on each side": a line search starts from the lower of the
\* two and keeps the solutions up to the first above aim, or the best point.
Bracketed ==
  /\ cpc = "decide" /\ Cardinality(Below) \in {1, 2}
  /\ Opposite \in 1 .. 3
  /\ x' = [x EXCEPT !.line = x.sols[Best]]
  /\ cpc' = "line"
  /\ UNCHANGED <<points, tried, between, crossing, moved, plVars>>

LineStep ==
  /\ cpc = "line"
  /\ \E w \in Values :
       IF w > AIM THEN Return(x.line, x.line) /\ UNCHANGED x
                  ELSE x' = [x EXCEPT !.line = w] /\ UNCHANGED <<cpc, crossing>>
  /\ UNCHANGED <<points, tried, between, moved, plVars>>

BestSolution == x.sols[Best]

\* "if all three points are above aim" and the third is not the best.
AllAbove ==
  /\ cpc = "decide" /\ Below = {} /\ Best # 3
  /\ Return(x.fl[Best], BestSolution)
  /\ UNCHANGED <<x, moved, points, tried, between, plVars>>

\* "all three below and third is not best": goto slope, with dfda as it was.
SlopeAgain ==
  /\ cpc = "decide" /\ Cardinality(Below) = 3 /\ Best # 3
  /\ x' = [x EXCEPT !.fl[2] = x.fl[3], !.al = Ranked(<<@[1], @[3]>>) \o <<0>>,
                    !.lk = MAXITR - 2]
  /\ moved' = TRUE
  /\ cpc' = "slope"
  /\ UNCHANGED <<points, tried, between, crossing, plVars>>

\* "restart from point 3", TENTATIVES times, then a dummy.
StraightLine ==
  /\ cpc = "decide" /\ Best = 3 /\ Cardinality(Below) \in {0, 3}
  /\ LET fl == [x.fl EXCEPT ![Worst] = x.fl[3]]
         al == [x.al EXCEPT ![Worst] = x.al[3]]
     IN x' = [x EXCEPT !.fl = fl, !.al = Ranked(<<al[1], al[2]>>) \o <<0>>,
                       !.dfda = Slope(fl, al)]
  /\ moved' = TRUE
  /\ IF x.tentatives < TENTATIVES THEN cpc' = "point3" /\ UNCHANGED crossing
                                  ELSE cpc' = "crossed" /\ crossing' = None
  /\ UNCHANGED <<points, tried, between, plVars>>

CrossStep ==
  \/ FirstTwo \/ SlopeStep \/ SlopeEnd \/ ThirdPoint
  \/ Bracketed \/ LineStep \/ AllAbove \/ SlopeAgain \/ StraightLine

-----------------------------------------------------------------------------
UserProfile ==
  /\ cpc = "idle"
  /\ \E k \in {1, 2}, curve \in BOOLEAN, m \in MaxIters :
       k <= problem.dim /\ k \notin pls /\ ProfileLikelihood(k, curve, m)
  /\ UNCHANGED contourVars

ErrStatsNext ==
  \/ UserProfile
  \/ PLStep /\ UNCHANGED contourVars
  \/ ContourPoints \/ ContourProfile \/ FourPoints \/ ChoosePair \/ AddPoint
  \/ ContourReturn \/ CrossStep

ErrStatsInit == PLInit /\ ContourInit
ErrStatsVars == <<plVars, contourVars>>

\* A call is sequential code and runs on.
ErrStatsFairness == WF_ErrStatsVars(PLStep /\ UNCHANGED contourVars)

ErrStatsSpec == ErrStatsInit /\ [][ErrStatsNext]_ErrStatsVars /\ ErrStatsFairness

-----------------------------------------------------------------------------
(* Properties.                                                               *)

\* The contour stays a closed curve: a new point comes between the two
\* neighbours it was searched between.  The value cross() reports is the value
\* at its point, until flsb has moved on without cmasols; and it finds no point
\* at all in two dimensions, where nothing is left to optimize and every
\* value it is given is the minimum's.
ContourGrows ==
  [][(AddPoint /\ ~crossing.dummy) =>
       LET p == IF between = 0 THEN Len(points) ELSE between
           r == CHOOSE i \in DOMAIN points' : points'[i] = tried + 1
       IN /\ RemoveAt(points', r) = points
          /\ points'[IF r = 1 THEN Len(points') ELSE r - 1] = points[p]
          /\ points'[(r % Len(points')) + 1] = points[(p % Len(points)) + 1]
          /\ ~moved => crossing.f = crossing.at
          /\ problem.dim > Pair]_contourVars

\* A profile likelihood returns unless x[k] is 0 at the minimum.
ProfileReturns == (plpc = "linear" /\ ~problem.zero) ~> (plpc = "idle")
=============================================================================
