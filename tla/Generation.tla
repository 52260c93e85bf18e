------------------------------ MODULE Generation ------------------------------
(***************************************************************************)
(* One generation of libcmaes: ask() fills the columns of the population,  *)
(* eval() evaluates them, twice for some under uncertainty handling, and   *)
(* may reinject an elite, tell() ranks them and reads the two-point        *)
(* adaptation off the ranks (cmastrategy.cc, esostrategy.cc, candidate.h). *)
(*                                                                         *)
(* A candidate is what put it in its column, its id and its value.  Where  *)
(* points lie is left out, and so is what the update makes of the ranks.   *)
(***************************************************************************)
EXTENDS Integers, Sequences, FiniteSets, Folds

CONSTANTS
  PopSize,      (* lambda                                                   *)
  GenValues,    (* the values of the function                               *)
  Reevaluated   (* _lambda_reev: candidates evaluated twice                 *)

\* Two-point adaptation with a gradient takes three columns.
ASSUME GenerationAssumption ==
  /\ PopSize \in Nat /\ PopSize >= 3 /\ GenValues \subseteq Nat
  /\ Reevaluated \subseteq 1 .. PopSize

VARIABLES
  gpc,     (* "idle", "asked", "evaluated", "told"                          *)
  gopt,    (* the options of the search, and whether it is past its start   *)
  pop,     (* _solutions._candidates                                        *)
  uh,      (* _candidates_uh: value, mutated value, index                   *)
  reev,    (* _lambda_reev                                                  *)
  ref,     (* the elite: its value and the id it was given when evaluated   *)
  injected, (* history: the elite replaced a candidate                      *)
  noise,   (* the sign of _suh                                              *)
  ranks    (* r1 and r2 of tpa_update, -1 where no candidate has the id     *)

genVars == <<gpc, gopt, pop, uh, reev, ref, injected, noise, ranks>>

Columns == 1 .. PopSize
NoOptions == [gradient |-> FALSE, tpa |-> FALSE, uh |-> FALSE, elitist |-> FALSE, later |-> FALSE]
NoRef == [f |-> 0, id |-> -1]

GenerationInit ==
  /\ gpc = "idle" /\ gopt = NoOptions /\ pop = <<>> /\ uh = <<>> /\ reev = 0
  /\ ref = NoRef /\ injected = FALSE /\ noise = 0 /\ ranks = <<-1, -1>>

-----------------------------------------------------------------------------
(* ask().                                                                    *)

\* Mutant: the two points keep their columns when a gradient is injected.
TpaFirstTwo == <<0, 1>>

\* _tpa_p1 and _tpa_p2, as candidate ids: "if gradient is in col 0, move tpa
\* vectors to pos 1 & 2".
TpaIds == IF gopt.gradient THEN <<1, 2>> ELSE <<0, 1>>

TpaActive == gopt.tpa /\ gopt.later

\* A gradient is injected unless it is 0 at the mean.
Asked(injectedGradient) ==
  [c \in Columns |->
     [kind |-> IF TpaActive /\ c = 1 + (IF gopt.gradient THEN 1 ELSE 0) THEN "tpa1"
               ELSE IF TpaActive /\ c = 2 + (IF gopt.gradient THEN 1 ELSE 0) THEN "tpa2"
               ELSE IF injectedGradient /\ c = 1 THEN "gradient" ELSE "sample",
      id |-> -1, f |-> 0]]

StartGeneration ==
  /\ gpc = "idle"
  /\ gopt' \in [gradient : BOOLEAN, tpa : BOOLEAN, uh : BOOLEAN, elitist : BOOLEAN,
                later : BOOLEAN]
  /\ ref' \in IF gopt'.elitist /\ gopt'.later
                THEN [f : GenValues, id : {-1, 0}] ELSE {NoRef}
  /\ gpc' = "start"
  /\ UNCHANGED <<pop, uh, reev, injected, noise, ranks>>

Ask ==
  /\ gpc = "start"
  /\ \E g \in BOOLEAN : (g => gopt.gradient) /\ pop' = Asked(g)
  /\ gpc' = "asked"
  /\ UNCHANGED <<gopt, uh, reev, ref, injected, noise, ranks>>

-----------------------------------------------------------------------------
(* eval().                                                                   *)

\* set_x, set_id, set_fvalue of every column, in any order.
Evaluated(values) == [c \in Columns |-> [pop[c] EXCEPT !.id = c - 1, !.f = values[c]]]

\* The first lambda_reev are evaluated again, next to where they were; the
\* index is that of _candidates.
Reevaluation(values, again, n) ==
  [c \in Columns |-> [f |-> values[c], mut |-> IF c <= n THEN again[c] ELSE values[c],
                      idx |-> c, r1 |-> 0, r2 |-> 0, delta |-> 0]]

FewBelow(values) == Cardinality({c \in Columns : values[c] < ref.f}) < PopSize \div 2

\* perform_uh takes its copies before the elite replaces the second one.
GenerationEval ==
  /\ gpc = "asked"
  /\ \E values \in [Columns -> GenValues] :
       /\ IF gopt.uh
            THEN \E n \in Reevaluated : \E again \in [1 .. n -> GenValues] :
                   uh' = Reevaluation(values, again, n) /\ reev' = n
            ELSE UNCHANGED <<uh, reev>>
       /\ IF gopt.elitist /\ gopt.later /\ FewBelow(values)
            THEN /\ pop' = [Evaluated(values) EXCEPT ![2] =
                              [kind |-> "elite", id |-> ref.id, f |-> ref.f]]
                 /\ injected' = TRUE
            ELSE pop' = Evaluated(values) /\ UNCHANGED injected
  /\ gpc' = "evaluated"
  /\ UNCHANGED <<gopt, ref, noise, ranks>>

-----------------------------------------------------------------------------
(* tell(): ranking.                                                          *)

Orders == {p \in [Columns -> Columns] : \A i, j \in Columns : i # j => p[i] # p[j]}

\* sort_candidates: a stable sort by value.
SortCandidates(s) ==
  LET before(a, b) == s[a].f < s[b].f \/ (s[a].f = s[b].f /\ a < b)
      order == CHOOSE p \in Orders : \A i, j \in Columns : i < j => before(p[i], p[j])
  IN [i \in Columns |-> s[order[i]]]

\* The ranks std::sort may give by a key, ties in any order.
Rankings(key) == {p \in Orders : \A i, j \in Columns : key[i] < key[j] => p[i] < p[j]}

Sgn(n) == IF n > 0 THEN 1 ELSE IF n < 0 THEN -1 ELSE 0
Abs(n) == IF n < 0 THEN -n ELSE n
SumOf(s) == MapThenFoldSet(+, 0, LAMBDA c : s[c], LAMBDA t : CHOOSE c \in t : TRUE, DOMAIN s)

\* Ranks, from 0, and delta for those evaluated twice.
RankedAll(p1, p2) ==
  [c \in Columns |->
     LET d == p2[c] - p1[c] IN
     [uh[c] EXCEPT !.r1 = p1[c] - 1, !.r2 = p2[c] - 1,
                   !.delta = IF c <= reev THEN d - Sgn(d) ELSE 0]]

SumDelta(u) == SumOf([c \in Columns |-> Abs(u[c].delta)])

\* The nth_element of |j - d|, j in 1 .. 2*lambda-1: as many as half of
\* _thetauh, a tenth of them, may be less.
Quantile(d) ==
  LET within(v) == Cardinality({j \in 1 .. 2 * PopSize - 1 : Abs(j - d) < v})
      tenth == (2 * PopSize - 1) \div 10
  IN CHOOSE v \in 0 .. 2 * PopSize : within(v) <= tenth /\ tenth < within(v + 1)

\* _suh times lambda_reev.
Uncertainty(u) ==
  SumOf([c \in 1 .. reev |->
           2 * Abs(u[c].delta)
             - Quantile(u[c].r2 - (IF u[c].r2 > u[c].r1 THEN 1 ELSE 0))
             - Quantile(u[c].r1 - (IF u[c].r1 > u[c].r2 THEN 1 ELSE 0))])

\* |delta|, or the mean of them, times lambda_reev.
DeltaOf(u, c) == IF c <= reev THEN reev * Abs(u[c].delta) ELSE SumDelta(u)

\* Mutant: the candidate ranked lower comes first.
RerankBackwards(u, a, b) == u[a].r1 + u[a].r2 > u[b].r1 + u[b].r2

\* The comparator of the last sort, whose s2 is c2._r2 + c2._r2.
Rerank(u, a, b) ==
  IF u[a].r1 + u[a].r2 = u[b].r2 + u[b].r2
    THEN IF u[a].delta = u[b].delta THEN u[a].f + u[a].mut < u[b].f + u[b].mut
                                    ELSE DeltaOf(u, a) < DeltaOf(u, b)
    ELSE u[a].r1 + u[a].r2 < u[b].r1 + u[b].r2

\* What std::sort needs of a comparator, given as the pairs it calls less.
StrictWeak(less) ==
  \A a, b, c \in Columns :
    /\ <<a, b>> \in less => <<b, a>> \notin less
    /\ (<<a, b>> \in less /\ <<b, c>> \in less) => <<a, c>> \in less
    /\ ({<<a, b>>, <<b, a>>, <<b, c>>, <<c, b>>} \cap less = {})
         => {<<a, c>>, <<c, a>>} \cap less = {}

\* The orders the sort may leave: any, if the comparator is none.
Reranked(u) ==
  LET less == {ab \in Columns \X Columns : Rerank(u, ab[1], ab[2])} IN
  IF StrictWeak(less)
    THEN {p \in Orders : \A i, j \in Columns : i < j => <<p[j], p[i]>> \notin less}
    ELSE Orders

\* uncertainty_handling(): _candidates in the order of _candidates_uh.
UncertaintyHandling ==
  \E p1 \in Rankings([c \in Columns |-> uh[c].f]),
     p2 \in Rankings([c \in Columns |-> uh[c].mut]) :
    /\ uh' = RankedAll(p1, p2)
    /\ \E order \in Reranked(uh') : pop' = [i \in Columns |-> pop[order[i]]]
    /\ noise' = Sgn(Uncertainty(uh'))

\* The first candidate with the id.
RankOf(id, s) ==
  LET at == {i \in Columns : s[i].id = id} IN
  IF at = {} THEN -1 ELSE (CHOOSE i \in at : \A j \in at : i <= j) - 1

\* sort or uncertainty_handling, then tpa_update.
GenerationTell ==
  /\ gpc = "evaluated"
  /\ IF gopt.uh THEN UncertaintyHandling
                ELSE pop' = SortCandidates(pop) /\ UNCHANGED <<uh, noise>>
  /\ ranks' = IF TpaActive THEN <<RankOf(TpaIds[1], pop'), RankOf(TpaIds[2], pop')>>
                           ELSE ranks
  /\ gpc' = "told"
  /\ UNCHANGED <<gopt, reev, ref, injected>>

NextGeneration ==
  /\ gpc = "told"
  /\ gpc' = "idle" /\ gopt' = NoOptions /\ pop' = <<>> /\ uh' = <<>> /\ reev' = 0
  /\ ref' = NoRef /\ injected' = FALSE /\ noise' = 0 /\ ranks' = <<-1, -1>>

GenerationNext ==
  StartGeneration \/ Ask \/ GenerationEval \/ GenerationTell \/ NextGeneration

GenerationSpec == GenerationInit /\ [][GenerationNext]_genVars

-----------------------------------------------------------------------------
(* Properties.                                                               *)

\* The step size of two-point adaptation is driven by the ranks of the two
\* points that were put into the population for it - unless an elite was
\* injected, which takes the place of one of them or may have its id.
TpaRanksOwn ==
  (gpc = "told" /\ TpaActive /\ ~injected) =>
    /\ pop[ranks[1] + 1].kind = "tpa1"
    /\ pop[ranks[2] + 1].kind = "tpa2"

\* When the second evaluations agree with the first and no two values are
\* equal, uncertainty handling sees no noise and ranks by value, in spite of
\* its comparator - unless an elite replaced a candidate after the copies
\* were taken, and is ranked by the value of the one it replaced.
QuietRanking ==
  (gpc = "told" /\ gopt.uh /\ ~injected
     /\ \A c, d \in Columns : uh[c].mut = uh[c].f /\ (c # d => uh[c].f # uh[d].f)) =>
    /\ noise <= 0
    /\ \A i \in 1 .. PopSize - 1 : pop[i].f < pop[i + 1].f
=============================================================================
