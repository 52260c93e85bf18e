----------------------------- MODULE CMAStrategy -----------------------------
(***************************************************************************)
(* libcmaes/src/cmastrategy.cc: one CMA-ES search, from set_elitism() to   *)
(* the return of optimize(), with the population, the elitist reinjection, *)
(* the history and the stopping criteria it goes through.                  *)
(*                                                                         *)
(* A candidate is its function value: which point has it matters only to   *)
(* the distribution update, which is abstracted to "the next population    *)
(* may have any values".  The function is deterministic, and no scaling    *)
(* strategy is set, so the best seen point keeps its value when a restart  *)
(* evaluates it as x0.  The criteria that look at the distribution or at   *)
(* medians may hold whenever their guards allow.                           *)
(***************************************************************************)
EXTENDS Integers, Sequences, FiniteSets

CONSTANTS
  Lambda,      (* candidates per iteration                                  *)
  DIM,         (* parameters searched: 2 in do_2dcmaes                      *)
  VALUES,      (* the values the function may have                          *)
  MAX_FEVALS,  (* set_max_fevals: the budget of function calls              *)
  MAX_ITER,    (* set_max_iter, or -1                                       *)
  AUTO_ITER,   (* the threshold of autoMaxIter                              *)
  FTARGETS,    (* the targets set_ftarget may give, -1 for infinity         *)
  MAX_HIST,    (* _max_hist                                                 *)
  STAGNATION_LEN, (* medians needed by stagnation: 20                       *)
  UNINIT       (* what _best_seen_iter may hold, which no one initializes   *)

ASSUME CMAAssumption ==
  /\ Lambda \in Nat \ {0, 1} /\ DIM \in Nat \ {0}
  /\ VALUES \subseteq Nat
  /\ MAX_FEVALS \in Nat \ {0}
  /\ MAX_ITER \in Nat \cup {-1} /\ AUTO_ITER \in Nat
  /\ FTARGETS \subseteq Nat \cup {-1}
  /\ MAX_HIST \in Nat \ {0} /\ STAGNATION_LEN \in Nat
  /\ UNINIT \subseteq Int

VARIABLES
  pc,              (* "configure"; "test": at while(!stop()); "iterate";    *)
                   (* "end": after the loop; "done"                         *)
  asked,           (* the last argument of set_elitism                      *)
  flags,           (* _parameters' flags, and _initial_elitist of ESOStrategy *)
  ftarget,         (* _parameters._ftarget                                  *)
  nevals,          (* _nevals and _solutions._nevals                        *)
  niter,           (* _niter and _solutions._niter                          *)
  initial,         (* _solutions._initial_candidate                         *)
  hist,            (* _solutions._best_candidates_hist                      *)
  best_seen,       (* _solutions._best_seen_candidate                       *)
  best_seen_iter,  (* _solutions._best_seen_iter                            *)
  run_status,      (* _solutions._run_status                                *)
  calls,           (* history: function calls made                          *)
  low,             (* history: the least value evaluated                    *)
  lost,            (* history: a reinjection dropped a new least value      *)
  wild             (* history: a restart was decided by an uninitialized    *)
                   (* _best_seen_iter                                       *)

config == <<asked, flags, ftarget>>
ghosts == <<low, lost>>
vars == <<pc, config, nevals, niter, initial, hist, best_seen, best_seen_iter,
          run_status, calls, ghosts, wild>>

NONE == -1   \* a Candidate with no point; its value is NaN

\* operator< on values, false if one is NaN.
Less(a, b) == a # NONE /\ b # NONE /\ a < b

\* Bound: calls are counted as far as the properties need.
CAP == MAX_FEVALS + 2 * Lambda + 1
Plus(n, k) == IF n + k < CAP THEN n + k ELSE CAP

Init ==
  /\ pc = "configure"
  /\ asked = 0
  /\ flags = [elitist |-> FALSE, initial |-> FALSE, on_restart |-> FALSE,
              fvalue |-> FALSE, restarted |-> FALSE]
  /\ ftarget \in FTARGETS
  /\ nevals = 0 /\ niter = 0
  /\ initial = NONE /\ hist = <<>>
  /\ best_seen = NONE /\ best_seen_iter \in UNINIT
  /\ run_status = 0
  /\ calls = 0 /\ low = NONE /\ lost = FALSE /\ wild = FALSE

-----------------------------------------------------------------------------
(* CMAParameters.                                                            *)

\* 0 copies the restart flag into the two others instead of clearing it.
SetElitism(e) ==
  /\ pc = "configure"
  /\ asked' = e
  /\ flags' = IF e = 0
                THEN [flags EXCEPT !.elitist = flags.on_restart,
                                   !.initial = flags.on_restart]
                ELSE [flags EXCEPT !.elitist = (e = 1), !.initial = (e = 2),
                                   !.on_restart = (e = 3)]
  /\ UNCHANGED <<pc, ftarget, nevals, niter, initial, hist, best_seen,
                 best_seen_iter, run_status, calls, ghosts, wild>>

SetInitialFvalue(b) ==
  /\ pc = "configure"
  /\ flags' = [flags EXCEPT !.fvalue = b]
  /\ UNCHANGED <<pc, asked, ftarget, nevals, niter, initial, hist, best_seen,
                 best_seen_iter, run_status, calls, ghosts, wild>>

-----------------------------------------------------------------------------
(* optimize().                                                               *)

\* The first lines: x0 is evaluated if any elitism needs it.
EvaluateX0(f, value) ==
  IF f.restarted \/ f.initial \/ f.elitist \/ f.fvalue
    THEN /\ initial' = value /\ best_seen' = value
         /\ nevals' = Plus(nevals, 1) /\ calls' = Plus(calls, 1)
    ELSE /\ initial' = NONE /\ best_seen' = NONE
         /\ UNCHANGED <<nevals, calls>>

Optimize ==
  /\ pc = "configure"
  /\ \E x0 \in VALUES :
       EvaluateX0(flags, x0) /\ low' = initial'
  /\ pc' = "test"
  /\ UNCHANGED <<config, niter, hist, best_seen_iter, run_status, lost, wild>>

\* CMASolutions::best_candidate()
BestCandidate == IF hist = <<>> THEN initial ELSE hist[Len(hist)]

\* The criteria that certainly hold, and those that depend on what is not
\* modelled, with their CMAStopCritType codes.
TolHistFun ==
  /\ Len(hist) = MAX_HIST
  /\ \A j, k \in 1 .. MAX_HIST : hist[j] = hist[k]

Certain ==
  {c \in {1, 7, 8, 9, 10} :
     CASE c = 1  -> TolHistFun
       [] c = 7  -> niter >= AUTO_ITER
       [] c = 8  -> nevals >= MAX_FEVALS
       [] c = 9  -> MAX_ITER # -1 /\ niter >= MAX_ITER
       [] c = 10 -> ftarget # -1 /\ BestCandidate <= ftarget}

Possible ==
  {-15, -13, 2, 3, 4}
    \cup (IF DIM >= MAX_HIST /\ Len(hist) = MAX_HIST THEN {5} ELSE {})
    \cup (IF niter >= STAGNATION_LEN THEN {6} ELSE {})

\* CMAStopCriteria::stop: the criteria are tried in the order of their codes
\* and the first that holds is returned, 0 (CONT) if none does.
Verdicts ==
  {c \in Certain \cup Possible : \A s \in Certain : c <= s}
    \cup (IF Certain = {} THEN {0} ELSE {})

\* stop(): no criterion is looked at before the first iteration, and a custom
\* progress function may end the search at any test.
Stop ==
  /\ pc = "test"
  /\ \/ run_status' = run_status /\ pc' = "end"
     \/ niter = 0 /\ run_status' = run_status /\ pc' = "iterate"
     \/ niter > 0 /\ run_status' \in Verdicts
          /\ pc' = IF run_status' = 0 THEN "iterate" ELSE "end"
  /\ UNCHANGED <<config, nevals, niter, initial, hist, best_seen,
                 best_seen_iter, calls, ghosts, wild>>

Least(s) == CHOOSE v \in s : \A w \in s : v <= w

\* The candidate an active elitism reinjects, as eval() picks it.
Reference ==
  IF flags.on_restart \/ flags.initial THEN initial ELSE best_seen

Reinjecting ==
  /\ niter > 0
  /\ \/ flags.elitist \/ flags.initial
     \/ flags.restarted /\ flags.on_restart

Better(pop) == {r \in 1 .. Lambda : Less(pop[r], Reference)}

\* Mutant: the comparison the wrong way round.
MostBetter(pop) == Cardinality(Better(pop)) > Lambda \div 2

\* count < candidates.cols()/2
FewBetter(pop) == Cardinality(Better(pop)) < Lambda \div 2

\* eval()'s last step: the second candidate gives way to the reference.
Reinjected(pop) ==
  IF Reinjecting /\ FewBetter(pop) THEN [pop EXCEPT ![2] = Reference] ELSE pop

\* Mutant: the history keeps one entry too many.
LongWindow(h) == IF Len(h) > MAX_HIST + 1 THEN Tail(h) ELSE h

\* The history keeps the last MAX_HIST entries.
Window(h) == IF Len(h) > MAX_HIST THEN Tail(h) ELSE h

\* Mutant: the first candidate is compared with the NaN of an empty one.
UpdateBestIfLess(v) ==
  /\ hist' = Window(Append(hist, v))
  /\ IF Less(v, best_seen)
       THEN best_seen' = v /\ best_seen_iter' = niter
       ELSE UNCHANGED <<best_seen, best_seen_iter>>

\* update_best_candidates(), v being the first candidate after the sort.
\* (The worst seen candidate, medians and k-th best are left out.)
UpdateBest(v) ==
  /\ hist' = Window(Append(hist, v))
  /\ IF (niter = 0 /\ best_seen = NONE) \/ Less(v, best_seen)
       THEN best_seen' = v /\ best_seen_iter' = niter
       ELSE UNCHANGED <<best_seen, best_seen_iter>>

\* Mutant: inc_iter is forgotten.
NoIncIter == UNCHANGED niter

IncIter == niter' = niter + 1

\* One round of the loop: ask, eval, tell, inc_iter.
Iterate ==
  /\ pc = "iterate"
  /\ \E pop \in [1 .. Lambda -> VALUES] :
       LET kept == Reinjected(pop)
           all  == {pop[r] : r \in 1 .. Lambda} IN
         /\ UpdateBest(Least({kept[r] : r \in 1 .. Lambda}))
         /\ low' = Least(all \cup ({low} \ {NONE}))
         /\ lost' = (lost \/ (low' # low /\ \A r \in 1 .. Lambda : kept[r] # low'))
  /\ nevals' = Plus(nevals, Lambda) /\ calls' = Plus(calls, Lambda)
  /\ IncIter
  /\ pc' = "test"
  /\ UNCHANGED <<config, initial, run_status, wild>>

\* "test on final value wrt. to best candidate value and number of
\* iterations in between".
WantsRestart ==
  /\ flags.on_restart
  /\ Less(best_seen, BestCandidate)
  /\ niter - best_seen_iter >= 3

\* Mutant: the search goes on from the last point.
RestartFromLast == BestCandidate

\* set_x0 of the point to go on from.
RestartPoint == best_seen

\* Mutant: they do not.
ForgottenEvals == 0

\* The fresh CMASolutions of a restart keep the calls counted so far.
KeptEvals == nevals

\* Elitist on restart: reinit the solution and optimize() again, which
\* evaluates the new x0.
Restart ==
  /\ pc = "end" /\ WantsRestart
  /\ flags' = [flags EXCEPT !.restarted = TRUE]
  /\ initial' = RestartPoint /\ best_seen' = RestartPoint
  /\ nevals' = Plus(KeptEvals, 1) /\ calls' = Plus(calls, 1)
  /\ niter' = 0 /\ hist' = <<>> /\ run_status' = 0
  /\ best_seen_iter' \in UNINIT
  /\ wild' = (wild \/ best_seen = initial)
  /\ pc' = "test"
  /\ UNCHANGED <<asked, ftarget, ghosts>>

Return ==
  /\ pc = "end" /\ ~WantsRestart
  /\ pc' = "done"
  /\ UNCHANGED <<config, nevals, niter, initial, hist, best_seen,
                 best_seen_iter, run_status, calls, ghosts, wild>>

Next ==
  \/ \E e \in 0 .. 3 : SetElitism(e)
  \/ \E b \in BOOLEAN : SetInitialFvalue(b)
  \/ Optimize \/ Stop \/ Iterate \/ Restart \/ Return

\* optimize() is one sequential call.
Fairness == WF_vars(Stop \/ Iterate \/ Restart \/ Return)

Spec == Init /\ [][Next]_vars /\ Fairness
-----------------------------------------------------------------------------
(* Properties.                                                               *)

Searching == pc \in {"test", "iterate", "end", "done"}

TypeOK ==
  /\ pc \in {"configure", "test", "iterate", "end", "done"}
  /\ asked \in 0 .. 3
  /\ flags \in [elitist : BOOLEAN, initial : BOOLEAN, on_restart : BOOLEAN,
                fvalue : BOOLEAN, restarted : BOOLEAN]
  /\ ftarget \in FTARGETS
  /\ nevals \in 0 .. CAP /\ calls \in 0 .. CAP
  /\ niter \in Nat
  /\ initial \in VALUES \cup {NONE} /\ best_seen \in VALUES \cup {NONE}
  /\ hist \in Seq(VALUES) /\ Len(hist) <= MAX_HIST
  /\ best_seen_iter \in Nat \cup UNINIT
  /\ run_status \in {-15, -13} \cup 0 .. 10
  /\ low \in VALUES \cup {NONE}
  /\ lost \in BOOLEAN /\ wild \in BOOLEAN

\* The best seen candidate is the best of everything evaluated, across
\* iterations and restarts, until a reinjection overwrites a new best.
NoneLost == (Searching /\ ~lost) => best_seen = low

\* The best seen candidate is never replaced by a worse one, not even when a
\* restart throws the solution object away.
NeverWorse ==
  [][(Searching /\ best_seen # NONE) => best_seen' \in 0 .. best_seen]_vars

\* Elitism does what it is for: from the second iteration on, the population
\* told to the update is no worse than what elitism reinjects - the best
\* seen candidate, or x0.
ReferenceKept ==
  (Searching /\ niter >= 2) =>
    /\ (flags.elitist /\ ~flags.initial) => BestCandidate = best_seen
    /\ (flags.initial \/ flags.restarted) => BestCandidate <= initial

\* The calls made exceed the budget by less than a population, or by two and
\* the x0 of a last restart: no chain of restarts goes on spending.
Budget ==
  ~wild => calls <= MAX_FEVALS + (IF flags.on_restart THEN 2 ELSE 1) * Lambda

\* optimize() returns.
Terminates == (pc = "test") ~> (pc = "done" \/ wild)

\* cmasolutions.h:528 "best seen candidate along the run": it is the best of
\* the values the run evaluated.
BestSeenAlongRun == Searching => best_seen = low

\* cmastrategy.cc:366 "test on final value wrt. to best candidate value and
\* number of iterations in between": a run is restarted only when three
\* iterations have passed in it.
RestartAfterThree == [][Restart => niter >= 3]_vars
=============================================================================
