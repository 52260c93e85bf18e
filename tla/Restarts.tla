------------------------------- MODULE Restarts -------------------------------
(***************************************************************************)
(* libcmaes/src/ipopcmastrategy.cc and bipopcmastrategy.cc: a search       *)
(* restarted with a doubled population, and with small populations in      *)
(* between, on the budgets the two regimes have spent.                     *)
(*                                                                         *)
(* One run of CMAStrategy::optimize() is one step: how many iterations it  *)
(* takes, the value of the best candidate of its last iteration and its    *)
(* status are its choice, within what CMAStrategy checks of a run without  *)
(* elitism on restart.  Step sizes are left out.                           *)
(***************************************************************************)
EXTENDS Integers, Sequences, FiniteSets

CONSTANTS
  LambdaDef,    (* the population of the first run                          *)
  RunValues,    (* the values a candidate may have                          *)
  MaxFevals,    (* what set_max_fevals may be given, -1 for no budget       *)
  Uninit,       (* what BIPOP's _max_fevals may hold if never assigned      *)
  NRestarts,    (* what set_restarts may be given                           *)
  MAX_RUN,      (* bound: iterations of a run                               *)
  MAX_IDLE      (* bound: small runs in a row without an iteration          *)

ASSUME RestartsAssumption ==
  /\ LambdaDef \in Nat \ {0, 1} /\ RunValues \subseteq Nat
  /\ MaxFevals \cup Uninit \subseteq Int /\ NRestarts \subseteq Nat
  /\ MAX_RUN \in Nat \ {0} /\ MAX_IDLE \in Nat \ {0}

VARIABLES
  rpc,        (* "idle"; "loop": at the for; "small": in BIPOP's while;     *)
              (* "run", "smallrun": in CMAStrategy::optimize(); "return"    *)
  call,       (* the arguments: strategy, x0 is evaluated, budget, restarts *)
  r,          (* the loop's counter                                         *)
  lambda,     (* _parameters._lambda                                        *)
  lambda_l,   (* BIPOP's _lambda_l                                          *)
  max_fevals, (* _parameters._max_fevals                                    *)
  saved,      (* BIPOP's _max_fevals                                        *)
  nevals,     (* _nevals of the strategy, which no restart resets; read and *)
              (* counted under IPOP only                                    *)
  budgets,    (* evaluations of the large runs and of the small ones        *)
  best_run,   (* best_run: the best candidate's value and _run_status       *)
  ran         (* history: the values captured, the first, and the small     *)
              (* runs in a row that had no iteration                        *)

runVars == <<r, lambda, lambda_l, max_fevals, saved, nevals, budgets, best_run, ran>>
restartVars == <<rpc, call, runVars>>

NAN == -1                     \* the value of a candidate nobody evaluated
Empty == [best |-> NAN, status |-> 0, empty |-> TRUE]
NoCall == [strategy |-> "none", x0 |-> FALSE, budget |-> -1, restarts |-> 0]

Idling ==
  /\ r' = 0 /\ lambda' = LambdaDef /\ lambda_l' = LambdaDef
  /\ max_fevals' = -1 /\ saved' = -1 /\ nevals' = 0 /\ budgets' = <<0, 0>>
  /\ best_run' = Empty /\ ran' = [values |-> {}, first |-> NAN, idle |-> 0]

RestartsInit ==
  /\ rpc = "idle" /\ call = NoCall
  /\ r = 0 /\ lambda = LambdaDef /\ lambda_l = LambdaDef
  /\ max_fevals = -1 /\ saved = -1 /\ nevals = 0 /\ budgets = <<0, 0>>
  /\ best_run = Empty /\ ran = [values |-> {}, first |-> NAN, idle |-> 0]

-----------------------------------------------------------------------------
(* CMAStrategy::optimize(), as the restarts see it.                          *)

\* A fresh CMASolutions counts its calls from 0; stop() is not asked before
\* the first iteration, and only a custom progress function ends there.
Runs ==
  {run \in [niter : 0 .. MAX_RUN, best : RunValues \cup {NAN}, status : {-1, 0, 1}] :
     LET x0 == IF call.x0 THEN 1 ELSE 0 IN
     /\ (run.niter > 0 \/ call.x0) = (run.best # NAN)
     /\ run.niter = 0 => run.status = 0
     /\ (run.niter > 1 /\ max_fevals # -1) => x0 + (run.niter - 1) * lambda < max_fevals}

Evals(run) == run.niter * lambda + (IF call.x0 THEN 1 ELSE 0)

Less(a, b) == a # NAN /\ b # NAN /\ a < b

\* Mutant: the last run is always the one kept.
CaptureLast(run) == [best |-> run.best, status |-> run.status, empty |-> FALSE]

\* capture_best_solution(): NaN is less than nothing, and nothing is less.
CaptureBestSolution(run) ==
  IF best_run.empty \/ Less(run.best, best_run.best)
    THEN [best |-> run.best, status |-> run.status, empty |-> FALSE]
    ELSE best_run

\* History of what was captured.
Note(run) ==
  ran' = [values |-> ran.values \cup ({run.best} \ {NAN}),
          first |-> IF best_run.empty THEN run.best ELSE ran.first,
          idle |-> IF rpc = "smallrun" /\ run.niter = 0 THEN ran.idle + 1 ELSE 0]

-----------------------------------------------------------------------------
(* IPOPCMAStrategy.                                                          *)

IpopOptimize ==
  /\ rpc = "idle"
  /\ \E x0 \in BOOLEAN, m \in MaxFevals, n \in NRestarts :
       /\ call' = [strategy |-> "ipop", x0 |-> x0, budget |-> m, restarts |-> n]
       /\ max_fevals' = m
  /\ rpc' = "loop"
  /\ UNCHANGED <<r, lambda, lambda_l, saved, nevals, budgets, best_run, ran>>

\* Mutant: only the calls of the last run count.
RunBudgetGone(n) == max_fevals > 0 /\ n - nevals >= max_fevals

BudgetGone(n) == max_fevals > 0 /\ n >= max_fevals

\* The loop: one run, captured; then lambda_inc(), reset_search_state() and
\* "do not restart if max budget function calls is reached".
IpopRun ==
  /\ rpc = "loop" /\ call.strategy = "ipop" /\ r < call.restarts
  /\ \E run \in Runs :
       /\ best_run' = CaptureBestSolution(run)
       /\ nevals' = nevals + Evals(run)
       /\ Note(run)
  /\ lambda' = 2 * lambda
  /\ IF BudgetGone(nevals')
       THEN rpc' = "return" /\ UNCHANGED r
       ELSE r' = r + 1 /\ UNCHANGED rpc
  /\ UNCHANGED <<call, lambda_l, max_fevals, saved, budgets>>

-----------------------------------------------------------------------------
(* BIPOPCMAStrategy.                                                         *)

\* The constructor that starts from a solution assigns no _max_fevals.
BipopOptimize ==
  /\ rpc = "idle"
  /\ \E x0 \in BOOLEAN, m \in MaxFevals, n \in NRestarts :
       /\ \/ call' = [strategy |-> "bipop", x0 |-> x0, budget |-> m, restarts |-> n]
             /\ saved' = m
          \/ call' = [strategy |-> "bipop_from", x0 |-> x0, budget |-> m, restarts |-> n]
             /\ saved' \in Uninit
       /\ max_fevals' = m
  /\ rpc' = "loop"
  /\ UNCHANGED <<r, lambda, lambda_l, nevals, budgets, best_run, ran>>

Bipop == call.strategy \in {"bipop", "bipop_from"}

\* ceil(_lambda_def * pow(0.5*(_lambda_l/_lambda_def), u)), u in [0,1)
SmallLambdas ==
  IF lambda_l >= 2 * LambdaDef THEN LambdaDef .. lambda_l \div 2
                               ELSE LambdaDef \div 2 + 1 .. LambdaDef

\* set_max_fevals(0.5*budgets[0])
HalfBudget == budgets[1] \div 2

\* while(budgets[0]>budgets[1]): r2() and a fresh search on half the budget.
\* Bound: MAX_IDLE small runs in a row without an iteration.
R2 ==
  /\ rpc = "loop" /\ Bipop /\ r < call.restarts
  /\ budgets[1] > budgets[2] /\ ran.idle < MAX_IDLE
  /\ lambda' \in SmallLambdas
  /\ max_fevals' = HalfBudget
  /\ rpc' = "smallrun"
  /\ UNCHANGED <<call, r, lambda_l, saved, nevals, budgets, best_run, ran>>

\* Mutant: what the small run spent is not counted.
SmallForgotten(run) == budgets

SmallSpent(run) == [budgets EXCEPT ![2] = @ + run.niter * lambda]

SmallRun ==
  /\ rpc = "smallrun"
  /\ \E run \in Runs :
       /\ budgets' = SmallSpent(run)
       /\ best_run' = CaptureBestSolution(run)
       /\ Note(run)
  /\ rpc' = "loop"
  /\ UNCHANGED <<call, r, lambda, lambda_l, max_fevals, saved, nevals>>

DoubledLarge == 2 * lambda_l

\* r1() from the second time on; the budget is set again.
R1 ==
  /\ rpc = "loop" /\ Bipop /\ r < call.restarts
  /\ ~(budgets[1] > budgets[2])
  /\ IF r > 0 THEN lambda' = DoubledLarge /\ lambda_l' = lambda'
              ELSE UNCHANGED <<lambda, lambda_l>>
  /\ max_fevals' = saved
  /\ rpc' = "run"
  /\ UNCHANGED <<call, r, saved, nevals, budgets, best_run, ran>>

LargeRun ==
  /\ rpc = "run"
  /\ \E run \in Runs :
       /\ budgets' = [budgets EXCEPT ![1] = @ + run.niter * lambda]
       /\ best_run' = CaptureBestSolution(run)
       /\ Note(run)
  /\ r' = r + 1
  /\ rpc' = "loop"
  /\ UNCHANGED <<call, lambda, lambda_l, max_fevals, saved, nevals>>

\* _solutions = best_run
LoopEnds ==
  /\ rpc = "loop" /\ r >= call.restarts
  /\ rpc' = "return"
  /\ UNCHANGED <<call, runVars>>

RestartsReturn ==
  /\ rpc = "return"
  /\ rpc' = "idle" /\ call' = NoCall /\ Idling

-----------------------------------------------------------------------------
RestartsStep ==
  \/ IpopRun \/ R2 \/ SmallRun \/ R1 \/ LargeRun \/ LoopEnds \/ RestartsReturn

RestartsNext == IpopOptimize \/ BipopOptimize \/ RestartsStep

\* optimize() is sequential code.
RestartsFairness == WF_restartVars(RestartsStep)

RestartsSpec == RestartsInit /\ [][RestartsNext]_restartVars /\ RestartsFairness

-----------------------------------------------------------------------------
(* Properties.                                                               *)

\* The solution returned is the one of the run that ended best - unless the
\* first run ended before it had a candidate: then that empty one is kept,
\* since nothing compares as less than its NaN.
BestRunKept ==
  (rpc = "return" /\ ~best_run.empty) =>
    IF ran.first = NAN THEN best_run.best = NAN
                       ELSE /\ best_run.best \in ran.values
                            /\ \A v \in ran.values : best_run.best <= v

\* What is spent.  Under IPOP a run may spend the whole budget again, as the
\* fresh solutions count from 0, but no run starts once it is gone: no more
\* than twice the budget and a population.  Under BIPOP the small runs spend at
\* most half as much again as the large ones, and a population.
RestartBudget ==
  /\ (call.strategy = "ipop" /\ call.budget > 0) =>
       nevals <= 2 * call.budget + lambda \div 2
  /\ Bipop => 2 * budgets[2] < 3 * budgets[1] + 2 * lambda_l

\* The restarts end, if every small run has at least one iteration: one
\* without adds nothing to the budget the while loop waits for.
Idle == rpc = "loop" /\ ran.idle = MAX_IDLE
RestartsEnd == (rpc = "loop") ~> (rpc = "idle" \/ Idle)
=============================================================================
