---------------------------- MODULE Optimizer_proofs ----------------------------
(***************************************************************************)
(* Theorems about Restarts, FrontEnd and GenoPheno, and about Optimizer,   *)
(* which puts them next to the parts of Contour_proofs, Generation_proofs  *)
(* and Surrogate_proofs: for every population, budget, number of restarts, *)
(* box and set of values, each part keeps its word whichever of them a     *)
(* program uses.                                                           *)
(*                                                                         *)
(* Restarts: what is spent is bounded because a run is started only within *)
(* its budget (Granted) and overshoots what it is given by less than its   *)
(* population (RunCost), whatever BIPOP's _max_fevals holds.  BestRunKept  *)
(* is about the return; Captured says it of every moment before.           *)
(*                                                                         *)
(* FrontEnd: Good relates the derived quantities of a parameters object to *)
(* its flags: c1 was scaled once for each flag that is set.  Every setter  *)
(* keeps it, or is noted in `asked`.  Made says what the constructors add  *)
(* to it: the flags of the algorithm are set, and the solutions hold what  *)
(* they are made for.                                                      *)
(*                                                                         *)
(* GenoPheno: Fits says of a converter that its scaling takes the bounds   *)
(* of its strategy to the box the user gave.  Whatever object is built and *)
(* whichever dimensions are removed from it, every converter fits; the     *)
(* rest is arithmetic: pwq folds every number into the bounds, and its     *)
(* inverse takes a value back to a number that is folded to it.            *)
(***************************************************************************)
EXTENDS Optimizer, Contour_proofs, Generation_proofs, Surrogate_proofs

-----------------------------------------------------------------------------
(* The restarts.                                                             *)

Strategies == {"none", "ipop", "bipop", "bipop_from"}

RestartsTyped ==
  /\ rpc \in {"idle", "loop", "small", "run", "smallrun", "return"}
  /\ call \in [strategy : Strategies, x0 : BOOLEAN, budget : Int, restarts : Int]
  /\ lambda \in Nat \ {0} /\ lambda_l \in Nat \ {0} /\ LambdaDef <= lambda_l
  /\ max_fevals \in Int /\ saved \in Int /\ nevals \in Nat /\ budgets \in Nat \X Nat

\* A run is started within what its strategy grants it.
Granted ==
  /\ rpc = "idle" => nevals = 0 /\ budgets[1] = 0 /\ budgets[2] = 0
  /\ call.strategy = "ipop" => /\ rpc \in {"loop", "return"}
                               /\ max_fevals = call.budget
                               /\ (rpc = "loop" /\ call.budget > 0) => nevals < call.budget
  /\ rpc = "smallrun" => /\ Bipop /\ lambda <= lambda_l
                         /\ budgets[2] < budgets[1] /\ max_fevals = HalfBudget

\* What has been captured so far, empty or the best of the values.
Captured ==
  /\ ran.values \subseteq RunValues
  /\ best_run \in [best : RunValues \cup {NAN}, status : Int, empty : BOOLEAN]
  /\ best_run.empty => ran.values = {}
  /\ ~best_run.empty =>
       IF ran.first = NAN THEN best_run.best = NAN
                          ELSE /\ best_run.best \in ran.values
                               /\ \A v \in ran.values : best_run.best <= v

SpentInv == RestartsTyped /\ Granted /\ RestartBudget

-----------------------------------------------------------------------------
(* A run.                                                                    *)

LEMMA TimesOne ==
  ASSUME NEW n \in Nat, NEW l \in Nat
  PROVE  /\ n * l \in Nat /\ (n - 1) * l = n * l - l
         /\ n = 0 => n * l = 0
         /\ n = 1 => n * l = l
OBVIOUS

\* A run costs less than the budget it was given and its population.
LEMMA RunCost ==
  ASSUME RestartsTyped, NEW run \in Runs, NEW b \in Nat, max_fevals = b
  PROVE  /\ run.niter * lambda \in Nat
         /\ run.niter * lambda < b + lambda \/ run.niter * lambda <= lambda
         /\ Evals(run) \in Nat
         /\ b > 0 => Evals(run) <= b + lambda
<1> DEFINE p == run.niter * lambda
           x0 == IF call.x0 THEN 1 ELSE 0
<1>1. run.niter \in Nat /\ lambda \in Nat \ {0}
  BY RestartsAssumption DEF Runs, RestartsTyped
<1>2. x0 \in {0, 1}
  OBVIOUS
<1>3. run.niter > 1 => x0 + (run.niter - 1) * lambda < b
  BY DEF Runs
<1>4. /\ p \in Nat /\ (run.niter - 1) * lambda = p - lambda
      /\ run.niter = 0 => p = 0
      /\ run.niter = 1 => p = lambda
  BY <1>1, TimesOne
<1>5. Evals(run) = p + x0
  BY DEF Evals
<1> HIDE DEF p, x0
<1>6. CASE run.niter > 1
  BY <1>1, <1>2, <1>3, <1>4, <1>5, <1>6 DEF p
<1>7. CASE run.niter <= 1
  <2>1. p <= lambda
    BY <1>1, <1>4, <1>7
  <2> QED
    BY <1>1, <1>2, <1>4, <1>5, <2>1 DEF p
<1> QED
  BY <1>1, <1>6, <1>7

-----------------------------------------------------------------------------
(* What is spent.                                                            *)

LEMMA IpopSpends == ASSUME SpentInv, IpopRun PROVE SpentInv'
<1>1. PICK run \in Runs : nevals' = nevals + Evals(run)
  BY DEF IpopRun
<1>2. /\ rpc = "loop" /\ call.strategy = "ipop" /\ max_fevals = call.budget
      /\ lambda' = 2 * lambda /\ UNCHANGED <<call, lambda_l, max_fevals, saved, budgets>>
      /\ \/ rpc' = "return"
         \/ ~BudgetGone(nevals') /\ rpc' = "loop"
  BY DEF IpopRun, SpentInv, Granted
<1>3. lambda \in Nat \ {0} /\ nevals \in Nat /\ call.budget \in Int
  BY DEF SpentInv, RestartsTyped
<1>4. /\ Evals(run) \in Nat
      /\ call.budget > 0 => Evals(run) <= call.budget + lambda
  <2>1. CASE call.budget > 0
    BY <1>2, <1>3, <2>1, RunCost DEF SpentInv
  <2>2. CASE ~(call.budget > 0)
    <3>1. run.niter \in Nat
      BY RestartsAssumption DEF Runs
    <3> QED
      BY <1>3, <2>2, <3>1, TimesOne DEF Evals
  <2> QED
    BY <2>1, <2>2
<1>5. RestartsTyped'
  <2>1. nevals' \in Nat /\ lambda' \in Nat \ {0} /\ rpc' \in {"loop", "return"}
    BY <1>1, <1>2, <1>3, <1>4
  <2> QED
    BY <1>2, <2>1 DEF SpentInv, RestartsTyped
<1>6. Granted'
  <2>1. (rpc' = "loop" /\ call.budget > 0) => nevals' < call.budget
    BY <1>1, <1>2, <1>3, <1>4 DEF BudgetGone
  <2> QED
    BY <1>2, <2>1 DEF Granted, Bipop
<1>7. RestartBudget'
  <2>1. call.budget > 0 => nevals' <= 2 * call.budget + lambda
    <3>1. call.budget > 0 => nevals < call.budget
      BY <1>2 DEF SpentInv, Granted
    <3> QED
      BY <1>1, <1>3, <1>4, <3>1
  <2>2. lambda' \div 2 = lambda
    BY <1>2, <1>3
  <2> QED
    BY <1>2, <2>1, <2>2 DEF RestartBudget, Bipop
<1> QED
  BY <1>5, <1>6, <1>7 DEF SpentInv

LEMMA SmallRunSpends == ASSUME SpentInv, SmallRun PROVE SpentInv'
<1>1. PICK run \in Runs : budgets' = SmallSpent(run)
  BY DEF SmallRun
<1>2. /\ Bipop /\ rpc = "smallrun" /\ rpc' = "loop"
      /\ lambda <= lambda_l /\ budgets[2] < budgets[1] /\ max_fevals = HalfBudget
      /\ UNCHANGED <<call, lambda, lambda_l, max_fevals, saved, nevals>>
  BY DEF SmallRun, SpentInv, Granted
<1>3. /\ lambda \in Nat /\ lambda_l \in Nat /\ budgets \in Nat \X Nat
      /\ budgets[1] \in Nat /\ budgets[2] \in Nat
  BY DEF SpentInv, RestartsTyped
<1>4. HalfBudget \in Nat /\ 2 * HalfBudget <= budgets[1]
  BY <1>3 DEF HalfBudget
<1> DEFINE p == run.niter * lambda
<1>5. p \in Nat /\ (p < HalfBudget + lambda \/ p <= lambda)
  BY <1>2, <1>4, RunCost DEF SpentInv
<1>6. budgets' = [budgets EXCEPT ![2] = @ + p]
  BY <1>1 DEF SmallSpent
<1> HIDE DEF p
<1>7. /\ budgets' \in Nat \X Nat
      /\ budgets'[1] = budgets[1] /\ budgets'[2] = budgets[2] + p
  BY <1>3, <1>5, <1>6
<1>8. 2 * budgets'[2] < 3 * budgets'[1] + 2 * lambda_l
  BY <1>2, <1>3, <1>4, <1>5, <1>7
<1>9. call.strategy # "ipop"
  BY <1>2 DEF Bipop
<1> QED
  BY <1>2, <1>7, <1>8, <1>9 DEF SpentInv, RestartsTyped, Granted, RestartBudget

LEMMA LargeRunSpends == ASSUME SpentInv, LargeRun PROVE SpentInv'
<1>1. PICK run \in Runs : budgets' = [budgets EXCEPT ![1] = @ + run.niter * lambda]
  BY DEF LargeRun
<1>2. /\ rpc = "run" /\ rpc' = "loop"
      /\ UNCHANGED <<call, lambda, lambda_l, max_fevals, saved, nevals>>
  BY DEF LargeRun
<1>3. /\ lambda \in Nat /\ lambda_l \in Nat /\ budgets \in Nat \X Nat
      /\ budgets[1] \in Nat /\ budgets[2] \in Nat
  BY DEF SpentInv, RestartsTyped
<1> DEFINE p == run.niter * lambda
<1>4. p \in Nat
  <2>1. run.niter \in Nat
    BY RestartsAssumption DEF Runs
  <2> QED
    BY <1>3, <2>1, TimesOne
<1> HIDE DEF p
<1>5. /\ budgets' \in Nat \X Nat
      /\ budgets'[1] = budgets[1] + p /\ budgets'[2] = budgets[2]
  BY <1>1, <1>3, <1>4 DEF p
<1>6. call.strategy # "ipop"
  BY <1>2 DEF SpentInv, Granted
<1>7. Bipop => 2 * budgets'[2] < 3 * budgets'[1] + 2 * lambda_l
  BY <1>3, <1>4, <1>5 DEF SpentInv, RestartBudget
<1> QED
  BY <1>2, <1>5, <1>6, <1>7
     DEF SpentInv, RestartsTyped, Granted, RestartBudget, Bipop

\* The small populations stay below the large one.
LEMMA SmallLambdasBelow ==
  ASSUME RestartsTyped
  PROVE  \A l \in SmallLambdas : l \in Nat \ {0} /\ l <= lambda_l
BY RestartsAssumption DEF SmallLambdas, RestartsTyped

LEMMA R2Spends == ASSUME SpentInv, R2 PROVE SpentInv'
<1>1. /\ Bipop /\ rpc' = "smallrun" /\ budgets[1] > budgets[2]
      /\ lambda' \in SmallLambdas /\ max_fevals' = HalfBudget
      /\ UNCHANGED <<call, lambda_l, saved, nevals, budgets>>
  BY DEF R2
<1>2. lambda' \in Nat \ {0} /\ lambda' <= lambda_l
  BY <1>1, SmallLambdasBelow DEF SpentInv
<1>3. budgets[1] \in Nat /\ budgets[2] \in Nat /\ HalfBudget \in Int
  BY DEF SpentInv, RestartsTyped, HalfBudget
<1>4. call.strategy # "ipop"
  BY <1>1 DEF Bipop
<1> QED
  BY <1>1, <1>2, <1>3, <1>4
     DEF SpentInv, RestartsTyped, Granted, RestartBudget, Bipop, HalfBudget

LEMMA R1Spends == ASSUME SpentInv, R1 PROVE SpentInv'
<1>1. /\ Bipop /\ rpc' = "run" /\ max_fevals' = saved
      /\ UNCHANGED <<call, saved, nevals, budgets>>
      /\ \/ lambda' = 2 * lambda_l /\ lambda_l' = lambda'
         \/ UNCHANGED <<lambda, lambda_l>>
  BY DEF R1, DoubledLarge
<1>2. /\ lambda' \in Nat \ {0} /\ lambda_l' \in Nat \ {0}
      /\ lambda_l \in Nat /\ lambda_l <= lambda_l' /\ LambdaDef <= lambda_l'
  BY <1>1, RestartsAssumption DEF SpentInv, RestartsTyped
<1>3. budgets[1] \in Nat /\ budgets[2] \in Nat /\ saved \in Int
  BY DEF SpentInv, RestartsTyped
<1>4. call.strategy # "ipop"
  BY <1>1 DEF Bipop
<1>5. 2 * budgets[2] < 3 * budgets[1] + 2 * lambda_l'
  BY <1>1, <1>2, <1>3 DEF SpentInv, RestartBudget
<1> QED
  BY <1>1, <1>2, <1>3, <1>4, <1>5
     DEF SpentInv, RestartsTyped, Granted, RestartBudget, Bipop

LEMMA CallsStart ==
  ASSUME SpentInv, IpopOptimize \/ BipopOptimize
  PROVE  SpentInv'
<1>1. /\ rpc = "idle" /\ rpc' = "loop" /\ saved' \in Int /\ max_fevals' \in Int
      /\ UNCHANGED <<lambda, lambda_l, nevals, budgets>>
  BY RestartsAssumption DEF IpopOptimize, BipopOptimize, SpentInv, RestartsTyped
<1>2. /\ call' \in [strategy : Strategies, x0 : BOOLEAN, budget : Int, restarts : Int]
      /\ max_fevals' = call'.budget
  BY RestartsAssumption DEF IpopOptimize, BipopOptimize, Strategies
<1>3. /\ nevals = 0 /\ budgets[1] = 0 /\ budgets[2] = 0
      /\ lambda \in Nat \ {0} /\ lambda_l \in Nat \ {0}
  BY <1>1 DEF SpentInv, RestartsTyped, Granted
<1>4. RestartsTyped'
  BY <1>1, <1>2 DEF SpentInv, RestartsTyped
<1>5. Granted'
  BY <1>1, <1>2, <1>3 DEF Granted
<1>6. RestartBudget'
  <2>1. call'.budget > 0 => nevals <= 2 * call'.budget + lambda \div 2
    BY <1>2, <1>3
  <2>2. 2 * budgets[2] < 3 * budgets[1] + 2 * lambda_l
    BY <1>3
  <2> QED
    BY <1>1, <2>1, <2>2 DEF RestartBudget
<1> QED
  BY <1>4, <1>5, <1>6 DEF SpentInv

LEMMA AtRest ==
  ASSUME rpc = "idle", call = NoCall, lambda = LambdaDef, lambda_l = LambdaDef,
         max_fevals = -1, saved = -1, nevals = 0, budgets = <<0, 0>>
  PROVE  SpentInv
BY RestartsAssumption
   DEF SpentInv, RestartsTyped, Granted, RestartBudget, Bipop, NoCall, Strategies

LEMMA RestingPrimed ==
  ASSUME rpc' = "idle", call' = NoCall, lambda' = LambdaDef, lambda_l' = LambdaDef,
         max_fevals' = -1, saved' = -1, nevals' = 0, budgets' = <<0, 0>>
  PROVE  SpentInv'
BY RestartsAssumption
   DEF SpentInv, RestartsTyped, Granted, RestartBudget, Bipop, NoCall, Strategies

LEMMA NextSpent == ASSUME SpentInv, [RestartsNext]_restartVars PROVE SpentInv'
<1>1. CASE IpopOptimize \/ BipopOptimize
  BY <1>1, CallsStart
<1>2. CASE IpopRun
  BY <1>2, IpopSpends
<1>3. CASE R2
  BY <1>3, R2Spends
<1>4. CASE SmallRun
  BY <1>4, SmallRunSpends
<1>5. CASE R1
  BY <1>5, R1Spends
<1>6. CASE LargeRun
  BY <1>6, LargeRunSpends
<1>7. CASE LoopEnds
  <2>1. /\ rpc' = "return"
        /\ UNCHANGED <<call, lambda, lambda_l, max_fevals, saved, nevals, budgets>>
    BY <1>7 DEF LoopEnds, runVars
  <2> QED
    BY <2>1 DEF SpentInv, RestartsTyped, Granted, RestartBudget, Bipop
<1>8. CASE RestartsReturn
  BY <1>8, RestingPrimed DEF RestartsReturn, Idling
<1>9. CASE UNCHANGED restartVars
  <2>1. UNCHANGED <<rpc, call, lambda, lambda_l, max_fevals, saved, nevals, budgets>>
    BY <1>9 DEF restartVars, runVars
  <2> QED
    BY <2>1 DEF SpentInv, RestartsTyped, Granted, RestartBudget, Bipop, HalfBudget
<1> QED
  BY <1>1, <1>2, <1>3, <1>4, <1>5, <1>6, <1>7, <1>8, <1>9 DEF RestartsNext, RestartsStep

\* Restarts stay within what their strategy may spend: IPOP twice its budget and
\* a population, BIPOP's small runs half as much again as the large ones and a
\* population.
THEOREM RestartsKeepBudget == RestartsSpec => []RestartBudget
<1>1. RestartsInit => SpentInv
  BY AtRest DEF RestartsInit
<1>2. SpentInv => RestartBudget
  BY DEF SpentInv
<1> QED
  BY <1>1, <1>2, NextSpent, PTL DEF RestartsSpec

-----------------------------------------------------------------------------
(* What is kept.                                                             *)

\* Capturing a run keeps the best of the values.
LEMMA CaptureKeeps ==
  ASSUME Captured, NEW run \in Runs,
         best_run' = CaptureBestSolution(run), Note(run)
  PROVE  Captured'
<1>1. run.best \in RunValues \cup {NAN} /\ RunValues \subseteq Nat /\ NAN \notin Nat
  BY RestartsAssumption DEF Runs, NAN
<1>2. /\ ran'.values = ran.values \cup ({run.best} \ {NAN})
      /\ ran'.first = IF best_run.empty THEN run.best ELSE ran.first
  BY DEF Note
<1>3. /\ best_run \in [best : RunValues \cup {NAN}, status : Int, empty : BOOLEAN]
      /\ best_run'.best = best_run.best \/ best_run'.best = run.best
      /\ best_run' \in [best : RunValues \cup {NAN}, status : Int, empty : BOOLEAN]
  <2>1. run.best \in RunValues \cup {NAN} /\ run.status \in Int
    BY DEF Runs
  <2> QED
    BY <2>1, Zenon DEF Captured, CaptureBestSolution
<1>4. ran'.values \subseteq RunValues /\ ran.values \subseteq RunValues
  BY <1>1, <1>2 DEF Captured
<1>5. SUFFICES ASSUME ~best_run'.empty
               PROVE  IF ran'.first = NAN
                        THEN best_run'.best = NAN
                        ELSE /\ best_run'.best \in ran'.values
                             /\ \A v \in ran'.values : best_run'.best <= v
  <2>1. ~best_run'.empty
    BY DEF CaptureBestSolution
  <2> QED
    BY <1>3, <1>4, <2>1, Zenon DEF Captured
<1>6. CASE best_run.empty
  <2>1. best_run'.best = run.best
    BY <1>6 DEF CaptureBestSolution
  <2>2. ran'.values = {run.best} \ {NAN} /\ ran'.first = run.best
    BY <1>2, <1>6 DEF Captured
  <2>3. ASSUME run.best # NAN PROVE run.best <= run.best
    <3>1. run.best \in Nat
      BY <1>1, <2>3, Zenon
    <3> QED
      BY <3>1
  <2>4. \A v \in ran'.values : v = run.best /\ v # NAN
    BY <2>2, Zenon
  <2>5. run.best # NAN => run.best \in ran'.values
    BY <2>2, Zenon
  <2> QED
    BY <2>1, <2>2, <2>3, <2>4, <2>5, Zenon
<1>7. CASE ~best_run.empty /\ ran.first = NAN
  <2>1. best_run.best = NAN
    BY <1>7 DEF Captured
  <2>2. best_run' = best_run /\ ran'.first = NAN
    BY <1>2, <1>7, <2>1 DEF CaptureBestSolution, Less
  <2> QED
    BY <2>1, <2>2
<1>8. CASE ~best_run.empty /\ ran.first # NAN
  <2>1. /\ best_run.best \in ran.values /\ \A v \in ran.values : best_run.best <= v
        /\ ran'.first # NAN
    BY <1>2, <1>8 DEF Captured
  <2>2. best_run.best \in Nat /\ best_run.best # NAN
    BY <1>1, <1>4, <2>1
  <2>3. CASE Less(run.best, best_run.best)
    <3>1. best_run'.best = run.best
      BY <2>3 DEF CaptureBestSolution
    <3>2. run.best \in Nat /\ run.best < best_run.best /\ run.best \in ran'.values
      BY <1>1, <1>2, <2>3 DEF Less
    <3>3. ASSUME NEW v \in ran'.values PROVE run.best <= v
      <4>1. (v \in ran.values \/ v = run.best) /\ v \in RunValues
        BY <1>2, <1>4, <3>3, Zenon
      <4>2. v \in ran.values => best_run.best <= v
        BY <2>1
      <4>3. v \in Nat
        BY <1>1, <4>1
      <4> QED
        BY <2>2, <3>2, <4>1, <4>2, <4>3
    <3> QED
      BY <2>1, <3>1, <3>2, <3>3
  <2>4. CASE ~Less(run.best, best_run.best)
    <3>1. best_run' = best_run
      BY <1>8, <2>4 DEF CaptureBestSolution
    <3>2. ASSUME NEW v \in ran'.values PROVE best_run.best <= v
      <4>1. (v \in ran.values \/ v = run.best) /\ v \in RunValues /\ v # NAN
        <5>1. v \in ran.values \/ (v = run.best /\ v # NAN)
          BY <1>2, <3>2, Zenon
        <5>2. v \in RunValues
          BY <1>4, <3>2, Zenon
        <5> QED
          BY <1>1, <5>1, <5>2
      <4>2. v \in ran.values => best_run.best <= v
        BY <2>1
      <4>3. v \in Nat
        BY <1>1, <4>1
      <4>4. v = run.best => ~(v < best_run.best)
        BY <2>2, <2>4, <4>1 DEF Less
      <4> QED
        BY <2>2, <4>1, <4>2, <4>3, <4>4
    <3> QED
      BY <1>2, <2>1, <3>1, <3>2
  <2> QED
    BY <2>3, <2>4
<1> QED
  BY <1>6, <1>7, <1>8

LEMMA NextCaptured == ASSUME Captured, [RestartsNext]_restartVars PROVE Captured'
<1>1. CASE IpopRun \/ SmallRun \/ LargeRun
  <2>1. PICK run \in Runs : best_run' = CaptureBestSolution(run) /\ Note(run)
    BY <1>1 DEF IpopRun, SmallRun, LargeRun
  <2> QED
    BY <2>1, CaptureKeeps
<1>2. CASE RestartsReturn
  BY <1>2 DEF RestartsReturn, Idling, Captured, Empty
<1>3. CASE \/ IpopOptimize \/ BipopOptimize \/ R2 \/ R1 \/ LoopEnds
           \/ UNCHANGED restartVars
  <2>1. UNCHANGED <<best_run, ran>>
    BY <1>3, Zenon DEF IpopOptimize, BipopOptimize, R2, R1, LoopEnds, restartVars, runVars
  <2> QED
    BY <2>1 DEF Captured
<1> QED
  BY <1>1, <1>2, <1>3 DEF RestartsNext, RestartsStep

\* The solution returned is the best of the runs, unless the first had no
\* candidate.
THEOREM BestRunIsKept == RestartsSpec => []BestRunKept
<1>1. RestartsInit => Captured
  BY DEF RestartsInit, Captured, Empty
<1>2. Captured => BestRunKept
  BY DEF Captured, BestRunKept
<1> QED
  BY <1>1, <1>2, NextCaptured, PTL DEF RestartsSpec

-----------------------------------------------------------------------------
(* The user's parameters.                                                    *)

Scalings == [sep : 0 .. 2, vd : 0 .. 2, noisy : 0 .. 1]

Rates ==
  [c1 : Scalings, csigma : {"default", "vd"},
   cc : {"default", "sep"}, dsigma : {"default", "tpa", "vd"}, chi : Nat,
   lazy : {"default", "sep", "fixed"}]

Parameters ==
  [algo : Algos, sep : BOOLEAN, vd : BOOLEAN, tpa : 0 .. 2, fives : Nat, restarts : Nat,
   fixed : SUBSET FREE, crit : {"unset", "on", "off"}, x0 : {"unset", "point", "box"},
   options : SUBSET {"maximize", "full_fplot"}, derived : Rates]

Notes == [again : BOOLEAN, wiped : BOOLEAN, unfixed : BOOLEAN]

\* c1 was scaled once for each flag, and chi counts the free dimensions.
Good(p, a) ==
  /\ (a.again = FALSE /\ a.wiped = FALSE) =>
       /\ p.derived.c1.sep = (IF p.sep = TRUE THEN 1 ELSE 0)
       /\ p.derived.c1.vd = (IF p.vd = TRUE THEN 1 ELSE 0)
  /\ a.unfixed = FALSE => p.derived.chi = Cardinality(p.fixed)

-----------------------------------------------------------------------------
(* The setters.                                                              *)

LEMMA ChiTyped == \A f \in SUBSET FREE : Cardinality(f) \in Nat
BY FrontEndAssumption, FS_Subset, FS_CardinalityType

LEMMA AgainTyped ==
  ASSUME NEW a \in Notes, NEW s \in BOOLEAN
  PROVE  [a EXCEPT !.again = (@ \/ s)] \in Notes
<1> DEFINE v == a.again \/ s
<1>1. v \in BOOLEAN
  OBVIOUS
<1> HIDE DEF v
<1>2. [a EXCEPT !.again = v] \in Notes
  BY <1>1 DEF Notes
<1> QED
  BY <1>2, Zenon DEF v

LEMMA NewGood ==
  /\ NewParameters \in Parameters /\ NothingAsked \in Notes
  /\ Good(NewParameters, NothingAsked)
<1>1. NewParameters \in Parameters /\ NothingAsked \in Notes
  BY DEF NewParameters, Parameters, Rates, Scalings, Derived, Fresh, Algos, NothingAsked, Notes
<1>2. Cardinality({}) = 0
  BY FS_EmptySet
<1> QED
  BY <1>1, <1>2 DEF Good, NewParameters, Derived, Fresh, NothingAsked

LEMMA SetSepGood ==
  ASSUME NEW p \in Parameters, NEW a \in Notes
  PROVE  /\ SetSep(p) \in Parameters
         /\ SetSep(p).sep = TRUE /\ SetSep(p).vd = p.vd /\ SetSep(p).algo = p.algo
         /\ Good(p, a) => Good(SetSep(p), [a EXCEPT !.again = (@ \/ p.sep)])
<1>1. SetSep(p) \in Parameters
  <2> DEFINE c == [p.derived.c1 EXCEPT !.sep = Again(@)]
             d == [p.derived EXCEPT !.c1 = c, !.cc = "sep", !.lazy = "sep"]
  <2>1. p.derived \in Rates
    BY DEF Parameters
  <2>2. c \in Scalings
    BY <2>1 DEF Rates, Scalings, Again
  <2>3. SetSep(p) = [p EXCEPT !.sep = TRUE, !.derived = d]
    BY <2>1 DEF SetSep, Parameters, Rates, Scalings
  <2> HIDE DEF c
  <2>4. d \in Rates
    BY <2>1, <2>2 DEF Rates
  <2> HIDE DEF d
  <2> QED
    BY <2>3, <2>4 DEF Parameters
<1>2. /\ SetSep(p).sep = TRUE /\ SetSep(p).vd = p.vd /\ SetSep(p).algo = p.algo
      /\ SetSep(p).fixed = p.fixed
      /\ SetSep(p).derived.c1.sep = Again(p.derived.c1.sep)
      /\ SetSep(p).derived.c1.vd = p.derived.c1.vd
      /\ SetSep(p).derived.chi = p.derived.chi
  BY DEF SetSep, Parameters, Rates, Scalings
<1> DEFINE b == [a EXCEPT !.again = (@ \/ p.sep)]
<1>3. b.wiped = a.wiped /\ b.unfixed = a.unfixed
  BY DEF Notes
<1>4. b.again = FALSE => a.again = FALSE /\ p.sep = FALSE
  BY DEF Notes, Parameters
<1> HIDE DEF b
<1>5. Good(p, a) => Good(SetSep(p), b)
  BY <1>2, <1>3, <1>4 DEF Good, Again
<1> QED
  BY <1>1, <1>2, <1>5 DEF b

LEMMA SetVdGood ==
  ASSUME NEW p \in Parameters, NEW a \in Notes
  PROVE  /\ SetVd(p) \in Parameters
         /\ SetVd(p).sep = p.sep /\ SetVd(p).algo = p.algo
         /\ p.algo \in VdAlgos => SetVd(p).vd = TRUE
         /\ Good(p, a) => Good(SetVd(p), [a EXCEPT !.again = (@ \/ p.vd)])
<1> DEFINE b == [a EXCEPT !.again = (@ \/ p.vd)]
<1>3. b.wiped = a.wiped /\ b.unfixed = a.unfixed
  BY DEF Notes
<1>4. b.again = FALSE => a.again = FALSE /\ p.vd = FALSE
  BY DEF Notes, Parameters
<1> HIDE DEF b
<1>5. CASE p.algo \notin VdAlgos
  <2>1. SetVd(p) = p
    BY <1>5 DEF SetVd
  <2>2. Good(p, a) => Good(p, b)
    BY <1>3, <1>4 DEF Good
  <2> QED
    BY <1>5, <2>1, <2>2 DEF b
<1>6. CASE p.algo \in VdAlgos
  <2>1. SetVd(p) \in Parameters
    <3> DEFINE c == [p.derived.c1 EXCEPT !.vd = Again(@)]
               d == [p.derived EXCEPT !.c1 = c, !.csigma = "vd",
                                      !.dsigma = IF p.tpa = 0 THEN "vd" ELSE @]
    <3>1. p.derived \in Rates
      BY DEF Parameters
    <3>2. c \in Scalings
      BY <3>1 DEF Rates, Scalings, Again
    <3>3. SetVd(p) = [p EXCEPT !.vd = TRUE, !.derived = d]
      BY <1>6, <3>1 DEF SetVd, Parameters, Rates, Scalings
    <3> HIDE DEF c
    <3>4. d \in Rates
      BY <3>1, <3>2 DEF Rates
    <3> HIDE DEF d
    <3> QED
      BY <3>3, <3>4 DEF Parameters
  <2>2. /\ SetVd(p).vd = TRUE /\ SetVd(p).sep = p.sep /\ SetVd(p).algo = p.algo
        /\ SetVd(p).fixed = p.fixed
        /\ SetVd(p).derived.c1.vd = Again(p.derived.c1.vd)
        /\ SetVd(p).derived.c1.sep = p.derived.c1.sep
        /\ SetVd(p).derived.chi = p.derived.chi
    BY <1>6 DEF SetVd, Parameters, Rates, Scalings
  <2>3. Good(p, a) => Good(SetVd(p), b)
    BY <1>3, <1>4, <2>2 DEF Good, Again
  <2> QED
    BY <2>1, <2>2, <2>3 DEF b
<1> QED
  BY <1>5, <1>6

\* initialize_parameters() drops the scalings and leaves the flags.
LEMMA SetNoisyGood ==
  ASSUME NEW p \in Parameters, NEW b \in Notes,
         b.wiped = FALSE => (p.sep = FALSE /\ p.vd = FALSE),
         b.unfixed = FALSE => p.fixed = {}
  PROVE  SetNoisy(p) \in Parameters /\ Good(SetNoisy(p), b)
<1>1. InitializeParameters(p) \in Parameters
  BY DEF InitializeParameters, Parameters, Rates, Scalings, Derived, Fresh
<1>2. SetNoisy(p) \in Parameters
  <2> DEFINE q == InitializeParameters(p)
             d == [q.derived EXCEPT !.c1.noisy = 1]
  <2>1. q \in Parameters /\ q.derived = Derived
    BY <1>1 DEF InitializeParameters, Parameters
  <2>2. d \in Rates
    BY <2>1 DEF Rates, Scalings, Derived, Fresh
  <2> HIDE DEF q
  <2>3. SetNoisy(p) = [q EXCEPT !.fives = @ + 1, !.derived = d]
    BY <2>1 DEF SetNoisy, Parameters, Rates, Scalings, q
  <2>4. q.fives + 1 \in Nat
    BY <2>1 DEF Parameters
  <2> HIDE DEF d
  <2> DEFINE n == q.fives + 1
  <2>5. SetNoisy(p) = [q EXCEPT !.fives = n, !.derived = d] /\ n \in Nat
    BY <2>3, <2>4
  <2> HIDE DEF n
  <2> QED
    BY <2>1, <2>2, <2>5 DEF Parameters
<1>3. /\ SetNoisy(p).sep = p.sep /\ SetNoisy(p).vd = p.vd /\ SetNoisy(p).fixed = p.fixed
      /\ SetNoisy(p).derived.c1.sep = 0 /\ SetNoisy(p).derived.c1.vd = 0
      /\ SetNoisy(p).derived.chi = 0
  BY DEF SetNoisy, InitializeParameters, Parameters, Rates, Scalings, Derived, Fresh
<1>4. Cardinality({}) = 0
  BY FS_EmptySet
<1> QED
  BY <1>2, <1>3, <1>4 DEF Good

LEMMA RefixedGood ==
  ASSUME NEW p \in Parameters, NEW a \in Notes, NEW f \in SUBSET FREE
  PROVE  /\ Refixed(p, f) \in Parameters
         /\ Good(p, a) => Good(Refixed(p, f), [a EXCEPT !.unfixed = FALSE])
<1>1. Cardinality(f) \in Nat
  BY ChiTyped
<1>2. Refixed(p, f) \in Parameters
  BY <1>1 DEF Refixed, Parameters, Rates, Scalings
<1>3. /\ Refixed(p, f).sep = p.sep /\ Refixed(p, f).vd = p.vd /\ Refixed(p, f).fixed = f
      /\ Refixed(p, f).derived.c1 = p.derived.c1
      /\ Refixed(p, f).derived.chi = Cardinality(f)
  BY DEF Refixed, Parameters, Rates, Scalings
<1>4. /\ [a EXCEPT !.unfixed = FALSE].again = a.again
      /\ [a EXCEPT !.unfixed = FALSE].wiped = a.wiped
  BY DEF Notes
<1> QED
  BY <1>2, <1>3, <1>4 DEF Good

\* Setters that derive nothing.
LEMMA PlainGood ==
  ASSUME NEW p \in Parameters, NEW q \in Parameters, NEW a \in Notes,
         q.sep = p.sep, q.vd = p.vd, q.fixed = p.fixed,
         q.derived.c1 = p.derived.c1, q.derived.chi = p.derived.chi
  PROVE  Good(p, a) => Good(q, a)
BY DEF Good

-----------------------------------------------------------------------------
(* The invariant.                                                            *)

Held == SUBSET {"cov", "sepcov", "v"}

Optimizers ==
  [strategy : {"none", "cma", "ipop", "bipop"}, update : {"none", "plain", "active", "vd"},
   own : Parameters, repr : Held,
   mean : {"none", "random", "x0", "box", "given"}, sign : {1, -1},
   crit : {"unset", "on", "off"}, plot : {"default", "user"},
   surrogate : BOOLEAN, from : BOOLEAN, run : 0 .. 2]

\* What a strategy is made of.
Made ==
  /\ opt \in Optimizers
  /\ opt.run = 1 =>
       /\ Good(opt.own, asked)
       /\ opt.own.algo \in SepAlgos => opt.own.sep = TRUE
       /\ opt.own.algo \in VdAlgos => opt.own.vd = TRUE
  /\ opt.update = "vd" => opt.own.vd = TRUE
  /\ \/ opt.repr = Representation(opt.own)
     \/ opt.from = TRUE /\ opt.run = 1 /\ opt.repr = {"cov"} /\ opt.update # "vd"

FrontInv ==
  /\ fpc \in {"setup", "search"}
  /\ user \in Parameters /\ asked \in Notes
  /\ Good(user, asked)
  /\ fpc = "search" => Made

LEMMA InitFront == FrontEndInit => FrontInv
BY NewGood DEF FrontEndInit, FrontInv

\* The user's calls.
LEMMA UserKeeps ==
  ASSUME FrontInv, User
  PROVE  FrontInv'
<1>1. user \in Parameters /\ asked \in Notes /\ Good(user, asked)
  BY DEF FrontInv
<1>2. SUFFICES ASSUME NEW p, Call(p), p \in Parameters, asked' \in Notes, Good(p, asked')
               PROVE  FrontInv'
  <2>1. CASE UserAlgo
    <3>1. PICK a \in Algos : Call(SetAlgo(user, a)) /\ asked' = asked
      BY <2>1 DEF UserAlgo
    <3>2. SetAlgo(user, a) \in Parameters /\ Good(SetAlgo(user, a), asked)
      BY <1>1 DEF SetAlgo, Parameters, Good
    <3> QED
      BY <1>1, <1>2, <3>1, <3>2
  <2>2. CASE UserName
    <3>1. PICK a \in Algos : Call(SetStrAlgo(user, a)) /\ asked' = NoteAlgo(a)
      BY <2>2 DEF UserName
    <3> DEFINE named == IF a \in NamedAlgos THEN [user EXCEPT !.algo = a] ELSE user
    <3>2. /\ named \in Parameters /\ Good(named, asked)
          /\ named.sep = user.sep /\ named.vd = user.vd
      BY <1>1 DEF Parameters, Good
    <3>3. SetStrAlgo(user, a) = IF a \in SepAlgos THEN SetSep(named)
                                ELSE IF a \in VdAlgos THEN SetVd(named) ELSE named
      BY DEF SetStrAlgo
    <3> HIDE DEF named
    <3>4. CASE a \in SepAlgos
      <4>1. asked' = [asked EXCEPT !.again = (@ \/ named.sep)]
        BY <3>1, <3>2, <3>4, Zenon DEF NoteAlgo, NoteSep
      <4>2. asked' \in Notes
        BY <1>1, <3>2, <4>1, AgainTyped DEF Parameters
      <4>3. SetSep(named) \in Parameters /\ Good(SetSep(named), asked')
        BY <1>1, <3>2, <4>1, SetSepGood, Zenon
      <4>4. Call(SetSep(named))
        BY <3>1, <3>3, <3>4, Zenon
      <4> QED
        BY <1>2, <4>2, <4>3, <4>4, Zenon
    <3>5. CASE a \notin SepAlgos /\ a \in VdAlgos
      <4>1. asked' = [asked EXCEPT !.again = (@ \/ named.vd)]
        BY <3>1, <3>2, <3>5, Zenon DEF NoteAlgo, NoteVd
      <4>2. asked' \in Notes
        BY <1>1, <3>2, <4>1, AgainTyped DEF Parameters
      <4>3. SetVd(named) \in Parameters /\ Good(SetVd(named), asked')
        BY <1>1, <3>2, <4>1, SetVdGood, Zenon
      <4>4. Call(SetVd(named))
        BY <3>1, <3>3, <3>5, Zenon
      <4> QED
        BY <1>2, <4>2, <4>3, <4>4, Zenon
    <3>6. CASE a \notin SepAlgos /\ a \notin VdAlgos
      <4>1. asked' = asked
        BY <3>1, <3>6 DEF NoteAlgo
      <4> QED
        BY <1>1, <1>2, <3>1, <3>2, <3>3, <3>6, <4>1
    <3> QED
      BY <3>4, <3>5, <3>6
  <2>3. CASE UserSep
    <3>1. asked' \in Notes
      BY <1>1, <2>3, AgainTyped DEF UserSep, NoteSep, Parameters
    <3> QED
      BY <1>1, <1>2, <2>3, <3>1, SetSepGood DEF UserSep, NoteSep
  <2>4. CASE UserVd
    <3>1. asked' \in Notes
      BY <1>1, <2>4, AgainTyped DEF UserVd, NoteVd, Parameters
    <3> QED
      BY <1>1, <1>2, <2>4, <3>1, SetVdGood DEF UserVd, NoteVd
  <2>5. CASE UserNoisy
    <3> DEFINE v == user.sep \/ user.vd
               w == user.fixed # {}
    <3>1. asked' = [asked EXCEPT !.wiped = v, !.unfixed = w]
      BY <2>5, Zenon DEF UserNoisy
    <3>5. v \in BOOLEAN /\ w \in BOOLEAN
      BY Zenon
    <3>6. (v = FALSE => user.sep = FALSE /\ user.vd = FALSE) /\ (w = FALSE => user.fixed = {})
      BY <1>1 DEF Parameters
    <3> HIDE DEF v, w
    <3>2. asked' \in Notes
      BY <1>1, <3>1, <3>5 DEF Notes
    <3>7. asked'.wiped = v /\ asked'.unfixed = w
      BY <1>1, <3>1 DEF Notes
    <3>3. asked'.wiped = FALSE => user.sep = FALSE /\ user.vd = FALSE
      BY <3>6, <3>7
    <3>4. asked'.unfixed = FALSE => user.fixed = {}
      BY <3>6, <3>7
    <3>8. SetNoisy(user) \in Parameters /\ Good(SetNoisy(user), asked')
      BY <1>1, <3>2, <3>3, <3>4, SetNoisyGood, Zenon
    <3> QED
      BY <1>2, <2>5, <3>2, <3>8, Zenon DEF UserNoisy
  <2>6. CASE UserTpa
    <3>1. PICK b \in 0 .. 2 : Call(SetTpa(user, b)) /\ asked' = asked
      BY <2>6 DEF UserTpa
    <3>2. SetTpa(user, b) \in Parameters
      BY <1>1 DEF SetTpa, Parameters, Rates
    <3>3. Good(SetTpa(user, b), asked)
      BY <1>1 DEF SetTpa, Parameters, Rates, Good
    <3> QED
      BY <1>1, <1>2, <3>1, <3>2, <3>3
  <2>7. CASE UserFixed
    <3>1. PICK k \in FREE : /\ Call(SetFixedP(user, k)) \/ Call(UnsetFixedP(user, k))
                            /\ asked' = [asked EXCEPT !.unfixed = FALSE]
      BY <2>7 DEF UserFixed
    <3>2. PICK f \in SUBSET FREE : Call(Refixed(user, f))
      <4>1. user.fixed \cup {k} \in SUBSET FREE /\ user.fixed \ {k} \in SUBSET FREE
        BY <1>1 DEF Parameters
      <4> QED
        BY <3>1, <4>1 DEF SetFixedP, UnsetFixedP
    <3>3. asked' \in Notes
      BY <1>1, <3>1 DEF Notes
    <3> QED
      BY <1>1, <1>2, <3>1, <3>2, <3>3, RefixedGood
  <2>8. CASE UserCriterion
    <3>1. PICK a \in {"on", "off"} : Call(SetStoppingCriteria(user, a)) /\ asked' = asked
      BY <2>8 DEF UserCriterion
    <3>2. SetStoppingCriteria(user, a) \in Parameters /\ Good(SetStoppingCriteria(user, a), asked)
      BY <1>1 DEF SetStoppingCriteria, Parameters, Good
    <3> QED
      BY <1>1, <1>2, <3>1, <3>2
  <2>9. CASE UserX0
    <3>1. PICK a \in {"point", "box"} : Call(SetX0(user, a)) /\ asked' = asked
      BY <2>9 DEF UserX0
    <3>2. SetX0(user, a) \in Parameters /\ Good(SetX0(user, a), asked)
      BY <1>1 DEF SetX0, Parameters, Good
    <3> QED
      BY <1>1, <1>2, <3>1, <3>2
  <2>10. CASE UserOption
    <3>1. PICK o \in {"maximize", "full_fplot"} : Call(SetOption(user, o)) /\ asked' = asked
      BY <2>10 DEF UserOption
    <3>2. SetOption(user, o) \in Parameters /\ Good(SetOption(user, o), asked)
      BY <1>1 DEF SetOption, Parameters, Good
    <3> QED
      BY <1>1, <1>2, <3>1, <3>2
  <2> QED
    BY <2>1, <2>2, <2>3, <2>4, <2>5, <2>6, <2>7, <2>8, <2>9, <2>10 DEF User
<1> QED
  BY <1>2 DEF Call, FrontInv

-----------------------------------------------------------------------------
(* The searches.                                                             *)

\* Both constructors copy the parameters; their strategy's own are Good and
\* carry the flags of their algorithm.
LEMMA StartedTyped ==
  ASSUME NEW p \in Parameters, NEW plot \in BOOLEAN
  PROVE  Started(p, plot) \in Optimizers
<1>1. StrategyOf(p.algo) \in {"cma", "ipop", "bipop"}
  <2>1. p.algo \in 0 .. 14
    BY DEF Parameters, Algos
  <2>2. p.algo % 3 \in 0 .. 2
    BY <2>1
  <2> QED
    BY <2>2 DEF StrategyOf
<1>2. UpdateOf(p.algo) \in {"plain", "active", "vd"}
  BY DEF UpdateOf
<1>3. Representation(p) \in Held
  BY DEF Representation, Held
<1>4. Mean(p) \in {"random", "x0", "box"}
  BY DEF Mean, Parameters
<1>5. p.crit \in {"unset", "on", "off"}
  BY DEF Parameters
<1> QED
  BY <1>1, <1>2, <1>3, <1>4, <1>5 DEF Started, Optimizers

LEMMA BeginKeeps ==
  ASSUME FrontInv, NEW p \in Parameters, NEW o, Begin(p, o), asked' \in Notes,
         Good(p, asked'),
         p.algo \in SepAlgos => p.sep = TRUE, p.algo \in VdAlgos => p.vd = TRUE,
         NEW plot \in BOOLEAN,
         \/ o = Started(p, plot)
         \/ o = [Started(p, plot) EXCEPT !.surrogate = TRUE]
         \/ p.algo \notin VdAlgos /\ o = StartedFrom(p, plot)
  PROVE  FrontInv'
<1>1. p.algo \notin VdAlgos => UpdateOf(p.algo) # "vd"
  BY DEF UpdateOf
<1>2. CASE o = Started(p, plot) \/ o = [Started(p, plot) EXCEPT !.surrogate = TRUE]
  <2> DEFINE s == Started(p, plot)
  <2>5. /\ s.own = p /\ s.from = FALSE
        /\ s.update = UpdateOf(p.algo) /\ s.repr = Representation(p)
    BY DEF Started
  <2>6. s \in Optimizers
    BY StartedTyped
  <2>7. o = s \/ o = [s EXCEPT !.surrogate = TRUE]
    BY <1>2
  <2> HIDE DEF s
  <2>1. /\ o.own = p /\ o.from = FALSE
        /\ o.update = UpdateOf(p.algo) /\ o.repr = Representation(p)
    BY <2>5, <2>6, <2>7 DEF Optimizers
  <2>2. opt' = o /\ fpc' = "search" /\ user' = p
    BY DEF Begin
  <2>4. o \in Optimizers
    BY <2>6, <2>7 DEF Optimizers
  <2>3. Made'
    BY <1>1, <2>1, <2>2, <2>4 DEF Made
  <2> QED
    BY <2>2, <2>3 DEF FrontInv
<1>3. CASE p.algo \notin VdAlgos /\ o = StartedFrom(p, plot)
  <2> DEFINE q == SetX0(p, "point")
  <2>1. q \in Parameters /\ q.algo = p.algo /\ q.sep = p.sep /\ q.vd = p.vd
    BY DEF SetX0, Parameters
  <2>2. Good(q, asked')
    BY DEF SetX0, Parameters, Good
  <2>3. /\ o.own = q /\ o.from = TRUE /\ o.surrogate = FALSE /\ o.run = 1
        /\ o.update = UpdateOf(p.algo) /\ o.repr = {"cov"}
    BY <1>3 DEF StartedFrom, Started
  <2>4. opt' = o /\ fpc' = "search" /\ user' = p
    BY DEF Begin
  <2>6. o \in Optimizers
    <3>1. o = [Started(p, plot) EXCEPT !.own = q, !.repr = {"cov"}, !.mean = "given",
                                       !.sign = 1, !.crit = "unset", !.from = TRUE]
      BY <1>3 DEF StartedFrom
    <3>2. {"cov"} \in Held /\ Started(p, plot) \in Optimizers
      BY StartedTyped DEF Held
    <3> DEFINE s == Started(p, plot)
               h == {"cov"}
    <3> HIDE DEF q, s, h
    <3>3. s \in Optimizers /\ h \in Held
      BY <3>2 DEF s, h
    <3>4. o = [s EXCEPT !.own = q, !.repr = h, !.mean = "given",
                        !.sign = 1, !.crit = "unset", !.from = TRUE]
      BY <3>1 DEF s, h
    <3> QED
      BY <2>1, <3>3, <3>4 DEF Optimizers
  <2> HIDE DEF q
  <2>5. Made'
    BY <1>1, <1>3, <2>1, <2>2, <2>3, <2>4, <2>6 DEF Made
  <2> QED
    BY <2>4, <2>5 DEF FrontInv
<1> QED
  BY <1>2, <1>3

LEMMA NextFront == FrontInv /\ [FrontEndNext]_frontVars => FrontInv'
<1> SUFFICES ASSUME FrontInv, [FrontEndNext]_frontVars PROVE FrontInv'
  OBVIOUS
<1>0. user \in Parameters /\ asked \in Notes /\ Good(user, asked)
  BY DEF FrontInv
<1>1. CASE UNCHANGED frontVars
  BY <1>1 DEF frontVars, FrontInv, Made
<1>2. CASE User
  BY <1>2, UserKeeps
<1>3. CASE CmaesFull
  <2>1. PICK plot, o :
          /\ plot \in BOOLEAN
          /\ user.algo \notin SepAlgos /\ user.algo \notin VdAlgos /\ asked' = asked
          /\ Begin(user, o) /\ (o = StartedFrom(user, plot) \/ o = Started(user, plot))
    BY <1>3 DEF CmaesFull
  <2> QED
    BY <1>0, <2>1, BeginKeeps
<1>4. CASE CmaesSep
  <2> DEFINE p == IfNotSep(user)
  <2>1. p \in Parameters /\ p.sep = TRUE /\ p.algo = user.algo
    BY <1>0, SetSepGood DEF IfNotSep, Parameters
  <2>2. Good(p, asked)
    <3>1. CASE user.sep = TRUE
      BY <1>0, <3>1 DEF IfNotSep
    <3>2. CASE user.sep = FALSE
      <4>1. [asked EXCEPT !.again = (@ \/ user.sep)] = asked
        BY <1>0, <3>2 DEF Notes
      <4>2. Good(SetSep(user), [asked EXCEPT !.again = (@ \/ user.sep)])
        BY <1>0, SetSepGood, Zenon
      <4> QED
        BY <3>2, <4>1, <4>2, Zenon DEF IfNotSep
    <3> QED
      BY <1>0, <3>1, <3>2 DEF Parameters
  <2>3. PICK plot \in BOOLEAN, sol \in {"none", "cov", "sepcov"} :
          /\ asked' = asked
          /\ Begin(p, IF sol = "cov" THEN StartedFrom(p, plot /\ ~PlotForgotten(user.algo))
                                     ELSE Started(p, plot))
    BY <1>4 DEF CmaesSep
  <2>4. user.algo \in SepAlgos /\ user.algo \notin VdAlgos
    BY <1>4 DEF CmaesSep, SepAlgos, VdAlgos
  <2>5. (plot /\ ~PlotForgotten(user.algo)) \in BOOLEAN
    OBVIOUS
  <2> HIDE DEF p
  <2>6. CASE sol = "cov"
    <3>1. Begin(p, StartedFrom(p, plot /\ ~PlotForgotten(user.algo)))
      BY <2>3, <2>6
    <3> QED
      BY <1>0, <2>1, <2>2, <2>3, <2>4, <2>5, <3>1, BeginKeeps
  <2>7. CASE sol # "cov"
    <3>1. Begin(p, Started(p, plot))
      BY <2>3, <2>7
    <3> QED
      BY <1>0, <2>1, <2>2, <2>3, <2>4, <3>1, BeginKeeps
  <2> QED
    BY <2>6, <2>7
<1>5. CASE CmaesVd
  <2> DEFINE p == IfNotVd(user)
  <2>1. PICK plot, o :
          /\ plot \in BOOLEAN
          /\ user.algo \in VdAlgos /\ asked' = asked
          /\ Begin(p, o) /\ o = Started(p, plot)
    BY <1>5 DEF CmaesVd
  <2>2. p \in Parameters /\ p.vd = TRUE /\ p.algo = user.algo
    BY <1>0, <2>1, SetVdGood DEF IfNotVd, Parameters
  <2>3. Good(p, asked)
    <3>1. CASE user.vd = TRUE
      BY <1>0, <3>1 DEF IfNotVd
    <3>2. CASE user.vd = FALSE
      <4>1. [asked EXCEPT !.again = (@ \/ user.vd)] = asked
        BY <1>0, <3>2 DEF Notes
      <4>2. Good(SetVd(user), [asked EXCEPT !.again = (@ \/ user.vd)])
        BY <1>0, SetVdGood, Zenon
      <4> QED
        BY <3>2, <4>1, <4>2, Zenon DEF IfNotVd
    <3> QED
      BY <1>0, <3>1, <3>2 DEF Parameters
  <2>4. user.algo \notin SepAlgos
    BY <2>1 DEF SepAlgos, VdAlgos
  <2> HIDE DEF p
  <2> QED
    BY <1>0, <2>1, <2>2, <2>3, <2>4, BeginKeeps
<1>6. CASE Surrcmaes
  <2>1. PICK p, o : /\ p = (IF user.algo \in SepAlgos THEN SetSep(user)
                            ELSE IF user.algo \in VdAlgos THEN SetVd(user) ELSE user)
                   /\ o = [Started(p, FALSE) EXCEPT !.surrogate = TRUE]
                   /\ Begin(p, o) /\ asked' = NoteAlgo(user.algo)
    BY <1>6 DEF Surrcmaes
  <2>2. CASE user.algo \in SepAlgos
    <3>1. p = SetSep(user) /\ asked' = [asked EXCEPT !.again = (@ \/ user.sep)]
      BY <2>1, <2>2, Zenon DEF NoteAlgo, NoteSep
    <3>2. p \in Parameters /\ p.sep = TRUE /\ p.algo = user.algo /\ Good(p, asked')
      BY <1>0, <3>1, SetSepGood, Zenon
    <3>3. asked' \in Notes
      BY <1>0, <3>1, AgainTyped DEF Parameters
    <3>4. user.algo \notin VdAlgos
      BY <2>2 DEF SepAlgos, VdAlgos
    <3> QED
      BY <2>1, <3>2, <3>3, <3>4, BeginKeeps
  <2>3. CASE user.algo \in VdAlgos
    <3>4. user.algo \notin SepAlgos
      BY <2>3 DEF SepAlgos, VdAlgos
    <3>1. p = SetVd(user) /\ asked' = [asked EXCEPT !.again = (@ \/ user.vd)]
      BY <2>1, <2>3, <3>4, Zenon DEF NoteAlgo, NoteVd
    <3>2. p \in Parameters /\ p.vd = TRUE /\ p.algo = user.algo /\ Good(p, asked')
      BY <1>0, <2>3, <3>1, SetVdGood, Zenon
    <3>3. asked' \in Notes
      BY <1>0, <3>1, AgainTyped DEF Parameters
    <3> QED
      BY <2>1, <3>2, <3>3, <3>4, BeginKeeps
  <2>4. CASE user.algo \notin SepAlgos /\ user.algo \notin VdAlgos
    <3>1. p = user /\ asked' = asked
      BY <2>1, <2>4 DEF NoteAlgo
    <3> QED
      BY <1>0, <2>1, <2>4, <3>1, BeginKeeps
  <2> QED
    BY <2>2, <2>3, <2>4
<1>7. CASE SearchRestart
  <2> DEFINE p == InitializeParameters(opt.own)
  <2>1. Made
    BY <1>7 DEF FrontInv, SearchRestart
  <2>2. p \in Parameters /\ p.vd = opt.own.vd
    <3>1. opt.own \in Parameters
      BY <2>1 DEF Made, Optimizers
    <3> QED
      BY <3>1 DEF InitializeParameters, Parameters, Rates, Scalings, Derived, Fresh
  <2>3. opt' = [opt EXCEPT !.own = p, !.repr = Representation(p), !.mean = Mean(p), !.run = 2]
    BY <1>7 DEF SearchRestart
  <2> HIDE DEF p
  <2>6. Representation(p) \in Held /\ Mean(p) \in {"random", "x0", "box"}
    BY <2>2 DEF Representation, Mean, Parameters, Held
  <2>7. opt' \in Optimizers
    <3> DEFINE h == Representation(p)
               m == Mean(p)
    <3>1. h \in Held /\ m \in {"random", "x0", "box"} /\ opt \in Optimizers
      BY <2>1, <2>6 DEF Made
    <3>2. opt' = [opt EXCEPT !.own = p, !.repr = h, !.mean = m, !.run = 2]
      BY <2>3
    <3> HIDE DEF h, m
    <3>3. [opt EXCEPT !.own = p, !.repr = h] \in Optimizers
      BY <2>2, <3>1 DEF Optimizers
    <3> DEFINE s == [opt EXCEPT !.own = p, !.repr = h]
    <3>4. opt' = [s EXCEPT !.mean = m, !.run = 2]
      BY <3>1, <3>2 DEF Optimizers
    <3>5. s \in Optimizers /\ m \in {"none", "random", "x0", "box", "given"} /\ 2 \in 0 .. 2
      BY <3>1, <3>3
    <3> HIDE DEF s
    <3> QED
      BY <3>4, <3>5 DEF Optimizers
  <2>4. /\ opt'.own = p /\ opt'.repr = Representation(p) /\ opt'.run = 2
        /\ opt'.from = opt.from /\ opt'.surrogate = opt.surrogate /\ opt'.update = opt.update
    BY <2>1, <2>3 DEF Made, Optimizers
  <2>5. Made'
    BY <2>1, <2>2, <2>4, <2>7 DEF Made
  <2> QED
    BY <1>7, <2>5 DEF FrontInv, SearchRestart
<1>8. CASE SearchReturns
  BY <1>8 DEF FrontInv, SearchReturns
<1> QED
  BY <1>1, <1>2, <1>3, <1>4, <1>5, <1>6, <1>7, <1>8 DEF FrontEndNext

LEMMA FrontInvariant == FrontEndSpec => []FrontInv
BY InitFront, NextFront, PTL DEF FrontEndSpec

-----------------------------------------------------------------------------
LEMMA FrontFits == FrontInv => RatesAsAsked /\ RepresentationFits
<1> SUFFICES ASSUME FrontInv PROVE RatesAsAsked /\ RepresentationFits
  OBVIOUS
<1>1. RatesAsAsked
  BY DEF FrontInv, Made, Good, LeftFlag, RatesAsAsked, Notes, Optimizers, Parameters
<1>2. RepresentationFits
  <2> SUFFICES ASSUME fpc = "search", ~(opt.own.vd /\ opt.update # "vd"),
                      ~(opt.own.sep /\ opt.from /\ opt.run = 1)
               PROVE  Read \subseteq opt.repr
    BY DEF RepresentationFits
  <2>1. Made /\ opt.own.sep \in BOOLEAN /\ opt.own.vd \in BOOLEAN
    BY DEF FrontInv, Made, Optimizers, Parameters
  <2>2. CASE opt.repr = Representation(opt.own)
    BY <2>1, <2>2 DEF Made, Read, Representation
  <2>3. CASE opt.from = TRUE /\ opt.run = 1 /\ opt.repr = {"cov"} /\ opt.update # "vd"
    BY <2>1, <2>3 DEF Read, Representation
  <2> QED
    BY <2>1, <2>2, <2>3 DEF Made
<1> QED
  BY <1>1, <1>2

\* The rates of a search by cmaes() fit its algorithm, however often the
\* parameters were used before, but for the cases RatesAsAsked names
\* (cmaes.h's "if (!parameters.is_sep()) parameters.set_sep()").
THEOREM RatesFit == FrontEndSpec => []RatesAsAsked
<1> QED
  BY FrontFits, FrontInvariant, PTL

\* What ask() and the update read of the distribution is in the solutions,
\* in a first run and after a restart, but for the cases RepresentationFits
\* names.
THEOREM SolutionsFit == FrontEndSpec => []RepresentationFits
<1> QED
  BY FrontFits, FrontInvariant, PTL

-----------------------------------------------------------------------------
(* The genotype and the phenotype.                                           *)

\* Bounds pwqBoundStrategy may have.
Pwq(b) ==
  /\ b.bounded = TRUE /\ b.lb \in Int /\ b.ub \in Int /\ b.al \in Nat \ {0} /\ b.au \in Nat \ {0}
  /\ b.al + b.au <= b.ub - b.lb
  /\ 2 * ((b.ub - b.lb) \div 2) = b.ub - b.lb

\* The scaling takes the bounds to the box.
Fits(c) ==
  /\ c.custom \in BOOLEAN /\ c.scaling.id \in BOOLEAN
  /\ c.scaling.w \in Nat \ {0} /\ c.scaling.off \in Int
  /\ c.scaling.id => c.scaling.w = 1 /\ c.scaling.off = 0
  /\ c.box[1] \in Int /\ c.box[2] \in Int
  /\ \/ c.bounds = NoBound
     \/ /\ Pwq(c.bounds)
        /\ c.scaling.off + c.scaling.w * c.bounds.lb = c.box[1]
        /\ c.scaling.off + c.scaling.w * c.bounds.ub = c.box[2]

-----------------------------------------------------------------------------
(* Integers.                                                                 *)

LEMMA Division ==
  ASSUME NEW a \in Int, NEW p \in Nat \ {0}
  PROVE  a \div p \in Int /\ p * (a \div p) <= a /\ a < p * (a \div p) + p
OBVIOUS

LEMMA Divides ==
  ASSUME NEW a \in Int, NEW p \in Nat \ {0}, a % p = 0
  PROVE  a \div p \in Int /\ a = p * (a \div p)
OBVIOUS

LEMMA Times == ASSUME NEW a \in Int, NEW p \in Nat \ {0} PROVE (p * a) \div p = a
OBVIOUS

LEMMA Monotone ==
  ASSUME NEW a \in Int, NEW b \in Int, NEW g \in Nat, a <= b
  PROVE  g * a \in Int /\ g * b \in Int /\ g * a <= g * b
OBVIOUS

LEMMA StrictlyMonotone ==
  ASSUME NEW a \in Int, NEW b \in Int, NEW g \in Nat \ {0}, a < b
  PROVE  g * a < g * b
OBVIOUS

LEMMA Distributes ==
  ASSUME NEW a \in Int, NEW b \in Int, NEW g \in Int
  PROVE  /\ g * a \in Int /\ g * b \in Int
         /\ g * (a + b) = g * a + g * b /\ g * (a - b) = g * a - g * b
OBVIOUS

LEMMA Squares ==
  ASSUME NEW a \in Int, NEW b \in Int
  PROVE  b * ((2 * a) * (2 * a)) = (4 * a * b) * a /\ b * ((2 * a) * (2 * a)) = (4 * b * a) * a
OBVIOUS

LEMMA SquareBelow ==
  ASSUME NEW a \in Nat, NEW b \in Nat, a < b
  PROVE  a * a < b * b /\ a * a \in Nat /\ b * b \in Nat
OBVIOUS

LEMMA RootIs == ASSUME NEW d \in Nat PROVE Root(d * d) = d
<1>1. d \in 0 .. d * d /\ d * d < (d + 1) * (d + 1)
  OBVIOUS
<1>2. \A s \in 0 .. d * d : s * s <= d * d /\ d * d < (s + 1) * (s + 1) => s = d
  OBVIOUS
<1> QED
  BY <1>1, <1>2 DEF Root

-----------------------------------------------------------------------------
(* The bounds.                                                               *)

\* shift_into_feasible() of numbers.
LEMMA ShiftIs ==
  ASSUME NEW b, Pwq(b), NEW z \in Int
  PROVE  /\ ShiftIntoFeasible(b, z) \in b.lb - b.al .. b.ub + b.au
         /\ z \in b.lb - b.al .. b.ub + b.au => ShiftIntoFeasible(b, z) = z
<1>1. PICK lb, ub, al, au :
        /\ lb = b.lb /\ ub = b.ub /\ al = b.al /\ au = b.au
        /\ lb \in Int /\ ub \in Int /\ al \in Nat \ {0} /\ au \in Nat \ {0}
        /\ al + au <= ub - lb
  BY DEF Pwq
<1>2. PICK half \in Int : 2 * half = ub - lb /\ half = (b.ub - b.lb) \div 2
  BY <1>1 DEF Pwq
<1>3. PICK p, low, up : p = Period(b) /\ low = XLow(b) /\ up = XUp(b)
  OBVIOUS
<1>4. /\ p = 2 * (ub - lb + al + au) /\ p \in Nat \ {0}
      /\ low = lb - 2 * al - half /\ up = ub + 2 * au + half
      /\ low \in Int /\ up \in Int /\ up = low + p
  <2>1. p = 2 * (ub - lb + al + au)
    BY <1>1, <1>3, Zenon DEF Period
  <2>2. low = lb - 2 * al - half
    BY <1>1, <1>2, <1>3, Zenon DEF XLow
  <2>3. up = ub + 2 * au + half
    BY <1>1, <1>2, <1>3, Zenon DEF XUp
  <2>4. p \in Nat \ {0} /\ low \in Int
    BY <1>1, <1>2, <2>1, <2>2
  <2>5. up \in Int /\ up = low + p
    <3>1. half \in Int /\ 2 * half = ub - lb
      BY <1>2
    <3>2. lb - 2 * al - half + 2 * (ub - lb + al + au) = ub + 2 * au + half
      BY <1>1, <3>1
    <3>3. ub + 2 * au + half \in Int
      BY <1>1, <3>1
    <3> QED
      BY <2>1, <2>2, <2>3, <3>2, <3>3
  <2> QED
    BY <2>1, <2>2, <2>3, <2>4, <2>5
<1>5. PICK y1 : y1 = IF z < low THEN z + p * (1 + (low - z) \div p) ELSE z
  OBVIOUS
<1>6. y1 \in Int /\ low <= y1 /\ (z < low => y1 <= up) /\ (z >= low => y1 = z)
  <2>1. CASE z < low
    <3>1. PICK k \in Int : k = (low - z) \div p /\ p * k <= low - z /\ low - z < p * k + p
      <4>1. PICK a \in Int : a = low - z
        BY <1>4
      <4>2. a \div p \in Int /\ p * (a \div p) <= a /\ a < p * (a \div p) + p
        BY <1>4, Division
      <4> QED
        BY <4>1, <4>2
    <3>2. y1 = z + p * (1 + k) /\ p * (1 + k) = p * k + p /\ p * k \in Int
      BY <1>4, <1>5, <2>1, <3>1
    <3> QED
      BY <1>4, <2>1, <3>1, <3>2
  <2> QED
    BY <1>4, <1>5, <2>1
<1>7. PICK y2 : y2 = IF y1 > up THEN y1 - p * (1 + (y1 - up) \div p) ELSE y1
  OBVIOUS
<1>8. y2 \in Int /\ low <= y2 /\ y2 <= up /\ (z \in low .. up => y2 = z)
  <2>1. CASE y1 > up
    <3>1. PICK k \in Int : k = (y1 - up) \div p /\ p * k <= y1 - up /\ y1 - up < p * k + p
      <4>1. PICK a \in Int : a = y1 - up
        BY <1>4, <1>6
      <4>2. a \div p \in Int /\ p * (a \div p) <= a /\ a < p * (a \div p) + p
        BY <1>4, Division
      <4> QED
        BY <4>1, <4>2
    <3>2. y2 = y1 - p * (1 + k) /\ p * (1 + k) = p * k + p /\ p * k \in Int
      BY <1>4, <1>6, <1>7, <2>1, <3>1
    <3>3. y2 \in Int /\ y2 = y1 - p * k - p
      BY <1>4, <1>6, <3>2
    <3>4. z \notin low .. up
      BY <1>4, <1>6, <2>1
    <3> QED
      BY <1>4, <1>6, <2>1, <3>1, <3>2, <3>3, <3>4
  <2> QED
    BY <1>4, <1>6, <1>7, <2>1
<1>9. PICK y3 : y3 = IF y2 < lb - al THEN y2 + 2 * (lb - al - y2) ELSE y2
  OBVIOUS
<1>10. ShiftIntoFeasible(b, z) = IF y3 > ub + au THEN y3 - 2 * (y3 - ub - au) ELSE y3
  BY <1>1, <1>3, <1>5, <1>7, <1>9, Zenon DEF ShiftIntoFeasible
<1> QED
  BY <1>1, <1>2, <1>4, <1>8, <1>9, <1>10

\* to_f_representation(): inside the bounds, and the identity away from them.
LEMMA ToFIs ==
  ASSUME NEW b, Pwq(b), NEW z \in Int
  PROVE  /\ ToFRepresentation(b, z) \in Int /\ Grain(b) \in Nat \ {0}
         /\ Grain(b) * b.lb <= ToFRepresentation(b, z)
         /\ ToFRepresentation(b, z) <= Grain(b) * b.ub
         /\ z \in b.lb + b.al .. b.ub - b.au => ToFRepresentation(b, z) = Grain(b) * z
         /\ ToInternalRepresentation(b, ToFRepresentation(b, z)) = ShiftIntoFeasible(b, z)
<1>1. PICK lb, ub, al, au :
        /\ lb = b.lb /\ ub = b.ub /\ al = b.al /\ au = b.au /\ b.bounded
        /\ lb \in Int /\ ub \in Int /\ al \in Nat \ {0} /\ au \in Nat \ {0}
        /\ al + au <= ub - lb
  BY DEF Pwq
<1>2. PICK y \in Int : /\ y = ShiftIntoFeasible(b, z) /\ lb - al <= y /\ y <= ub + au
                       /\ (lb - al <= z /\ z <= ub + au => y = z)
  BY <1>1, ShiftIs
<1>3. PICK g \in Nat \ {0} : g = Grain(b) /\ g = 4 * al * au
  <2>1. Grain(b) = 4 * al * au
    BY <1>1, Zenon DEF Grain
  <2>2. 4 * al * au \in Nat \ {0}
    BY <1>1
  <2> QED
    BY <2>1, <2>2
<1>4. PICK down \in Int, up \in Int : down = y - (lb - al) /\ up = y - (ub + au)
  BY <1>1, <1>2
<1>5. PICK f : f = ToFRepresentation(b, z)
  OBVIOUS
<1>6. f = IF y < lb + al THEN g * lb + au * down * down
          ELSE IF y > ub - au THEN g * ub - al * up * up ELSE g * y
  BY <1>1, <1>2, <1>3, <1>4, <1>5, Zenon DEF ToFRepresentation
<1>7. ToInternalRepresentation(b, f) =
        IF f < g * (lb + al) THEN lb - al + Root(AbsOf(g * lb - f) \div au)
        ELSE IF f > g * (ub - au) THEN ub + au - Root(AbsOf(f - g * ub) \div al)
        ELSE f \div g
  BY <1>1, <1>3, Zenon DEF ToInternalRepresentation
<1>8. g * lb \in Int /\ g * ub \in Int /\ g * (lb + al) = g * lb + g * al
      /\ g * (ub - au) = g * ub - g * au /\ g * al \in Nat /\ g * au \in Nat
      /\ g * al + g * au <= g * ub - g * lb
  <2>1. g * (al + au) <= g * (ub - lb)
    <3>1. al + au \in Int /\ ub - lb \in Int /\ al + au <= ub - lb
      BY <1>1
    <3> QED
      BY <3>1, Monotone
  <2>2. /\ g * (al + au) = g * al + g * au /\ g * (ub - lb) = g * ub - g * lb
        /\ g * (lb + al) = g * lb + g * al /\ g * (ub - au) = g * ub - g * au
        /\ g * lb \in Int /\ g * ub \in Int
    BY <1>1, Distributes
  <2>3. g * al \in Nat /\ g * au \in Nat
    BY <1>1
  <2> QED
    BY <2>1, <2>2, <2>3
<1>9. CASE y < lb + al
  <2>1. down \in Nat /\ down < 2 * al
    BY <1>1, <1>2, <1>4, <1>9
  <2>2. PICK d2 \in Nat : d2 = au * down * down /\ d2 = au * (down * down) /\ d2 < g * al
    <3>1. down * down < (2 * al) * (2 * al) /\ down * down \in Nat /\ (2 * al) * (2 * al) \in Nat
      <4>1. 2 * al \in Nat
        BY <1>1
      <4> QED
        BY <2>1, <4>1, SquareBelow
    <3>2. au * (down * down) < au * ((2 * al) * (2 * al))
      <4>1. PICK s \in Int, t \in Int : s = down * down /\ t = (2 * al) * (2 * al) /\ s < t
        BY <3>1
      <4>2. au * s < au * t
        BY <1>1, <4>1, StrictlyMonotone
      <4> QED
        BY <4>1, <4>2
    <3>3. au * ((2 * al) * (2 * al)) = g * al
      BY <1>1, <1>3, Squares
    <3>4. au * (down * down) = au * down * down /\ au * (down * down) \in Nat
      BY <1>1, <2>1, <3>1
    <3> QED
      BY <3>2, <3>3, <3>4
  <2>3. f = g * lb + d2 /\ f \in Int /\ f < g * (lb + al)
    BY <1>6, <1>8, <1>9, <2>2
  <2>4. AbsOf(g * lb - f) = d2
    BY <1>8, <2>2, <2>3 DEF AbsOf
  <2>5. d2 \div au = down * down
    <3>1. down * down \in Int
      BY <2>1
    <3> QED
      BY <1>1, <2>2, <3>1, Times
  <2>6. ToInternalRepresentation(b, f) = lb - al + down
    BY <1>7, <2>1, <2>3, <2>4, <2>5, RootIs
  <2>7. lb - al + down = y
    BY <1>1, <1>2, <1>4
  <2>8. g * lb <= f /\ f <= g * ub
    BY <1>8, <2>2, <2>3
  <2>9. ~(z \in b.lb + b.al .. b.ub - b.au)
    BY <1>1, <1>2, <1>9
  <2> QED
    BY <1>1, <1>2, <1>3, <1>5, <2>3, <2>6, <2>7, <2>8, <2>9, Zenon
<1>10. CASE ~(y < lb + al) /\ y > ub - au
  <2>1. PICK d \in Nat : d = -up /\ d < 2 * au
    BY <1>1, <1>2, <1>4, <1>10
  <2>2. PICK d2 \in Nat : d2 = al * up * up /\ d2 = al * (d * d) /\ d2 < g * au
    <3>1. d * d < (2 * au) * (2 * au) /\ d * d \in Nat /\ (2 * au) * (2 * au) \in Nat
      <4>1. 2 * au \in Nat
        BY <1>1
      <4> QED
        BY <2>1, <4>1, SquareBelow
    <3>2. al * (d * d) < al * ((2 * au) * (2 * au))
      <4>1. PICK s \in Int, t \in Int : s = d * d /\ t = (2 * au) * (2 * au) /\ s < t
        BY <3>1
      <4>2. al * s < al * t
        BY <1>1, <4>1, StrictlyMonotone
      <4> QED
        BY <4>1, <4>2
    <3>3. al * ((2 * au) * (2 * au)) = g * au
      BY <1>1, <1>3, Squares
    <3>4. up = -d
      BY <1>4, <2>1
    <3>5. al * (d * d) = al * up * up /\ al * (d * d) \in Nat
      BY <1>1, <3>1, <3>4
    <3> QED
      BY <3>2, <3>3, <3>5
  <2>3. f = g * ub - d2 /\ f \in Int /\ f > g * (ub - au) /\ ~(f < g * (lb + al))
    BY <1>6, <1>8, <1>10, <2>2
  <2>4. AbsOf(f - g * ub) = d2
    BY <1>8, <2>2, <2>3 DEF AbsOf
  <2>5. d2 \div al = d * d
    <3>1. d * d \in Int
      BY <2>1
    <3> QED
      BY <1>1, <2>2, <3>1, Times
  <2>6. ToInternalRepresentation(b, f) = ub + au - d
    BY <1>7, <2>1, <2>3, <2>4, <2>5, RootIs
  <2>7. ub + au - d = y
    BY <1>1, <1>2, <1>4, <2>1
  <2>8. g * lb <= f /\ f <= g * ub
    BY <1>8, <2>2, <2>3
  <2>9. ~(z \in b.lb + b.al .. b.ub - b.au)
    BY <1>1, <1>2, <1>10
  <2> QED
    BY <1>1, <1>2, <1>3, <1>5, <2>3, <2>6, <2>7, <2>8, <2>9, Zenon
<1>11. CASE ~(y < lb + al) /\ ~(y > ub - au)
  <2>1. f = g * y /\ f \in Int
    BY <1>2, <1>3, <1>6, <1>11
  <2>2. g * (lb + al) <= f /\ f <= g * (ub - au) /\ g * lb <= f /\ f <= g * ub
    <3>1. lb + al \in Int /\ ub - au \in Int /\ lb + al <= y /\ y <= ub - au
      BY <1>1, <1>2, <1>11
    <3>2. g * (lb + al) <= g * y /\ g * y <= g * (ub - au)
      BY <1>2, <3>1, Monotone
    <3> QED
      BY <1>8, <2>1, <3>2
  <2>3. ToInternalRepresentation(b, f) = y
    <3>1. f \div g = y
      BY <1>2, <1>3, <2>1, Times
    <3>2. ~(f < g * (lb + al)) /\ ~(f > g * (ub - au))
      BY <1>1, <1>3, <2>1, <2>2
    <3> QED
      BY <1>7, <3>1, <3>2
  <2>4. z \in b.lb + b.al .. b.ub - b.au => f = g * z
    BY <1>1, <1>2, <2>1
  <2> QED
    BY <1>1, <1>2, <1>3, <1>5, <2>1, <2>2, <2>3, <2>4, Zenon
<1> QED
  BY <1>9, <1>10, <1>11

-----------------------------------------------------------------------------
(* The converters.                                                           *)

ToF(c, z) == ToFRepresentation(c.bounds, z)

\* Without bounds the representation is the grain.
LEMMA FreeIs ==
  ASSUME NEW z \in Int
  PROVE  /\ ToFRepresentation(NoBound, z) = 4 * z /\ Grain(NoBound) = 4
         /\ ToInternalRepresentation(NoBound, 4 * z) = z
         /\ NoBound.bounded = FALSE
<1>1. Grain(NoBound) = 4 /\ NoBound.bounded = FALSE
  BY DEF Grain, NoBound
<1>2. ToFRepresentation(NoBound, z) = 4 * z
  BY <1>1, Zenon DEF ToFRepresentation
<1>3. ToInternalRepresentation(NoBound, 4 * z) = (4 * z) \div 4
  BY <1>1, Zenon DEF ToInternalRepresentation
<1> QED
  BY <1>1, <1>2, <1>3, Times

\* With or without bounds: back and forth.
LEMMA Returns ==
  ASSUME NEW c, Fits(c), NEW z \in Int
  PROVE  /\ ToF(c, z) \in Int /\ Grain(c.bounds) \in Nat \ {0}
         /\ ToInternalRepresentation(c.bounds, ToF(c, z)) \in Int
         /\ ToF(c, ToInternalRepresentation(c.bounds, ToF(c, z))) = ToF(c, z)
<1>1. CASE c.bounds = NoBound
  <2>1. PICK f \in Int : f = 4 * z
    OBVIOUS
  <2>2. ToF(c, z) = f /\ Grain(c.bounds) = 4 /\ ToInternalRepresentation(c.bounds, f) = z
    BY <1>1, <2>1, FreeIs DEF ToF
  <2> QED
    BY <2>1, <2>2
<1>2. CASE Pwq(c.bounds)
  <2>1. PICK b : b = c.bounds /\ Pwq(b)
    BY <1>2
  <2>2. PICK y : y = ShiftIntoFeasible(b, z)
    OBVIOUS
  <2>3. y \in b.lb - b.al .. b.ub + b.au /\ y \in Int /\ b.bounded
    <3>1. y \in b.lb - b.al .. b.ub + b.au
      BY <2>1, <2>2, ShiftIs
    <3> QED
      BY <2>1, <3>1 DEF Pwq
  <2>4. ShiftIntoFeasible(b, y) = y
    BY <2>1, <2>3, ShiftIs
  <2>5. ToFRepresentation(b, y) = ToFRepresentation(b, z)
    BY <2>2, <2>3, <2>4, Zenon DEF ToFRepresentation
  <2>6. /\ ToFRepresentation(b, z) \in Int /\ Grain(b) \in Nat \ {0}
        /\ ToInternalRepresentation(b, ToFRepresentation(b, z)) = y
    BY <2>1, <2>2, ToFIs
  <2> QED
    BY <2>1, <2>3, <2>5, <2>6 DEF ToF
<1> QED
  BY <1>1, <1>2 DEF Fits

Custom(c, z) == IF c.custom THEN z + CUSTOM ELSE z

\* pheno() of a number.
LEMMA PhenoIs ==
  ASSUME NEW c, Fits(c), NEW z \in Int
  PROVE  /\ Custom(c, z) \in Int
         /\ Pheno(c, z) \in Int
         /\ Pheno(c, z) = Grain(c.bounds) * c.scaling.off + c.scaling.w * ToF(c, Custom(c, z))
<1>1. Custom(c, z) \in Int
  BY GenoPhenoAssumption DEF Custom
<1>2. PICK f \in Int : f = ToF(c, Custom(c, z))
  BY <1>1, Returns
<1>3. PICK g \in Nat, o \in Int, w \in Nat :
        /\ g = Grain(c.bounds) /\ o = c.scaling.off /\ w = c.scaling.w
        /\ c.scaling.id => w = 1 /\ o = 0
  BY Returns DEF Fits
<1>4. Pheno(c, z) = IF c.scaling.id THEN f ELSE g * o + w * f
  BY <1>2, <1>3, Zenon DEF Pheno, ScaleToF, ToF, Custom
<1>5. c.scaling.id => g * o + w * f = f
  BY <1>3
<1>6. g * o + w * f \in Int
  OBVIOUS
<1>7. Pheno(c, z) = g * o + w * f
  BY <1>4, <1>5
<1> QED
  BY <1>1, <1>2, <1>3, <1>6, <1>7

\* geno() takes a phenotype to a genotype of it, if it returns what genof wrote.
LEMMA GenoReturns ==
  ASSUME NEW c, Fits(c), NEW z \in Int, NEW back \in Geno(c, Pheno(c, z))
  PROVE  back \in Int /\ (~Unfilled(c) => Pheno(c, back) = Pheno(c, z))
<1>0. CASE Unfilled(c)
  <2>1. back \in Garbage
    BY <1>0, Zenon DEF Geno
  <2> QED
    BY <1>0, <2>1, GenoPhenoAssumption
<1>1. Custom(c, z) \in Int
  BY PhenoIs
<1>2. PICK f \in Int : f = ToF(c, Custom(c, z))
  BY <1>1, Returns
<1>3. PICK g \in Nat, o \in Int, w \in Nat \ {0} :
        /\ g = Grain(c.bounds) /\ o = c.scaling.off /\ w = c.scaling.w
        /\ c.scaling.id => w = 1 /\ o = 0
  BY Returns DEF Fits
<1>4. PICK y \in Int : y = Pheno(c, z) /\ y = g * o + w * f
  BY <1>2, <1>3, PhenoIs
<1>5. (y - g * o) \div w = f
  <2>1. y - g * o = w * f
    BY <1>3, <1>4
  <2> QED
    BY <2>1, Times
<1>6. (IF c.scaling.id THEN y ELSE ScaleToInternal(c.scaling, y, g)) = f
  <2>1. ScaleToInternal(c.scaling, y, g) = (y - g * o) \div w
    BY <1>3, Zenon DEF ScaleToInternal
  <2>2. c.scaling.id => y = f
    BY <1>3, <1>4
  <2> QED
    BY <1>5, <2>1, <2>2
<1>7. PICK i \in Int : i = ToInternalRepresentation(c.bounds, f) /\ ToF(c, i) = f
  BY <1>1, <1>2, Returns
<1>8. ~Unfilled(c) => back = IF c.custom THEN i - CUSTOM ELSE i
  <2> SUFFICES ASSUME ~Unfilled(c) PROVE back = IF c.custom THEN i - CUSTOM ELSE i
    OBVIOUS
  <2>1. Geno(c, y) = {IF c.custom THEN i - CUSTOM ELSE i}
    BY <1>3, <1>6, <1>7, Zenon DEF Geno
  <2> QED
    BY <1>4, <2>1
<1>9. ~Unfilled(c) => back \in Int /\ Custom(c, back) = i
  <2>1. CUSTOM \in Int
    BY GenoPhenoAssumption
  <2> QED
    BY <1>8, <2>1 DEF Custom
<1>10. ~Unfilled(c) => Pheno(c, back) = g * o + w * f
  BY <1>3, <1>7, <1>9, PhenoIs
<1> QED
  BY <1>0, <1>4, <1>9, <1>10

\* What is evaluated lies inside the bounds.
LEMMA Inside ==
  ASSUME NEW c, Fits(c), NEW z \in Int, c.bounds.bounded
  PROVE  /\ Grain(c.bounds) * c.box[1] <= Pheno(c, z)
         /\ Pheno(c, z) <= Grain(c.bounds) * c.box[2]
<1>1. /\ Pwq(c.bounds)
      /\ c.scaling.off + c.scaling.w * c.bounds.lb = c.box[1]
      /\ c.scaling.off + c.scaling.w * c.bounds.ub = c.box[2]
  BY FreeIs DEF Fits
<1>2. PICK b : b = c.bounds
  OBVIOUS
<1>3. Custom(c, z) \in Int
  BY PhenoIs
<1>4. PICK g \in Nat \ {0}, f \in Int :
        /\ g = Grain(b) /\ f = ToF(c, Custom(c, z)) /\ g * b.lb <= f /\ f <= g * b.ub
  BY <1>1, <1>2, <1>3, ToFIs DEF ToF
<1>5. PICK o \in Int, w \in Nat \ {0}, lb \in Int, ub \in Int :
        /\ o = c.scaling.off /\ w = c.scaling.w /\ lb = b.lb /\ ub = b.ub
  BY <1>1, <1>2 DEF Fits, Pwq
<1>6. Pheno(c, z) = g * o + w * f
  BY <1>2, <1>4, <1>5, PhenoIs
<1>7. c.box[1] = o + w * lb /\ c.box[2] = o + w * ub
  BY <1>1, <1>2, <1>5
<1>8. ASSUME NEW v \in Int
      PROVE  g * (o + w * v) = g * o + w * (g * v)
  OBVIOUS
<1>9. w * (g * lb) <= w * f /\ w * f <= w * (g * ub)
  <2>1. g * lb \in Int /\ g * ub \in Int /\ g * lb <= f /\ f <= g * ub
    BY <1>4, <1>5
  <2> QED
    BY <1>5, <2>1, Monotone
<1>10. g * o + w * (g * lb) <= g * o + w * f /\ g * o + w * f <= g * o + w * (g * ub)
  BY <1>9
<1>11. g * (o + w * lb) = g * o + w * (g * lb) /\ g * (o + w * ub) = g * o + w * (g * ub)
  BY <1>8
<1> QED
  BY <1>2, <1>4, <1>6, <1>7, <1>10, <1>11

\* Away from the bounds the scaled point is evaluated as it was given.
LEMMA StartIs ==
  ASSUME NEW c, Fits(c), ~c.custom, NEW x0 \in Int, (x0 - c.scaling.off) % c.scaling.w = 0
  PROVE  /\ InitialMean(c, x0) \in Int
         /\ \/ Pheno(c, InitialMean(c, x0)) = Grain(c.bounds) * x0
            \/ /\ c.bounds.bounded
               /\ ~(InitialMean(c, x0) \in c.bounds.lb + c.bounds.al .. c.bounds.ub - c.bounds.au)
<1>1. PICK g \in Nat, o \in Int, w \in Nat \ {0} :
        /\ g = Grain(c.bounds) /\ o = c.scaling.off /\ w = c.scaling.w
        /\ c.scaling.id => w = 1 /\ o = 0
  BY Returns DEF Fits
<1>2. PICK z \in Int : z = InitialMean(c, x0) /\ x0 = o + w * z
  <2>1. InitialMean(c, x0) = IF c.scaling.id THEN x0 ELSE (x0 - 1 * o) \div w
    BY <1>1, Zenon DEF InitialMean, ScaleToInternal
  <2>2. PICK q \in Int : q = (x0 - o) \div w /\ x0 - o = w * q
    <3>1. (x0 - o) % w = 0 /\ x0 - o \in Int
      BY <1>1
    <3>2. PICK a \in Int : a = x0 - o /\ a % w = 0
      BY <3>1
    <3> QED
      BY <3>2, Divides
  <2>3. 1 * o = o
    OBVIOUS
  <2>4. x0 = o + w * q
    BY <2>2
  <2>5. ASSUME c.scaling.id PROVE q = x0
    <3>1. w = 1 /\ o = 0
      BY <1>1, <2>5
    <3> QED
      BY <2>2, <3>1
  <2> QED
    BY <2>1, <2>2, <2>3, <2>4, <2>5
<1>3. Custom(c, z) = z
  BY DEF Custom
<1>4. Pheno(c, z) = g * o + w * ToF(c, z)
  BY <1>1, <1>3, PhenoIs
<1>5. ASSUME ToF(c, z) = g * z PROVE Pheno(c, z) = g * x0
  <2>1. g * o + w * (g * z) = g * (o + w * z)
    OBVIOUS
  <2> QED
    BY <1>2, <1>4, <1>5, <2>1
<1>6. CASE c.bounds = NoBound
  BY <1>1, <1>2, <1>5, <1>6, FreeIs DEF ToF
<1>7. CASE Pwq(c.bounds)
  <2>1. z \in c.bounds.lb + c.bounds.al .. c.bounds.ub - c.bounds.au => ToF(c, z) = g * z
    BY <1>1, <1>7, ToFIs DEF ToF
  <2> QED
    BY <1>1, <1>2, <1>5, <1>7, <2>1 DEF Pwq
<1> QED
  BY <1>6, <1>7 DEF Fits

-----------------------------------------------------------------------------
(* What the constructors make.                                               *)

LEMMA Quarters ==
  ASSUME NEW a \in Int, a % 4 = 0
  PROVE  \E q \in Int : a = 4 * q
OBVIOUS

LEMMA PwqBoundsAre ==
  ASSUME NEW lb \in Int, NEW h \in Int, h >= 1
  PROVE  Pwq(PwqBounds(lb, lb + 2 * h)) /\ PwqBounds(lb, lb + 2 * h).lb = lb
         /\ PwqBounds(lb, lb + 2 * h).ub = lb + 2 * h
<1>1. PICK ub \in Int : ub = lb + 2 * h
  OBVIOUS
<1>2. (ub - lb) \div 2 = h
  BY <1>1
<1>3. PICK t1 \in Nat, t2 \in Nat :
        /\ t1 = (UNIT + AbsOf(lb)) \div 20 /\ t1 # 0
        /\ t2 = (UNIT + AbsOf(ub)) \div 20 /\ t2 # 0
  <2>1. UNIT \in Nat /\ UNIT >= 20
    BY GenoPhenoAssumption
  <2>2. AbsOf(lb) \in Nat /\ AbsOf(ub) \in Nat
    BY DEF AbsOf
  <2>3. \A n \in Nat : (UNIT + n) \div 20 \in Nat /\ (UNIT + n) \div 20 # 0
    BY <2>1
  <2> QED
    BY <2>2, <2>3
<1>4. PICK al, au : al = Lesser(h, t1) /\ au = Lesser(h, t2)
  OBVIOUS
<1>5. al \in Nat \ {0} /\ au \in Nat \ {0} /\ al <= h /\ au <= h
  BY <1>3, <1>4 DEF Lesser
<1>6. PICK b : b = PwqBounds(lb, ub)
  OBVIOUS
<1>7. b = [bounded |-> TRUE, lb |-> lb, ub |-> ub, al |-> al, au |-> au]
  BY <1>2, <1>3, <1>4, <1>6, Zenon DEF PwqBounds
<1>8. b.bounded = TRUE /\ b.lb = lb /\ b.ub = ub /\ b.al = al /\ b.au = au
  BY <1>7
<1>9. al + au <= ub - lb /\ 2 * ((ub - lb) \div 2) = ub - lb
  BY <1>1, <1>2, <1>5
<1>10. Pwq(b)
  BY <1>5, <1>8, <1>9 DEF Pwq
<1> QED
  BY <1>1, <1>6, <1>8, <1>10

LEMMA ConverterFits ==
  ASSUME NEW kind \in {"none", "linear", "vector", "pwq", "pwq_linear", "pwq_vector"},
         NEW custom \in BOOLEAN, NEW box \in Int \X Int,
         box[1] % 4 = 0, box[2] % 4 = 0, box[1] < box[2],
         kind \in {"linear", "pwq_linear"} => (box[2] - box[1]) % (INTMAX - INTMIN) = 0
  PROVE  Fits(Converter(kind, custom, box))
<1>1. PICK l \in Int, u \in Int : l = box[1] /\ u = box[2] /\ l < u /\ l % 4 = 0 /\ u % 4 = 0
  OBVIOUS
<1>2. PICK ql \in Int, h \in Int : l = 4 * ql /\ u = l + 4 * h /\ h >= 1
  <2>1. PICK ql \in Int, qu \in Int : l = 4 * ql /\ u = 4 * qu
    BY <1>1, Quarters
  <2>2. u = l + 4 * (qu - ql) /\ qu - ql \in Int /\ qu - ql >= 1
    BY <1>1, <2>1
  <2> QED
    BY <2>1, <2>2
<1>3. PICK i \in Nat \ {0} : i = INTMAX /\ i = 10 * UNIT /\ INTMIN = 0 /\ INTMAX - INTMIN = i
  BY GenoPhenoAssumption DEF INTMAX, INTMIN
<1>4. PICK c : c = Converter(kind, custom, box)
  OBVIOUS
<1>5. PICK scaling : scaling = CASE kind \in {"linear", "pwq_linear"} -> ComputeScaling(box)
                   [] kind \in {"vector", "pwq_vector"} -> ScalingVector
                   [] OTHER -> Identity
  OBVIOUS
<1>6. PICK b : b = CASE kind = "pwq" -> PwqBounds(box[1], box[2])
                  [] kind = "pwq_linear" -> PwqBounds(INTMIN, INTMAX)
                  [] kind = "pwq_vector" ->
                       PwqBounds(ScaleToInternal(scaling, box[1], 1),
                                 ScaleToInternal(scaling, box[2], 1))
                  [] OTHER -> NoBound
  OBVIOUS
<1>7. c = [scaling |-> scaling, bounds |-> b, custom |-> custom, box |-> box]
  BY <1>4, <1>5, <1>6, Zenon DEF Converter
<1>8. c.scaling = scaling /\ c.bounds = b /\ c.custom = custom /\ c.box = box
  BY <1>7
<1>9. SUFFICES
        /\ scaling.id \in BOOLEAN /\ scaling.w \in Nat \ {0} /\ scaling.off \in Int
        /\ scaling.id => scaling.w = 1 /\ scaling.off = 0
        /\ \/ b = NoBound
           \/ Pwq(b) /\ scaling.off + scaling.w * b.lb = l /\ scaling.off + scaling.w * b.ub = u
  BY <1>1, <1>4, <1>8 DEF Fits
<1>10. CASE kind \in {"none", "pwq"}
  <2>1. scaling = Identity
    BY <1>5, <1>10
  <2>2. scaling.id = TRUE /\ scaling.w = 1 /\ scaling.off = 0
    BY <2>1 DEF Identity
  <2>3. kind = "none" => b = NoBound
    BY <1>6
  <2>4. ASSUME kind = "pwq"
        PROVE  Pwq(b) /\ scaling.off + scaling.w * b.lb = l /\ scaling.off + scaling.w * b.ub = u
    <3>1. b = PwqBounds(l, u)
      BY <1>1, <1>6, <2>4
    <3>2. u = l + 2 * (2 * h) /\ 2 * h \in Int /\ 2 * h >= 1
      BY <1>2
    <3>3. Pwq(b) /\ b.lb = l /\ b.ub = u
      BY <3>1, <3>2, PwqBoundsAre
    <3> QED
      BY <2>2, <3>3
  <2>9. /\ scaling.id \in BOOLEAN /\ scaling.w \in Nat \ {0} /\ scaling.off \in Int
        /\ scaling.id => scaling.w = 1 /\ scaling.off = 0
    <3>1. scaling.id \in BOOLEAN
      BY <2>2
    <3>2. scaling.w \in Nat \ {0} /\ scaling.off \in Int
      BY <2>2
    <3>3. scaling.id => scaling.w = 1 /\ scaling.off = 0
      BY <2>2
    <3> QED
      BY <3>1, <3>2, <3>3
  <2>10. \/ b = NoBound
         \/ Pwq(b) /\ scaling.off + scaling.w * b.lb = l /\ scaling.off + scaling.w * b.ub = u
    BY <1>10, <2>3, <2>4, Zenon
  <2> QED
    BY <2>9, <2>10, Zenon
<1>11. CASE kind \in {"linear", "pwq_linear"}
  <2>1. scaling = ComputeScaling(box)
    BY <1>5, <1>11
  <2>2. PICK w \in Int : w = (u - l) \div i /\ u - l = w * i /\ w >= 1
    <3>1. (u - l) % i = 0 /\ u - l \in Int /\ u - l > 0
      BY <1>1, <1>3, <1>11
    <3>2. PICK w \in Int : w = (u - l) \div i /\ u - l = w * i
      <4>1. PICK a \in Int : a = u - l /\ a % i = 0
        BY <3>1
      <4>2. i \in Nat \ {0}
        BY <1>3
      <4> QED
        BY <4>1, <4>2, Divides
    <3>3. w >= 1
      BY <3>1, <3>2
    <3> QED
      BY <3>2, <3>3
  <2>3. scaling = [w |-> w, off |-> u - w * i, id |-> FALSE]
    BY <1>1, <1>3, <2>1, <2>2, Zenon DEF ComputeScaling
  <2>4. PICK o \in Int : o = u - w * i /\ o = l
    BY <2>2
  <2>5. scaling.id = FALSE /\ scaling.w = w /\ scaling.off = o
    BY <2>3, <2>4
  <2>6. kind = "linear" => b = NoBound
    BY <1>6
  <2>7. ASSUME kind = "pwq_linear"
        PROVE  Pwq(b) /\ scaling.off + scaling.w * b.lb = l /\ scaling.off + scaling.w * b.ub = u
    <3>1. b = PwqBounds(0, i)
      BY <1>3, <1>6, <2>7
    <3>2. PICK j \in Int : j >= 1 /\ i = 0 + 2 * j
      <4>1. i = 0 + 2 * (5 * UNIT) /\ 5 * UNIT \in Int /\ 5 * UNIT >= 1
        BY <1>3, GenoPhenoAssumption
      <4> QED
        BY <4>1
    <3>3. Pwq(b) /\ b.lb = 0 /\ b.ub = i
      BY <3>1, <3>2, PwqBoundsAre
    <3>4. o + w * 0 = l /\ o + w * i = u
      BY <2>2, <2>4
    <3> QED
      BY <2>5, <3>3, <3>4
  <2>9. /\ scaling.id \in BOOLEAN /\ scaling.w \in Nat \ {0} /\ scaling.off \in Int
        /\ scaling.id => scaling.w = 1 /\ scaling.off = 0
    <3>1. scaling.id \in BOOLEAN
      BY <2>5
    <3>2. scaling.w \in Nat \ {0} /\ scaling.off \in Int
      BY <2>2, <2>5
    <3>3. scaling.id => scaling.w = 1 /\ scaling.off = 0
      BY <2>5
    <3> QED
      BY <3>1, <3>2, <3>3
  <2>10. \/ b = NoBound
         \/ Pwq(b) /\ scaling.off + scaling.w * b.lb = l /\ scaling.off + scaling.w * b.ub = u
    BY <1>11, <2>6, <2>7, Zenon
  <2> QED
    BY <2>9, <2>10, Zenon
<1>12. CASE kind \in {"vector", "pwq_vector"}
  <2>1. scaling = ScalingVector
    BY <1>5, <1>12
  <2>2. PICK o \in Int : o = -2 * UNIT
    BY GenoPhenoAssumption
  <2>3. scaling = [w |-> 2, off |-> o, id |-> FALSE]
    BY <2>1, <2>2, Zenon DEF ScalingVector
  <2>4. scaling.id = FALSE /\ scaling.w = 2 /\ scaling.off = o
    BY <2>3
  <2>5. kind = "vector" => b = NoBound
    BY <1>6
  <2>6. ASSUME kind = "pwq_vector"
        PROVE  Pwq(b) /\ scaling.off + scaling.w * b.lb = l /\ scaling.off + scaling.w * b.ub = u
    <3>1. PICK m \in Int : m = (l - 1 * o) \div 2 /\ o + 2 * m = l
      <4>1. l - 1 * o = 2 * (2 * ql + UNIT) /\ 2 * ql + UNIT \in Int
        BY <1>2, <2>2, GenoPhenoAssumption
      <4>2. (l - 1 * o) \div 2 = 2 * ql + UNIT
        BY <4>1, Times
      <4>3. o + 2 * (2 * ql + UNIT) = l
        BY <1>2, <2>2, GenoPhenoAssumption
      <4> QED
        BY <4>1, <4>2, <4>3
    <3>2. PICK n \in Int : n = (u - 1 * o) \div 2 /\ o + 2 * n = u /\ n = m + 2 * h
      <4>1. u - 1 * o = 2 * (m + 2 * h) /\ m + 2 * h \in Int
        BY <1>2, <3>1
      <4>2. (u - 1 * o) \div 2 = m + 2 * h
        BY <4>1, Times
      <4>3. o + 2 * (m + 2 * h) = u
        BY <1>2, <3>1
      <4> QED
        BY <4>1, <4>2, <4>3
    <3>3. b = PwqBounds(ScaleToInternal(scaling, box[1], 1), ScaleToInternal(scaling, box[2], 1))
      BY <1>6, <2>6
    <3>4. ScaleToInternal(scaling, box[1], 1) = m /\ ScaleToInternal(scaling, box[2], 1) = n
      BY <1>1, <2>4, <3>1, <3>2, Zenon DEF ScaleToInternal
    <3>5. b = PwqBounds(m, m + 2 * h)
      BY <3>2, <3>3, <3>4
    <3>6. Pwq(b) /\ b.lb = m /\ b.ub = n
      BY <1>2, <3>2, <3>5, PwqBoundsAre
    <3> QED
      BY <2>4, <3>1, <3>2, <3>6
  <2>9. /\ scaling.id \in BOOLEAN /\ scaling.w \in Nat \ {0} /\ scaling.off \in Int
        /\ scaling.id => scaling.w = 1 /\ scaling.off = 0
    <3>1. scaling.id \in BOOLEAN
      BY <2>4
    <3>2. scaling.w \in Nat \ {0} /\ scaling.off \in Int
      BY <2>4
    <3>3. scaling.id => scaling.w = 1 /\ scaling.off = 0
      BY <2>4
    <3> QED
      BY <3>1, <3>2, <3>3
  <2>10. \/ b = NoBound
         \/ Pwq(b) /\ scaling.off + scaling.w * b.lb = l /\ scaling.off + scaling.w * b.ub = u
    BY <1>12, <2>5, <2>6, Zenon
  <2> QED
    BY <2>9, <2>10, Zenon
<1> QED
  BY <1>10, <1>11, <1>12

-----------------------------------------------------------------------------
(* The invariant.                                                            *)

Kinds == {"none", "linear", "vector", "pwq", "pwq_linear", "pwq_vector"}
AllBoxes == UNION {{boxes[d] : d \in DOMAIN boxes} : boxes \in Boxes}

Converters ==
  {c \in {Converter(k[1], k[2], k[3]) : k \in Kinds \X BOOLEAN \X AllBoxes} : Fits(c)}

\* What the two removals leave: of every parameter searched its own converter, but
\* of the one behind the second fixed parameter that parameter's.
Places ==
  /\ held \in Seq(DOMAIN gp) /\ kept \in Seq(DOMAIN gp) /\ Len(kept) <= Len(held)
  /\ \A d \in DOMAIN kept :
       \/ held[d] = kept[d]
       \/ held[d] = kept[d] - 1 /\ FollowsFixed(kept[d])
  /\ Len(kept) = Len(gp) =>
       Len(held) = Len(gp) /\ \A d \in DOMAIN gp : held[d] = d /\ kept[d] = d

GpInv ==
  /\ gp \in Seq(Converters) /\ Places
  /\ gppc \in {"mean", "started", "sampled", "evaluated"} =>
       coord \in [dim : DOMAIN kept, x0 : Int, x : Int, y : Int]
  /\ gppc \in {"mean", "started"} =>
       /\ coord.x = InitialMean(Searched(coord.dim), coord.x0)
       /\ (coord.x0 - Searched(coord.dim).scaling.off) % Searched(coord.dim).scaling.w = 0
  /\ gppc \in {"started", "evaluated"} => coord.y = Pheno(Searched(coord.dim), coord.x)
  /\ pinned # <<>> =>
       /\ gppc \in {"sampled", "evaluated"}
       /\ ~Unfilled(Searched(coord.dim)) => pinned[1] = Pheno(Searched(coord.dim), coord.x)

LEMMA GpInit == GenoPhenoInit => GpInv
BY DEF GenoPhenoInit, GpInv, Places

\* The converter of a dimension that is searched.
LEMMA SearchedFits ==
  ASSUME GpInv, NEW d \in DOMAIN kept
  PROVE  /\ d \in DOMAIN held /\ held[d] \in DOMAIN gp /\ kept[d] \in DOMAIN gp
         /\ Searched(d) \in Converters /\ Fits(Searched(d))
<1>1. d \in DOMAIN held /\ held[d] \in DOMAIN gp /\ kept[d] \in DOMAIN gp
  BY DEF GpInv, Places
<1>2. gp[held[d]] \in Converters
  BY <1>1 DEF GpInv
<1> QED
  BY <1>1, <1>2 DEF Searched, Converters

LEMMA GpMeansWell == GpInv => EvaluatedAsMeant /\ StartsAtX0
<1> SUFFICES ASSUME GpInv PROVE EvaluatedAsMeant /\ StartsAtX0
  OBVIOUS
<1>1. ASSUME gppc \in {"started", "evaluated"}
      PROVE  /\ coord.dim \in DOMAIN kept /\ Fits(Searched(coord.dim))
             /\ coord.x \in Int /\ coord.x0 \in Int
             /\ coord.y = Pheno(Searched(coord.dim), coord.x)
  <2>1. coord.dim \in DOMAIN kept /\ coord.x \in Int /\ coord.x0 \in Int
    BY <1>1 DEF GpInv
  <2>2. coord.y = Pheno(Searched(coord.dim), coord.x)
    BY <1>1, Zenon DEF GpInv
  <2> QED
    BY <2>1, <2>2, SearchedFits
<1>2. EvaluatedAsMeant
  <2> SUFFICES ASSUME gppc \in {"started", "evaluated"} PROVE EvaluatedAsMeant
    BY DEF EvaluatedAsMeant
  <2>1. PICK c : c = Searched(coord.dim)
    OBVIOUS
  <2>2. PICK z \in Int : z = coord.x
    BY <1>1
  <2>3. PICK own : own = kept[coord.dim]
    OBVIOUS
  <2>4. Fits(c) /\ coord.y = Pheno(c, z)
    BY <1>1, <2>1, <2>2
  <2>5. c.bounds.bounded => InBox(c.bounds, c.box, coord.y)
    BY <2>4, Inside DEF InBox
  <2>6. c = gp[own] \/ (c = gp[own - 1] /\ FollowsFixed(own))
    BY <1>1, <2>1, <2>3 DEF GpInv, Places, Searched
  <2>7. c.bounds.bounded =>
          \/ InBox(c.bounds, gp[own].box, coord.y)
          \/ FollowsFixed(own) /\ InBox(c.bounds, gp[own - 1].box, coord.y)
    BY <2>5, <2>6, Zenon
  <2>8. pinned # <<>> /\ ~Unfilled(c) => coord.y = pinned[1]
    BY <2>1, <2>2, <2>4 DEF GpInv
  <2> QED
    BY <2>1, <2>3, <2>7, <2>8, Zenon DEF EvaluatedAsMeant
<1>3. StartsAtX0
  <2> SUFFICES ASSUME gppc = "started", ~Searched(coord.dim).custom PROVE StartsAtX0
    BY DEF StartsAtX0
  <2>1. PICK c : c = Searched(coord.dim)
    OBVIOUS
  <2>2. PICK x0 \in Int : x0 = coord.x0
    BY <1>1
  <2>3. Fits(c) /\ coord.y = Pheno(c, coord.x) /\ ~c.custom
    BY <1>1, <2>1
  <2>4. coord.x = InitialMean(c, x0) /\ (x0 - c.scaling.off) % c.scaling.w = 0
    BY <2>1, <2>2 DEF GpInv
  <2>5. \/ Pheno(c, InitialMean(c, x0)) = Grain(c.bounds) * x0
        \/ /\ c.bounds.bounded
           /\ ~(InitialMean(c, x0) \in c.bounds.lb + c.bounds.al .. c.bounds.ub - c.bounds.au)
    BY <2>3, <2>4, StartIs
  <2>6. \/ coord.y = Grain(c.bounds) * x0
        \/ /\ c.bounds.bounded
           /\ ~(coord.x \in c.bounds.lb + c.bounds.al .. c.bounds.ub - c.bounds.au)
    BY <2>3, <2>4, <2>5, Zenon
  <2> QED
    BY <2>1, <2>2, <2>6, Zenon DEF StartsAtX0
<1> QED
  BY <1>2, <1>3

-----------------------------------------------------------------------------
(* Removing elements.                                                        *)

\* What removeElement() leaves of a vector, for an index inside it.
LEMMA RemovedIs ==
  ASSUME NEW S, NEW s \in Seq(S), NEW k \in 1 .. Len(s)
  PROVE  /\ RemoveElement(s, k) \in Seq(S) /\ Len(RemoveElement(s, k)) = Len(s) - 1
         /\ \A i \in 1 .. Len(s) - 1 :
              /\ i < k => RemoveElement(s, k)[i] = s[i]
              /\ i >= k => RemoveElement(s, k)[i] = s[i + 1]
<1>1. PICK front, back : front = SubSeq(s, 1, k - 1) /\ back = SubSeq(s, k + 1, Len(s))
  OBVIOUS
<1>2. RemoveElement(s, k) = front \o back
  <2>1. ~(k > Len(s))
    OBVIOUS
  <2> QED
    BY <1>1, <2>1, Zenon DEF RemoveElement, RemoveAt
<1>3. /\ front \in Seq(S) /\ Len(front) = k - 1
      /\ \A i \in 1 .. k - 1 : front[i] = s[i]
  BY <1>1
<1>4. /\ back \in Seq(S) /\ Len(back) = Len(s) - k
      /\ \A i \in 1 .. Len(s) - k : back[i] = s[i + k]
  BY <1>1
<1>5. front \o back \in Seq(S) /\ Len(front \o back) = Len(s) - 1
  BY <1>3, <1>4
<1>6. ASSUME NEW i \in 1 .. Len(s) - 1, i < k PROVE (front \o back)[i] = s[i]
  BY <1>3, <1>4, <1>6
<1>7. ASSUME NEW i \in 1 .. Len(s) - 1, i >= k PROVE (front \o back)[i] = s[i + 1]
  <2>1. (front \o back)[i] = back[i - (k - 1)]
    BY <1>3, <1>4, <1>7
  <2>2. i - (k - 1) \in 1 .. Len(s) - k /\ (i - (k - 1)) + k = i + 1
    BY <1>7
  <2> QED
    BY <1>4, <2>1, <2>2
<1> QED
  BY <1>2, <1>5, <1>6, <1>7

\* The identity without its element a.
LEMMA OneRemoved ==
  ASSUME NEW n \in Nat, NEW a \in 1 .. n, NEW s \in Seq(1 .. n), Len(s) = n,
         \A i \in 1 .. n : s[i] = i
  PROVE  /\ RemoveElement(s, a) \in Seq(1 .. n) /\ Len(RemoveElement(s, a)) = n - 1
         /\ \A i \in 1 .. n - 1 :
              /\ i < a => RemoveElement(s, a)[i] = i
              /\ i >= a => RemoveElement(s, a)[i] = i + 1
<1>1. /\ RemoveElement(s, a) \in Seq(1 .. n) /\ Len(RemoveElement(s, a)) = n - 1
      /\ \A i \in 1 .. n - 1 :
           /\ i < a => RemoveElement(s, a)[i] = s[i]
           /\ i >= a => RemoveElement(s, a)[i] = s[i + 1]
  BY RemovedIs
<1> QED
  BY <1>1

Whole(s, n) == s \in Seq(1 .. n) /\ Len(s) = n /\ \A i \in 1 .. n : s[i] = i

HeldPlaces(hl, n, a, b) ==
  /\ hl \in Seq(1 .. n) /\ n - 2 <= Len(hl)
  /\ \A i \in 1 .. n - 2 :
       /\ i < a => hl[i] = i
       /\ i >= a /\ i < b => hl[i] = i + 1
       /\ i >= b => hl[i] = i + 2

KeptPlaces(kl, n, a, b) ==
  /\ kl \in Seq(1 .. n) /\ Len(kl) = n - 2
  /\ \A i \in 1 .. n - 2 :
       /\ i < a => kl[i] = i
       /\ i >= a /\ i < b - 1 => kl[i] = i + 1
       /\ i >= b - 1 => kl[i] = i + 2

\* And without what is at b after that, as the object of a contour is left.
LEMMA HeldWithoutTwo ==
  ASSUME NEW n \in Nat, NEW a \in 1 .. n, NEW b \in 1 .. n, a < b,
         NEW s, Whole(s, n), NEW hl, hl = RemoveElement(RemoveElement(s, a), b)
  PROVE  HeldPlaces(hl, n, a, b)
<1>1. PICK f : f = RemoveElement(s, a)
  OBVIOUS
<1>2. /\ f \in Seq(1 .. n) /\ Len(f) = n - 1
      /\ \A i \in 1 .. n - 1 : (i < a => f[i] = i) /\ (i >= a => f[i] = i + 1)
  <2>1. /\ RemoveElement(s, a) \in Seq(1 .. n) /\ Len(RemoveElement(s, a)) = n - 1
        /\ \A i \in 1 .. n - 1 :
             /\ i < a => RemoveElement(s, a)[i] = i
             /\ i >= a => RemoveElement(s, a)[i] = i + 1
    BY OneRemoved DEF Whole
  <2> QED
    BY <1>1, <2>1
<1>3. hl = RemoveElement(f, b)
  BY <1>1
<1>4. CASE b = n
  <2>1. b > Len(f)
    BY <1>2, <1>4
  <2>2. hl = f
    BY <1>3, <2>1, Zenon DEF RemoveElement
  <2> QED
    BY <1>2, <1>4, <2>2 DEF HeldPlaces
<1>5. CASE b < n
  <2>1. b \in 1 .. Len(f) /\ Len(f) - 1 = n - 2
    BY <1>2, <1>5
  <2>2. /\ hl \in Seq(1 .. n) /\ Len(hl) = n - 2
        /\ \A i \in 1 .. n - 2 : (i < b => hl[i] = f[i]) /\ (i >= b => hl[i] = f[i + 1])
    <3>1. /\ RemoveElement(f, b) \in Seq(1 .. n) /\ Len(RemoveElement(f, b)) = Len(f) - 1
          /\ \A i \in 1 .. Len(f) - 1 :
               /\ i < b => RemoveElement(f, b)[i] = f[i]
               /\ i >= b => RemoveElement(f, b)[i] = f[i + 1]
      BY <1>2, <2>1, RemovedIs
    <3> QED
      BY <1>3, <2>1, <3>1
  <2>3. ASSUME NEW i \in 1 .. n - 2
        PROVE  /\ i < a => hl[i] = i
               /\ i >= a /\ i < b => hl[i] = i + 1
               /\ i >= b => hl[i] = i + 2
    <3>1. i \in 1 .. n - 1 /\ i + 1 \in 1 .. n - 1
      OBVIOUS
    <3>2. /\ i < a => f[i] = i
          /\ i >= a => f[i] = i + 1
          /\ i + 1 >= a => f[i + 1] = i + 2
      <4>1. (i < a => f[i] = i) /\ (i >= a => f[i] = i + 1)
        BY <1>2, <3>1
      <4>2. i + 1 >= a => f[i + 1] = (i + 1) + 1
        BY <1>2, <3>1
      <4> QED
        BY <4>1, <4>2
    <3>3. (i < b => hl[i] = f[i]) /\ (i >= b => hl[i] = f[i + 1])
      BY <2>2
    <3> QED
      BY <3>2, <3>3
  <2> QED
    BY <2>2, <2>3 DEF HeldPlaces
<1> QED
  BY <1>4, <1>5

\* The identity without a and b, the greater removed first.
LEMMA KeptWithoutTwo ==
  ASSUME NEW n \in Nat, NEW a \in 1 .. n, NEW b \in 1 .. n, a < b,
         NEW s, Whole(s, n), NEW kl, kl = RemoveElement(RemoveElement(s, b), a)
  PROVE  KeptPlaces(kl, n, a, b)
<1>1. PICK g : g = RemoveElement(s, b)
  OBVIOUS
<1>2. /\ g \in Seq(1 .. n) /\ Len(g) = n - 1
      /\ \A i \in 1 .. n - 1 : (i < b => g[i] = i) /\ (i >= b => g[i] = i + 1)
  <2>1. /\ RemoveElement(s, b) \in Seq(1 .. n) /\ Len(RemoveElement(s, b)) = n - 1
        /\ \A i \in 1 .. n - 1 :
             /\ i < b => RemoveElement(s, b)[i] = i
             /\ i >= b => RemoveElement(s, b)[i] = i + 1
    BY OneRemoved DEF Whole
  <2> QED
    BY <1>1, <2>1
<1>3. kl = RemoveElement(g, a)
  BY <1>1
<1>4. a \in 1 .. Len(g) /\ Len(g) - 1 = n - 2
  BY <1>2
<1>5. /\ kl \in Seq(1 .. n) /\ Len(kl) = n - 2
      /\ \A i \in 1 .. n - 2 : (i < a => kl[i] = g[i]) /\ (i >= a => kl[i] = g[i + 1])
  <2>1. /\ RemoveElement(g, a) \in Seq(1 .. n) /\ Len(RemoveElement(g, a)) = Len(g) - 1
        /\ \A i \in 1 .. Len(g) - 1 :
             /\ i < a => RemoveElement(g, a)[i] = g[i]
             /\ i >= a => RemoveElement(g, a)[i] = g[i + 1]
    BY <1>2, <1>4, RemovedIs
  <2> QED
    BY <1>3, <1>4, <2>1
<1>6. ASSUME NEW i \in 1 .. n - 2
      PROVE  /\ i < a => kl[i] = i
             /\ i >= a /\ i < b - 1 => kl[i] = i + 1
             /\ i >= b - 1 => kl[i] = i + 2
  <2>1. i \in 1 .. n - 1 /\ i + 1 \in 1 .. n - 1
    OBVIOUS
  <2>2. /\ i < b => g[i] = i
        /\ i + 1 < b => g[i + 1] = i + 1
        /\ i + 1 >= b => g[i + 1] = i + 2
    <3>1. i < b => g[i] = i
      BY <1>2, <2>1
    <3>2. (i + 1 < b => g[i + 1] = i + 1) /\ (i + 1 >= b => g[i + 1] = (i + 1) + 1)
      BY <1>2, <2>1
    <3> QED
      BY <3>1, <3>2
  <2>3. (i < a => kl[i] = g[i]) /\ (i >= a => kl[i] = g[i + 1])
    BY <1>5
  <2> QED
    BY <2>2, <2>3
<1> QED
  BY <1>5, <1>6 DEF KeptPlaces

\* The places before a parameter is fixed.
LEMMA NoneFixed ==
  ASSUME GpInv, Len(kept) = Len(gp)
  PROVE  /\ gp \in Seq(Converters)
         /\ held = kept /\ Whole(held, Len(gp))
<1>1. gp \in Seq(Converters) /\ DOMAIN gp = 1 .. Len(gp) /\ Len(gp) \in Nat
  BY DEF GpInv
<1>2. Len(held) = Len(gp) /\ \A d \in DOMAIN gp : held[d] = d /\ kept[d] = d
  BY DEF GpInv, Places
<1>3. held \in Seq(1 .. Len(gp)) /\ kept \in Seq(1 .. Len(gp))
  BY <1>1 DEF GpInv, Places
<1>4. held = kept
  <2>1. PICK n \in Nat : n = Len(gp)
    BY <1>1
  <2>2. /\ held \in [1 .. n -> 1 .. n] /\ kept \in [1 .. n -> 1 .. n]
    BY <1>2, <1>3, <2>1
  <2>3. \A d \in 1 .. n : held[d] = kept[d]
    BY <1>1, <1>2, <2>1
  <2> QED
    BY <2>2, <2>3
<1> QED
  BY <1>1, <1>2, <1>3, <1>4 DEF Whole

\* The places of the problem without one parameter, and without two.
LEMMA OneFixed == ASSUME GpInv, FixOne PROVE Places'
<1>1. PICK n \in Nat : n = Len(gp) /\ n > 1
  BY DEF FixOne, GpInv
<1>2. PICK a \in DOMAIN gp :
        held' = RemoveElement(held, a) /\ kept' = RemoveElement(kept, a)
  BY DEF FixOne
<1>3. Len(kept) = Len(gp) /\ gp' = gp
  BY DEF FixOne
<1>4. /\ gp \in Seq(Converters) /\ DOMAIN gp = 1 .. n
      /\ held \in Seq(1 .. n) /\ held = kept /\ Len(held) = n
  BY <1>1, <1>3, NoneFixed DEF Whole
<1>5. PICK t : t = RemoveElement(held, a)
  OBVIOUS
<1>6. t \in Seq(1 .. n) /\ Len(t) = n - 1
  BY <1>4, <1>5, RemovedIs
<1>7. held' = t /\ kept' = t
  BY <1>2, <1>4, <1>5
<1>8. Len(gp') = n /\ DOMAIN gp' = 1 .. n
  BY <1>1, <1>3, <1>4
<1> QED
  BY <1>6, <1>7, <1>8 DEF Places

LEMMA TwoFixed == ASSUME GpInv, FixTwo PROVE Places'
<1>1. PICK n \in Nat : n = Len(gp) /\ n > 2
  BY DEF FixTwo, GpInv
<1>2. Len(kept) = Len(gp) /\ gp' = gp
  BY DEF FixTwo
<1>3. DOMAIN gp = 1 .. n /\ held = kept /\ Whole(held, n)
  BY <1>1, <1>2, NoneFixed
<1>4. PICK a \in 1 .. n, b \in 1 .. n :
        /\ a < b /\ held' = RemoveElement(RemoveElement(held, a), b)
        /\ kept' = RemoveElement(RemoveElement(held, b), a)
  BY <1>3 DEF FixTwo
<1>5. PICK hl, kl : hl = held' /\ kl = kept'
  OBVIOUS
<1>6. HeldPlaces(hl, n, a, b)
  BY <1>3, <1>4, <1>5, HeldWithoutTwo
<1>7. KeptPlaces(kl, n, a, b)
  BY <1>3, <1>4, <1>5, KeptWithoutTwo
<1>8. DOMAIN kl = 1 .. n - 2 /\ DOMAIN gp' = 1 .. n /\ Len(gp') = n
  BY <1>1, <1>2, <1>3, <1>7 DEF KeptPlaces
<1>9. ASSUME NEW d \in 1 .. n - 2, hl[d] # kl[d]
      PROVE  hl[d] = kl[d] - 1 /\ FollowsFixed(kept[d])'
  <2>1. d = b - 1 /\ hl[d] = b /\ kl[d] = b + 1 /\ b + 1 <= n
    <3>1. ~(d < a) /\ ~(d >= a /\ d < b - 1) /\ ~(d >= b)
      BY <1>6, <1>7, <1>9 DEF HeldPlaces, KeptPlaces
    <3>2. d \in Int /\ a \in Int /\ b \in Int /\ n \in Int /\ d <= n - 2 /\ a < b
      BY <1>1, <1>4, <1>9
    <3>3. d = b - 1
      BY <3>1, <3>2
    <3>4. d >= a /\ d < b /\ ~(d < b - 1) /\ b + 1 <= n
      BY <3>2, <3>3
    <3>5. hl[d] = d + 1
      BY <1>6, <1>9, <3>4 DEF HeldPlaces
    <3>6. kl[d] = d + 2
      BY <1>7, <1>9, <3>2, <3>3 DEF KeptPlaces
    <3> QED
      BY <3>2, <3>3, <3>4, <3>5, <3>6
  <2>2. \A i \in 1 .. n - 2 : kl[i] # b
    BY <1>4, <1>7 DEF KeptPlaces
  <2>3. ASSUME NEW q \in b + 1 .. n PROVE \E i \in 1 .. n - 2 : kl[i] = q
    <3>1. q - 2 \in 1 .. n - 2 /\ q - 2 >= b - 1
      BY <1>4, <2>3
    <3>2. kl[q - 2] = q
      BY <1>7, <3>1 DEF KeptPlaces
    <3> QED
      BY <3>1, <3>2
  <2>4. PICK p : p = kl[d]
    OBVIOUS
  <2>5. PICK whole : whole = {kl[i] : i \in DOMAIN kl}
    OBVIOUS
  <2>6. p = b + 1 /\ p - 1 = b
    BY <2>1, <2>4
  <2>7. b \in 1 .. n /\ b \notin whole
    BY <1>8, <2>2, <2>5
  <2>8. p .. n \subseteq whole
    BY <1>8, <2>3, <2>5, <2>6
  <2>9. FollowsFixed(kept[d])'
    BY <1>5, <1>7, <1>8, <2>4, <2>5, <2>6, <2>7, <2>8 DEF FollowsFixed, KeptPlaces
  <2> QED
    BY <2>1, <2>9
<1>10. ASSUME NEW d \in DOMAIN kept'
       PROVE  \/ held'[d] = kept'[d]
              \/ held'[d] = kept'[d] - 1 /\ FollowsFixed(kept[d])'
  <2>1. d \in 1 .. n - 2
    BY <1>5, <1>8
  <2> QED
    BY <1>5, <1>9, <2>1, Zenon
<1>11. /\ held' \in Seq(DOMAIN gp') /\ kept' \in Seq(DOMAIN gp') /\ Len(kept') <= Len(held')
       /\ Len(kept') # Len(gp')
  BY <1>5, <1>6, <1>7, <1>8 DEF HeldPlaces, KeptPlaces
<1> QED
  BY <1>10, <1>11 DEF Places

LEMMA GpNext == GpInv /\ [GenoPhenoNext]_gpVars => GpInv'
<1> SUFFICES ASSUME GpInv, [GenoPhenoNext]_gpVars PROVE GpInv'
  OBVIOUS
<1>0. ASSUME UNCHANGED <<gp, held, kept>>
      PROVE  /\ gp' \in Seq(Converters) /\ Places'
             /\ \A d : Searched(d)' = Searched(d)
  <2>1. gp' \in Seq(Converters)
    BY <1>0 DEF GpInv
  <2>2. \A d : Searched(d)' = Searched(d)
    BY <1>0 DEF Searched
  <2>3. \A p : FollowsFixed(p)' = FollowsFixed(p)
    BY <1>0 DEF FollowsFixed
  <2>4. Places'
    BY <1>0, <2>3 DEF GpInv, Places
  <2> QED
    BY <2>1, <2>2, <2>4
<1>1. CASE BuildGenoPheno
  <2>1. PICK kind \in Kinds, custom \in BOOLEAN, boxes \in Boxes :
          /\ (kind \in {"linear", "pwq_linear"} =>
                 \A d \in DOMAIN boxes : (boxes[d][2] - boxes[d][1]) % (INTMAX - INTMIN) = 0)
          /\ gp' = [d \in DOMAIN boxes |-> Converter(kind, custom, boxes[d])]
          /\ held' = [d \in DOMAIN boxes |-> d] /\ kept' = [d \in DOMAIN boxes |-> d]
    BY <1>1 DEF BuildGenoPheno, Kinds
  <2>2. /\ boxes \in Seq(Int \X Int)
        /\ \A d \in DOMAIN boxes : /\ boxes[d][1] % 4 = 0 /\ boxes[d][2] % 4 = 0
                                  /\ boxes[d][1] < boxes[d][2]
    BY GenoPhenoAssumption
  <2>3. ASSUME NEW d \in DOMAIN boxes PROVE Converter(kind, custom, boxes[d]) \in Converters
    <3>1. PICK box \in Int \X Int : box = boxes[d]
      BY <2>2
    <3>2. Fits(Converter(kind, custom, box))
      BY <2>1, <2>2, <3>1, ConverterFits DEF Kinds
    <3>3. box \in AllBoxes
      BY <3>1 DEF AllBoxes
    <3>4. PICK k \in Kinds \X BOOLEAN \X AllBoxes : k = <<kind, custom, box>>
      BY <3>3
    <3>5. Converter(kind, custom, box) = Converter(k[1], k[2], k[3])
      BY <3>4
    <3> QED
      BY <3>1, <3>2, <3>5, Zenon DEF Converters
  <2>4. gp' \in Seq(Converters)
    <3>1. DOMAIN boxes = 1 .. Len(boxes) /\ Len(boxes) \in Nat
      BY <2>2
    <3>2. gp' \in [1 .. Len(boxes) -> Converters]
      BY <2>1, <2>3, <3>1
    <3> QED
      BY <3>1, <3>2
  <2>5. gppc = "none" /\ gppc' = "built" /\ pinned' = pinned
    BY <1>1 DEF BuildGenoPheno
  <2>6. pinned = <<>>
    BY <2>5 DEF GpInv
  <2>7. Places'
    <3>1. PICK n \in Nat : DOMAIN boxes = 1 .. n /\ DOMAIN gp' = 1 .. n /\ Len(gp') = n
      BY <2>1, <2>2
    <3>2. kept' \in Seq(1 .. n) /\ Len(kept') = n /\ \A d \in 1 .. n : kept'[d] = d
      BY <2>1, <3>1
    <3>3. held' = kept'
      BY <2>1
    <3>4. held' \in Seq(DOMAIN gp') /\ kept' \in Seq(DOMAIN gp') /\ DOMAIN kept' = 1 .. n
      BY <3>1, <3>2, <3>3
    <3> QED
      BY <3>1, <3>2, <3>3, <3>4 DEF Places
  <2> QED
    BY <2>4, <2>5, <2>6, <2>7 DEF GpInv
<1>2. CASE StartMean
  <2>1. gppc = "built" /\ gppc' = "mean" /\ pinned' = pinned /\ UNCHANGED <<gp, held, kept>>
    BY <1>2 DEF StartMean
  <2>2. PICK d \in DOMAIN kept, x0 \in Starts :
       /\ (x0 - Searched(d).scaling.off) % Searched(d).scaling.w = 0
       /\ coord' = [dim |-> d, x0 |-> x0, x |-> InitialMean(Searched(d), x0), y |-> 0]
    BY <1>2, Zenon DEF StartMean
  <2>3. x0 \in Int
    BY GenoPhenoAssumption
  <2>4. PICK c : c = Searched(d) /\ Fits(c)
    BY SearchedFits
  <2>5. PICK z \in Int : z = InitialMean(c, x0)
    <3>1. PICK o \in Int, w \in Nat \ {0} : o = c.scaling.off /\ w = c.scaling.w
      BY <2>4 DEF Fits
    <3>2. InitialMean(c, x0) = IF c.scaling.id THEN x0 ELSE (x0 - 1 * o) \div w
      BY <3>1, Zenon DEF InitialMean, ScaleToInternal
    <3>3. (x0 - 1 * o) \div w \in Int
      BY <2>3, <3>1
    <3> QED
      BY <2>3, <3>2, <3>3
  <2>6. coord' = [dim |-> d, x0 |-> x0, x |-> z, y |-> 0]
    BY <2>2, <2>4, <2>5
  <2>7. /\ coord' \in [dim : DOMAIN kept', x0 : Int, x : Int, y : Int]
        /\ coord'.dim = d /\ coord'.x0 = x0 /\ coord'.x = z
    BY <2>1, <2>3, <2>6
  <2>8. pinned' = <<>>
    BY <2>1 DEF GpInv
  <2>9. Searched(coord.dim)' = c
    BY <1>0, <2>1, <2>4, <2>7 DEF Searched
  <2>10. /\ coord'.x = InitialMean(Searched(coord.dim)', coord'.x0)
         /\ (coord'.x0 - Searched(coord.dim)'.scaling.off) % Searched(coord.dim)'.scaling.w = 0
    BY <2>2, <2>4, <2>5, <2>7, <2>9
  <2> QED
    BY <1>0, <2>1, <2>7, <2>8, <2>10 DEF GpInv
<1>3. CASE SampleX
  <2>1. gppc = "built" /\ gppc' = "sampled" /\ pinned' = pinned /\ UNCHANGED <<gp, held, kept>>
    BY <1>3 DEF SampleX
  <2>2. PICK d \in DOMAIN kept, z \in Samples :
          coord' = [dim |-> d, x0 |-> 0, x |-> z, y |-> 0]
    BY <1>3, Zenon DEF SampleX
  <2>3. z \in Int
    BY GenoPhenoAssumption
  <2>4. coord' \in [dim : DOMAIN kept', x0 : Int, x : Int, y : Int]
    BY <2>1, <2>2, <2>3
  <2>5. pinned' = <<>>
    BY <2>1 DEF GpInv
  <2> QED
    BY <1>0, <2>1, <2>4, <2>5 DEF GpInv
<1>4. CASE EvaluatePheno
  <2>1. /\ gppc \in {"mean", "sampled"} /\ pinned' = pinned /\ UNCHANGED <<gp, held, kept>>
        /\ gppc' = (IF gppc = "mean" THEN "started" ELSE "evaluated")
        /\ coord' = [coord EXCEPT !.y = Pheno(Searched(coord.dim), coord.x)]
    BY <1>4 DEF EvaluatePheno
  <2>2. coord \in [dim : DOMAIN kept, x0 : Int, x : Int, y : Int]
    BY <2>1 DEF GpInv
  <2>3. PICK c : c = Searched(coord.dim) /\ Fits(c)
    BY <2>2, SearchedFits
  <2>4. PICK f \in Int : f = Pheno(c, coord.x)
    BY <2>2, <2>3, PhenoIs
  <2>5. /\ coord' \in [dim : DOMAIN kept', x0 : Int, x : Int, y : Int]
        /\ coord'.dim = coord.dim /\ coord'.x0 = coord.x0 /\ coord'.x = coord.x /\ coord'.y = f
    BY <2>1, <2>2, <2>3, <2>4
  <2>6. Searched(coord.dim)' = c
    BY <2>1, <2>3, <2>5 DEF Searched
  <2>7. coord'.y = Pheno(Searched(coord.dim)', coord'.x)
    BY <2>4, <2>5, <2>6
  <2>8. ASSUME gppc' \in {"mean", "started"}
        PROVE  /\ coord'.x = InitialMean(Searched(coord.dim)', coord'.x0)
               /\ (coord'.x0 - Searched(coord.dim)'.scaling.off) % Searched(coord.dim)'.scaling.w = 0
    <3>1. gppc = "mean"
      BY <2>1, <2>8
    <3> QED
      BY <2>3, <2>5, <2>6, <3>1 DEF GpInv
  <2>9. pinned' # <<>> =>
          /\ gppc' \in {"sampled", "evaluated"}
          /\ ~Unfilled(Searched(coord.dim)') => pinned'[1] = Pheno(Searched(coord.dim)', coord'.x)
    BY <2>1, <2>3, <2>5, <2>6 DEF GpInv
  <2>10. Unfilled(Searched(coord.dim))' = Unfilled(Searched(coord.dim)')
    BY DEF Unfilled
  <2> QED
    BY <1>0, <2>1, <2>5, <2>7, <2>8, <2>9, <2>10 DEF GpInv
<1>5. CASE PinBack
  <2>1. /\ gppc = "evaluated" /\ gppc' = "sampled" /\ UNCHANGED <<gp, held, kept>>
        /\ Len(kept) = Len(gp) /\ pinned' = <<coord.y>>
    BY <1>5 DEF PinBack
  <2>2. PICK back \in Geno(gp[kept[coord.dim]], coord.y) : coord' = [coord EXCEPT !.x = back]
    BY <1>5 DEF PinBack
  <2>3. /\ coord \in [dim : DOMAIN kept, x0 : Int, x : Int, y : Int]
        /\ coord.y = Pheno(Searched(coord.dim), coord.x)
    BY <2>1 DEF GpInv
  <2>4. PICK c : c = Searched(coord.dim) /\ Fits(c)
    BY <2>3, SearchedFits
  <2>5. gp[kept[coord.dim]] = c
    <3>1. DOMAIN kept = DOMAIN gp
      BY <2>1 DEF GpInv, Places
    <3> QED
      BY <2>1, <2>3, <2>4, <3>1 DEF GpInv, Places, Searched
  <2>6. back \in Int /\ (~Unfilled(c) => Pheno(c, back) = coord.y)
    <3>1. PICK z \in Int : z = coord.x
      BY <2>3
    <3>2. coord.y = Pheno(c, z) /\ back \in Geno(c, Pheno(c, z))
      BY <2>2, <2>3, <2>4, <2>5, <3>1
    <3> QED
      BY <2>4, <3>1, <3>2, GenoReturns
  <2>7. /\ coord' \in [dim : DOMAIN kept', x0 : Int, x : Int, y : Int]
        /\ coord'.dim = coord.dim /\ coord'.x = back
    BY <2>1, <2>2, <2>3, <2>6
  <2>8. Searched(coord.dim)' = c
    BY <2>1, <2>4, <2>7 DEF Searched
  <2>9. ~Unfilled(Searched(coord.dim))' => pinned'[1] = Pheno(Searched(coord.dim)', coord'.x)
    <3>1. Unfilled(Searched(coord.dim))' = Unfilled(c)
      BY <2>8 DEF Unfilled
    <3> QED
      BY <2>1, <2>6, <2>7, <2>8, <3>1
  <2> QED
    BY <1>0, <2>1, <2>7, <2>9 DEF GpInv
<1>6. CASE FixOne
  <2>1. gppc = "built" /\ gppc' = gppc /\ pinned' = pinned /\ gp' = gp
    BY <1>6 DEF FixOne
  <2> QED
    BY <1>6, <2>1, OneFixed DEF GpInv
<1>7. CASE FixTwo
  <2>1. gppc = "built" /\ gppc' = gppc /\ pinned' = pinned /\ gp' = gp
    BY <1>7 DEF FixTwo
  <2> QED
    BY <1>7, <2>1, TwoFixed DEF GpInv
<1>8. CASE GenoPhenoReset
  <2>1. gppc' = "none" /\ gp' = <<>> /\ held' = <<>> /\ kept' = <<>> /\ pinned' = <<>>
    BY <1>8 DEF GenoPhenoReset
  <2> QED
    BY <2>1 DEF GpInv, Places
<1>9. CASE UNCHANGED gpVars
  <2>1. UNCHANGED <<gp, held, kept>> /\ UNCHANGED <<gppc, coord, pinned>>
    BY <1>9 DEF gpVars
  <2>2. Searched(coord.dim)' = Searched(coord.dim)
    BY <2>1 DEF Searched
  <2>3. Unfilled(Searched(coord.dim))' = Unfilled(Searched(coord.dim))
    BY <2>2 DEF Unfilled
  <2> QED
    BY <1>0, <2>1, <2>2, <2>3 DEF GpInv
<1> QED
  BY <1>1, <1>2, <1>3, <1>4, <1>5, <1>6, <1>7, <1>8, <1>9 DEF GenoPhenoNext

\* The invariant of one converter is kept by every call.
LEMMA GenoPhenoInvariance == GenoPhenoSpec => []GpInv
BY GpInit, GpNext, PTL DEF GenoPhenoSpec

\* The objective gets every parameter inside that parameter's own box, in the
\* user's scale, whichever one or two errstats removed, but the one behind the
\* second of a contour, which gets its predecessor's; and a value that geno() took
\* back is the value it was, where geno() returns what it computed (genopheno.h,
\* pheno(), geno() and remove_dimensions(), pwq_bound_strategy.cc).
THEOREM ObjectiveSeesTheBox == GenoPhenoSpec => []EvaluatedAsMeant
<1> QED
  BY GpMeansWell, GenoPhenoInvariance, PTL

\* The first mean is the x0 the user gave, away from the edge of the bounds
\* (cmastrategy.cc's constructor, genopheno.h).
THEOREM SearchStartsAtX0 == GenoPhenoSpec => []StartsAtX0
<1> QED
  BY GpMeansWell, GenoPhenoInvariance, PTL

-----------------------------------------------------------------------------
(* Together: whichever part is used, all keep what they promise.             *)

OptimizerInv ==
  ErrStatsInv /\ SpentInv /\ Captured /\ GenInv /\ FrontInv /\ SurrInv /\ Recording /\ GpInv

LEMMA RestartsStart == RestartsInit => SpentInv /\ Captured
<1>1. RestartsInit => SpentInv
  BY AtRest DEF RestartsInit
<1>2. RestartsInit => Captured
  BY DEF RestartsInit, Captured, Empty
<1> QED
  BY <1>1, <1>2

LEMMA OptimizerInitInv == OptimizerInit => OptimizerInv
<1> SUFFICES ASSUME OptimizerInit PROVE OptimizerInv
  OBVIOUS
<1>1. ErrStatsInit /\ RestartsInit /\ GenerationInit /\ FrontEndInit /\ SurrInit /\ GenoPhenoInit
  BY DEF OptimizerInit
<1> QED
  BY <1>1, ErrStatsInitInv, RestartsStart, GenInitInv, InitFront, InitSurr, InitRecording, GpInit
     DEF OptimizerInv

\* A part that rests keeps its invariant.
LEMMA PartsRest ==
  ASSUME OptimizerInv
  PROVE  /\ UNCHANGED ErrStatsVars => ErrStatsInv'
         /\ UNCHANGED restartVars => SpentInv' /\ Captured'
         /\ UNCHANGED genVars => GenInv'
         /\ UNCHANGED frontVars => FrontInv'
         /\ UNCHANGED surrVars => SurrInv' /\ Recording'
         /\ UNCHANGED gpVars => GpInv'
BY ErrStatsNextInv, NextSpent, NextCaptured, GenNextInv, NextFront, NextSurr, NextRecording, GpNext
   DEF OptimizerInv

LEMMA OptimizerNextInv == OptimizerInv /\ [OptimizerNext]_optimizerVars => OptimizerInv'
<1> SUFFICES ASSUME OptimizerInv, [OptimizerNext]_optimizerVars PROVE OptimizerInv'
  OBVIOUS
<1>1. CASE ErrStatsNext /\ UNCHANGED <<restartVars, genVars, frontVars, surrVars, gpVars>>
  <2>1. ErrStatsInv'
    BY <1>1, ErrStatsNextInv DEF OptimizerInv
  <2> QED
    BY <1>1, <2>1, PartsRest DEF OptimizerInv
<1>2. CASE RestartsNext /\ UNCHANGED <<ErrStatsVars, genVars, frontVars, surrVars, gpVars>>
  <2>1. SpentInv' /\ Captured'
    BY <1>2, NextSpent, NextCaptured DEF OptimizerInv
  <2> QED
    BY <1>2, <2>1, PartsRest DEF OptimizerInv
<1>3. CASE GenerationNext /\ UNCHANGED <<ErrStatsVars, restartVars, frontVars, surrVars, gpVars>>
  <2>1. GenInv'
    BY <1>3, GenNextInv DEF OptimizerInv
  <2> QED
    BY <1>3, <2>1, PartsRest DEF OptimizerInv
<1>4. CASE FrontEndNext /\ UNCHANGED <<ErrStatsVars, restartVars, genVars, surrVars, gpVars>>
  <2>1. FrontInv'
    BY <1>4, NextFront DEF OptimizerInv
  <2> QED
    BY <1>4, <2>1, PartsRest DEF OptimizerInv
<1>5. CASE SurrNext /\ UNCHANGED <<ErrStatsVars, restartVars, genVars, frontVars, gpVars>>
  <2>1. SurrInv' /\ Recording'
    BY <1>5, NextSurr, NextRecording DEF OptimizerInv
  <2> QED
    BY <1>5, <2>1, PartsRest DEF OptimizerInv
<1>6. CASE GenoPhenoNext /\ UNCHANGED <<ErrStatsVars, restartVars, genVars, frontVars, surrVars>>
  <2>1. GpInv'
    BY <1>6, GpNext DEF OptimizerInv
  <2> QED
    BY <1>6, <2>1, PartsRest DEF OptimizerInv
<1>7. CASE UNCHANGED optimizerVars
  <2>1. /\ UNCHANGED ErrStatsVars /\ UNCHANGED restartVars /\ UNCHANGED genVars
        /\ UNCHANGED frontVars /\ UNCHANGED surrVars /\ UNCHANGED gpVars
    BY <1>7 DEF optimizerVars
  <2> QED
    BY <2>1, PartsRest DEF OptimizerInv
<1> QED
  BY <1>1, <1>2, <1>3, <1>4, <1>5, <1>6, <1>7 DEF OptimizerNext

\* The invariants of the parts hold whichever of them a program uses.
THEOREM OptimizerInvariance == OptimizerSpec => []OptimizerInv
BY OptimizerInitInv, OptimizerNextInv, PTL DEF OptimizerSpec

\* Whichever part is used, the invariants of all of them hold as the runs
\* check them.
THEOREM OptimizerKeepsItsWord ==
  OptimizerSpec => /\ []BoundsFromSearches
                   /\ [](RestartBudget /\ BestRunKept)
                   /\ [](TpaRanksOwn /\ QuietRanking)
                   /\ [](RatesAsAsked /\ RepresentationFits)
                   /\ [](PreSelectsFresh /\ RecordsTrueBest)
                   /\ [](EvaluatedAsMeant /\ StartsAtX0)
<1>1. OptimizerInv => BoundsFromSearches
  BY DEF OptimizerInv, ErrStatsInv, PLInv
<1>2. OptimizerInv => RestartBudget /\ BestRunKept
  <2>1. Captured => BestRunKept
    BY DEF Captured, BestRunKept
  <2> QED
    BY <2>1 DEF OptimizerInv, SpentInv
<1>3. OptimizerInv => TpaRanksOwn /\ QuietRanking
  BY DEF OptimizerInv, GenInv
<1>4. OptimizerInv => RatesAsAsked /\ RepresentationFits
  BY FrontFits DEF OptimizerInv
<1>5. OptimizerInv => PreSelectsFresh /\ RecordsTrueBest
  BY SurrPromises DEF OptimizerInv
<1>6. OptimizerInv => EvaluatedAsMeant /\ StartsAtX0
  BY GpMeansWell DEF OptimizerInv
<1> QED
  BY <1>1, <1>2, <1>3, <1>4, <1>5, <1>6, OptimizerInvariance, PTL

\* A contour stays closed in a program that does more than draw it.
THEOREM OptimizerContour == OptimizerSpec => ContourGrows
<1>1. OptimizerInv /\ [OptimizerNext]_optimizerVars => [GrowStep]_contourVars
  BY ErrStatsGrows DEF OptimizerInv
<1> QED
  BY <1>1, OptimizerInvariance, PTL DEF OptimizerSpec, ContourGrows, GrowStep
=============================================================================
