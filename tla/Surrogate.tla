------------------------------ MODULE Surrogate ------------------------------
(***************************************************************************)
(* libcmaes/src/surrogatestrategy.{h,cc} with the strategy built on it in  *)
(* surrogates/rsvm_surr_strategy.hpp: a search whose candidates are in     *)
(* part ranked by a model that the search trains on what it evaluated.     *)
(*                                                                         *)
(* A candidate is its value and whether that value is the objective's or   *)
(* the model's; a point of the training set is whether its value is the    *)
(* objective's and the run it is of.  Of the model is kept whether it was  *)
(* ever trained and whether the training set still is the one it was       *)
(* trained on.  Restarts are those of IPOP: the solutions are fresh, the   *)
(* population doubled, the strategy object is the same.                    *)
(***************************************************************************)
EXTENDS Integers, Sequences, FiniteSets, SequencesExt

CONSTANTS
  SurrValues,    (* values of the objective, and of the model               *)
  SurrLambda,    (* the population of the first run                         *)
  SurrSizes,     (* what set_l may be given                                 *)
  LambdaPrimes,  (* what set_lambdaprime may be given                       *)
  NSteps,        (* what set_nsteps may be given                            *)
  PRESCALE,      (* prelambda over lambda: 50 in the code                   *)
  MAX_LIFE,      (* bound: an estimated lifelength, 21 in the code          *)
  MAX_GEN,       (* bound: iterations of a run                              *)
  MAX_RESTART    (* bound: restarts                                         *)

\* Draws without replacement end only if there is enough to draw; doubles have a
\* greatest value.
ASSUME SurrAssumption ==
  /\ SurrValues \subseteq Nat /\ \E v \in SurrValues : \A w \in SurrValues : w <= v
  /\ SurrLambda \in Nat \ {0, 1}
  /\ SurrSizes \subseteq Nat \ {0} /\ NSteps \subseteq Int \ {0}
  /\ LambdaPrimes \subseteq 0 .. SurrLambda
  /\ PRESCALE \in Nat \ {0} /\ MAX_LIFE \in Nat \ {0, 1}
  /\ MAX_GEN \in Nat \ {0} /\ MAX_RESTART \in Nat

VARIABLES
  spc,      (* "idle", "ask", "eval", "tell", "told"                        *)
  sopt,     (* the strategy, _exploit, _l, _lambdaprime, _lambda            *)
  srun,     (* history: the number of the run, from 0                       *)
  niter,    (* _niter                                                       *)
  nsteps,   (* _nsteps and _auto_nsteps                                     *)
  npop,     (* the columns of the matrix ask() returned                     *)
  cands,    (* _solutions._candidates                                       *)
  tset,     (* _tset                                                        *)
  model,    (* "none", "fresh": trained on _tset, "behind": on an older one *)
  testerr,  (* _smooth_test_err: "reset", "error" or "nan"                  *)
  ftarget,  (* the FTARGET criterion is active                              *)
  ranked    (* history: the model that ranked this generation, or "no"      *)

surrVars == <<spc, sopt, srun, niter, nsteps, npop, cands, tset, model, testerr,
              ftarget, ranked>>

MAXDOUBLE == 1 + CHOOSE v \in SurrValues : \A w \in SurrValues : w <= v

Lambda == sopt.lambda

SurrInit ==
  /\ spc = "idle" /\ srun = 0 /\ niter = 0 /\ npop = 0 /\ cands = <<>> /\ tset = <<>>
  /\ sopt = [strategy |-> "none", exploit |-> TRUE, l |-> 1, lambdaprime |-> 0,
              lambda |-> SurrLambda]
  /\ nsteps = [n |-> 1, auto |-> FALSE] /\ model = "none" /\ testerr = "reset"
  /\ ftarget = TRUE /\ ranked = "no"

\* The constructors and the setters.
SurrConstruct ==
  /\ spc = "idle" /\ sopt.strategy = "none"
  /\ \E l \in SurrSizes, exploit \in BOOLEAN :
       \/ \E n \in NSteps :
            /\ sopt' = [strategy |-> "simple", exploit |-> exploit, l |-> l, lambdaprime |-> 0,
                        lambda |-> SurrLambda]
            /\ nsteps' = [n |-> n, auto |-> n < 0]
       \/ \E lp \in LambdaPrimes :
            /\ sopt' = [strategy |-> "acm", exploit |-> exploit, l |-> l, lambdaprime |-> lp,
                        lambda |-> SurrLambda]
            /\ UNCHANGED nsteps
  /\ spc' = "ask"
  /\ UNCHANGED <<srun, niter, npop, cands, tset, model, testerr, ftarget, ranked>>

-----------------------------------------------------------------------------
(* The training set and the model.                                           *)

Full == Len(tset) >= sopt.l

\* add_to_training_set(), of one point after another: the oldest goes.
Added(set, points) ==
  LET all == set \o points
      over == Len(all) - sopt.l
  IN  IF over > 0 THEN SubSeq(all, over + 1, Len(all)) ELSE all

TsetPoint(c) == [true |-> c.true, run |-> srun]
Points(cs) == [i \in DOMAIN cs |-> TsetPoint(cs[i])]

\* The model keeps what it learnt, not the points it learnt it from.
Behind(m) == IF m = "none" THEN "none" ELSE "behind"

\* compute_error() and set_test_error(): the share of misranked pairs, and there
\* is no pair in a set of one: 0 * inf.  Smoothing never loses a NaN.
TestError(n) == IF n = 1 \/ testerr = "nan" THEN "nan" ELSE "error"

\* compute_lifelength(): max(1, floor(...)) + 1, of an error that may be anything.
Lifelengths == 2 .. MAX_LIFE

CandidateOf(v, true) == [f |-> v, true |-> true]

\* eostrat::eval(): every column by the objective.
TrueCandidates(n) == [1 .. n -> {CandidateOf(v, TRUE) : v \in SurrValues}]
Predicted(n) == [1 .. n -> {CandidateOf(v, FALSE) : v \in SurrValues}]

\* sort_candidates(): a stable sort by value.  A candidate goes where as many
\* come before it as are before it.
Ascending(cs) ==
  LET before(a, b) == cs[a].f < cs[b].f \/ (cs[a].f = cs[b].f /\ a < b)
      place(c) == 1 + Cardinality({d \in DOMAIN cs : before(d, c)})
  IN  [i \in DOMAIN cs |-> cs[CHOOSE c \in DOMAIN cs : place(c) = i]]

-----------------------------------------------------------------------------
(* ask().                                                                    *)

\* Mutant: a restart goes on with the training set of the run before.
AskKeepsSet == FALSE

\* "when starting or restarting, make sure the training set is reset."
ResetsSet == sopt.strategy = "acm" /\ niter = 0

SurrAsk ==
  /\ spc = "ask"
  /\ tset' = IF ResetsSet THEN <<>> ELSE tset
  /\ testerr' = IF ResetsSet THEN "reset" ELSE testerr
  /\ npop' = IF sopt.strategy = "acm" /\ sopt.exploit /\ Len(tset') >= sopt.l
               THEN PRESCALE * Lambda ELSE Lambda
  /\ model' = IF tset' = tset THEN model ELSE Behind(model)
  /\ spc' = "eval" /\ ranked' = "no"
  /\ UNCHANGED <<sopt, srun, niter, nsteps, cands, ftarget>>

-----------------------------------------------------------------------------
(* eval().                                                                   *)

\* The objective for every candidate, each added to the training set.
EvalTrue ==
  /\ cands' \in TrueCandidates(npop)
  /\ tset' = Added(tset, Points(cands'))
  /\ model' = Behind(model)
  /\ UNCHANGED ranked

\* _niter % _nsteps == 0, whose sign is of no matter: -1 until it is estimated.
OnStep == niter % (IF nsteps.n < 0 THEN -nsteps.n ELSE nsteps.n) = 0

SimpleExploits == sopt.exploit /\ ~OnStep /\ Full

SimpleEvalTrue ==
  /\ spc = "eval" /\ sopt.strategy = "simple" /\ ~SimpleExploits
  /\ ftarget' = TRUE
  /\ IF niter # 0 /\ Full
       THEN /\ testerr' = TestError(Len(cands))
            /\ IF nsteps.auto
                 THEN \E n \in Lifelengths : nsteps' = [nsteps EXCEPT !.n = n]
                 ELSE UNCHANGED nsteps
       ELSE UNCHANGED <<testerr, nsteps>>
  /\ EvalTrue
  /\ spc' = "tell"
  /\ UNCHANGED <<sopt, srun, niter, npop>>

\* The model for every candidate; an untrained one leaves the values alone.
SimpleEvalModel ==
  /\ spc = "eval" /\ sopt.strategy = "simple" /\ SimpleExploits
  /\ ftarget' = FALSE
  /\ IF model = "none" THEN UNCHANGED cands ELSE cands' \in Predicted(npop)
  /\ ranked' = model
  /\ spc' = "tell"
  /\ UNCHANGED <<sopt, srun, niter, nsteps, npop, tset, model, testerr>>

AcmEvalTrue ==
  /\ spc = "eval" /\ sopt.strategy = "acm" /\ ~(sopt.exploit /\ Full)
  /\ testerr' = IF niter # 0 /\ Full THEN TestError(Len(cands)) ELSE testerr
  /\ EvalTrue
  /\ spc' = "tell"
  /\ UNCHANGED <<sopt, srun, niter, nsteps, npop, ftarget>>

\* Mutant: what was not evaluated keeps the value the model gave it.
KeepsPrediction(c) == c

\* What was not evaluated goes behind what was, in the model's order.
Unevaluated(c) == CandidateOf(MAXDOUBLE, FALSE)

\* pre_selection_eval(): of the columns, ranked by the model, the first and others
\* drawn are kept; of these the first and others drawn are evaluated.  The kept
\* ones come in the model's order, so a stable sort breaks ties by rank.
PreSelected(kept, evaluated, value) ==
  Ascending([i \in 1 .. Len(kept) |->
               IF i \in evaluated THEN CandidateOf(value[i], TRUE) ELSE Unevaluated(kept[i])])

AcmEvalModel ==
  /\ spc = "eval" /\ sopt.strategy = "acm" /\ sopt.exploit /\ Full
  /\ Lambda <= npop
  /\ \E kept \in Predicted(Lambda), others \in SUBSET (2 .. Lambda) :
       /\ Cardinality(others) = (IF sopt.lambdaprime > 1 THEN sopt.lambdaprime - 1 ELSE 0)
       /\ kept = Ascending(kept)
       /\ \E value \in [{1} \cup others -> SurrValues] :
            cands' = PreSelected(kept, {1} \cup others, value)
       /\ tset' = Added(tset, [i \in 1 .. Cardinality(others) + 1 |-> TsetPoint(CandidateOf(0, TRUE))])
       /\ testerr' = TestError(Cardinality(others) + 1)
  /\ ranked' = model
  /\ model' = Behind(model)
  /\ spc' = "tell"
  /\ UNCHANGED <<sopt, srun, niter, nsteps, npop, ftarget>>

-----------------------------------------------------------------------------
(* tell(), do_train() and the loop around.                                   *)

DoTrain ==
  /\ Full
  /\ \/ sopt.strategy = "acm"
     \/ ~sopt.exploit
     \/ niter = 0 \/ OnStep

\* CMAStrategy::tell() sorts; the ACM's sorts unless the set is full by now.
TellSorts == sopt.strategy = "simple" \/ ~sopt.exploit \/ ~Full

SurrTell ==
  /\ spc = "tell"
  /\ cands' = IF TellSorts THEN Ascending(cands) ELSE cands
  /\ model' = IF DoTrain THEN "fresh" ELSE model
  /\ spc' = "told"
  /\ UNCHANGED <<sopt, srun, niter, nsteps, npop, tset, testerr, ftarget, ranked>>

SurrIterate ==
  /\ spc = "told" /\ niter + 1 < MAX_GEN
  /\ niter' = niter + 1 /\ spc' = "ask"
  /\ UNCHANGED <<sopt, srun, nsteps, npop, cands, tset, model, testerr, ftarget, ranked>>

\* The run stops.  A restart has fresh candidates and a doubled population.
SurrRestart ==
  /\ spc = "told" /\ srun < MAX_RESTART
  /\ srun' = srun + 1 /\ niter' = 0 /\ spc' = "ask"
  /\ cands' = [i \in 1 .. 2 * Lambda |-> CandidateOf(MAXDOUBLE, FALSE)]
  /\ sopt' = [sopt EXCEPT !.lambda = 2 * @]
  /\ UNCHANGED <<nsteps, npop, tset, model, testerr, ftarget, ranked>>

SurrReturns ==
  /\ spc = "told"
  /\ spc' = "idle"
  /\ UNCHANGED <<sopt, srun, niter, nsteps, npop, cands, tset, model, testerr, ftarget, ranked>>

SurrNext ==
  \/ SurrConstruct \/ SurrAsk
  \/ SimpleEvalTrue \/ SimpleEvalModel \/ AcmEvalTrue \/ AcmEvalModel
  \/ SurrTell \/ SurrIterate \/ SurrRestart \/ SurrReturns

SurrSpec == SurrInit /\ [][SurrNext]_surrVars

-----------------------------------------------------------------------------
\* When the ACM strategy pre-selects, its model was trained on the training set as it
\* is, and every point of that set was evaluated, by the objective, in this run: what
\* ask() does after a restart and tell() after each generation sees to it.
PreSelectsFresh ==
  (spc = "tell" /\ sopt.strategy = "acm" /\ ranked # "no") =>
    /\ ranked = "fresh"
    /\ \A i \in DOMAIN tset : tset[i].true /\ tset[i].run = srun

\* What the ACM strategy records as a generation's best carries a value of the
\* objective, never one of the model's nor the mark of an unevaluated candidate.
RecordsTrueBest ==
  (spc = "told" /\ sopt.strategy = "acm") => Head(cands).true

\* "supposed candidates is sorted" (cmasolutions.cc:92): the candidates are, when
\* update_best_candidates() takes the first of them for the best.
SortedForUpdate ==
  spc = "told" => \A i \in 1 .. Len(cands) - 1 : cands[i].f <= cands[i + 1].f
=============================================================================
