------------------------------ MODULE Optimizer ------------------------------
(***************************************************************************)
(* The parts of libcmaes around the search loop of CMAStrategy, each with  *)
(* the choices of the others for its environment: what a program links and *)
(* calls.  A behaviour uses one part, whose calls do not nest with those   *)
(* of another; the others rest.                                            *)
(***************************************************************************)
EXTENDS Contour, Restarts, Generation, FrontEnd, Surrogate, GenoPheno

VARIABLE use    (* the part in use                                          *)

optimizerVars ==
  <<use, ErrStatsVars, restartVars, genVars, frontVars, surrVars, gpVars>>

FirstProblem == CHOOSE p \in [dim : Dims, minimum : Minima, zero : BOOLEAN] : TRUE

OptimizerInit ==
  /\ use \in {"error statistics", "restarts", "generation", "front end", "surrogate",
              "genotype"}
  /\ ErrStatsInit /\ (use # "error statistics" => problem = FirstProblem)
  /\ RestartsInit /\ GenerationInit /\ FrontEndInit /\ SurrInit /\ GenoPhenoInit

OptimizerNext ==
  /\ UNCHANGED use
  /\ \/ /\ use = "error statistics" /\ ErrStatsNext
        /\ UNCHANGED <<restartVars, genVars, frontVars, surrVars, gpVars>>
     \/ /\ use = "restarts" /\ RestartsNext
        /\ UNCHANGED <<ErrStatsVars, genVars, frontVars, surrVars, gpVars>>
     \/ /\ use = "generation" /\ GenerationNext
        /\ UNCHANGED <<ErrStatsVars, restartVars, frontVars, surrVars, gpVars>>
     \/ /\ use = "front end" /\ FrontEndNext
        /\ UNCHANGED <<ErrStatsVars, restartVars, genVars, surrVars, gpVars>>
     \/ /\ use = "surrogate" /\ SurrNext
        /\ UNCHANGED <<ErrStatsVars, restartVars, genVars, frontVars, gpVars>>
     \/ /\ use = "genotype" /\ GenoPhenoNext
        /\ UNCHANGED <<ErrStatsVars, restartVars, genVars, frontVars, surrVars>>

\* A call is sequential code and runs on.
OptimizerFairness == ErrStatsFairness /\ RestartsFairness

OptimizerSpec == OptimizerInit /\ [][OptimizerNext]_optimizerVars /\ OptimizerFairness

-----------------------------------------------------------------------------
\* What searches on its own returns: a profile likelihood, unless its parameter
\* is 0 at the minimum, and the restarts, unless small runs end without an
\* iteration time and again.
CallsReturn == ProfileReturns /\ RestartsEnd
=============================================================================
