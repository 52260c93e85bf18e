------------------------------- MODULE FrontEnd -------------------------------
(***************************************************************************)
(* libcmaes/src/cmaes.h, surrcmaes.h and esoptimizer.h: from a parameters  *)
(* object a user has filled in to a search under way, which algorithm it   *)
(* runs on which representation of the distribution, and what a restart    *)
(* changes of that.                                                        *)
(***************************************************************************)
EXTENDS CMAParameters

CONSTANTS
  MAX_CALLS   (* bound: calls of a user before and between the searches     *)

ASSUME FrontEndAssumption == MAX_CALLS \in Nat /\ IsFiniteSet(FREE)

VARIABLES
  fpc,      (* "setup", "search"                                            *)
  user,     (* the user's CMAParameters                                     *)
  calls,    (* calls made                                                   *)
  asked,    (* history: set_sep or set_vd was called with its flag set;     *)
            (* set_noisy came after one of them; or after a set_fixed_p     *)
  given,    (* the solution passed in: "none", or its representation        *)
  opt       (* the ESOptimizer: strategy, update, copy of the parameters,   *)
            (* solutions, callbacks, run                                    *)

frontVars == <<fpc, user, calls, asked, given, opt>>

NoOptimizer == [strategy |-> "none", update |-> "none", own |-> NewParameters,
                repr |-> {}, mean |-> "none", sign |-> 1, crit |-> "unset",
                plot |-> "default", surrogate |-> FALSE, from |-> FALSE, run |-> 0]
NothingAsked == [again |-> FALSE, wiped |-> FALSE, unfixed |-> FALSE]

FrontEndInit ==
  /\ fpc = "setup" /\ user = NewParameters /\ calls = 0
  /\ asked = NothingAsked /\ given = "none" /\ opt = NoOptimizer

-----------------------------------------------------------------------------
(* The user.                                                                 *)

Call(p) ==
  /\ fpc = "setup" /\ calls < MAX_CALLS
  /\ calls' = calls + 1 /\ user' = p
  /\ UNCHANGED <<fpc, given, opt>>

NoteSep == [asked EXCEPT !.again = (@ \/ user.sep)]
NoteVd  == [asked EXCEPT !.again = (@ \/ user.vd)]
NoteAlgo(a) ==
  IF a \in SepAlgos THEN NoteSep ELSE IF a \in VdAlgos THEN NoteVd ELSE asked

UserAlgo == \E a \in Algos : Call(SetAlgo(user, a)) /\ UNCHANGED asked
UserName ==
  \E a \in Algos : /\ Call(SetStrAlgo(user, a))
                   /\ asked' = NoteAlgo(a)
UserSep == Call(SetSep(user)) /\ asked' = NoteSep
UserVd == Call(SetVd(user)) /\ asked' = NoteVd
UserNoisy ==
  /\ Call(SetNoisy(user))
  /\ asked' = [asked EXCEPT !.wiped = (user.sep \/ user.vd),
                            !.unfixed = (user.fixed # {})]
UserTpa == \E b \in 0 .. 2 : Call(SetTpa(user, b)) /\ UNCHANGED asked
UserFixed ==
  \E k \in FREE : /\ \/ Call(SetFixedP(user, k)) \/ Call(UnsetFixedP(user, k))
                  /\ asked' = [asked EXCEPT !.unfixed = FALSE]
UserCriterion ==
  \E a \in {"on", "off"} :
    Call(SetStoppingCriteria(user, a)) /\ UNCHANGED asked
UserX0 == \E x0 \in {"point", "box"} : Call(SetX0(user, x0)) /\ UNCHANGED asked
UserOption ==
  \E o \in {"maximize", "full_fplot"} : Call(SetOption(user, o)) /\ UNCHANGED asked

User ==
  \/ UserAlgo \/ UserName \/ UserSep \/ UserVd \/ UserNoisy \/ UserTpa
  \/ UserFixed \/ UserCriterion \/ UserX0 \/ UserOption

-----------------------------------------------------------------------------
(* cmaes() and surrcmaes().                                                  *)

\* IPOP and BIPOP come second and third in each group of three codes.
StrategyOf(a) == CASE a % 3 = 0 -> "cma" [] a % 3 = 1 -> "ipop" [] a % 3 = 2 -> "bipop"

UpdateOf(a) ==
  IF a \in VdAlgos THEN "vd" ELSE IF (a \div 3) % 2 = 1 THEN "active" ELSE "plain"

\* Mutant: a vd search has a full covariance, too.
RepresentationBySep(p) == IF ~p.sep THEN {"cov"} ELSE {"sepcov"}

\* What CMASolutions(parameters) holds.
Representation(p) ==
  IF ~p.sep /\ ~p.vd THEN {"cov"} ELSE {"sepcov"} \cup (IF p.vd THEN {"v"} ELSE {})

Mean(p) == CASE p.x0 = "unset" -> "random" [] p.x0 = "point" -> "x0" [] p.x0 = "box" -> "box"

\* A strategy made from parameters alone.
Started(p, plot) ==
  [strategy |-> StrategyOf(p.algo), update |-> UpdateOf(p.algo), own |-> p,
   repr |-> Representation(p), mean |-> Mean(p),
   sign |-> IF "maximize" \in p.options THEN -1 ELSE 1,
   crit |-> p.crit,
   plot |-> IF plot /\ "full_fplot" \notin p.options THEN "user" ELSE "default",
   surrogate |-> FALSE, from |-> FALSE, run |-> 1]

\* And from a solution: the function is never negated, the criteria are all
\* on, and what there is of a distribution is the identity of its cov.
StartedFrom(p, plot) ==
  [Started(p, plot) EXCEPT !.own = SetX0(p, "point"), !.repr = {"cov"}, !.mean = "given",
                           !.sign = 1, !.crit = "unset", !.from = TRUE]

\* Four of the sep cases set no plot function on a search from a solution.
PlotForgotten(a) == a \in {8, 9, 10, 11}

\* Mutant: set_sep without a look at is_sep.
SepAgain(p) == SetSep(p)

IfNotSep(p) == IF p.sep THEN p ELSE SetSep(p)
IfNotVd(p)  == IF p.vd THEN p ELSE SetVd(p)

Begin(p, o) ==
  /\ fpc = "setup" /\ fpc' = "search"
  /\ user' = p /\ opt' = o
  /\ UNCHANGED calls

\* Full covariance.  A solution passed in has a cov unless its search was sep
\* or vd; it counts if it has a cov.
CmaesFull ==
  /\ user.algo \in Algos \ (SepAlgos \cup VdAlgos)
  /\ \E plot \in BOOLEAN, sol \in {"none", "cov", "sepcov"} :
       /\ given' = sol /\ UNCHANGED asked
       /\ Begin(user, IF sol = "cov" THEN StartedFrom(user, plot) ELSE Started(user, plot))

CmaesSep ==
  /\ user.algo \in SepAlgos
  /\ LET p == IfNotSep(user) IN
     \E plot \in BOOLEAN, sol \in {"none", "cov", "sepcov"} :
       /\ given' = sol /\ UNCHANGED asked
       /\ Begin(p, IF sol = "cov" THEN StartedFrom(p, plot /\ ~PlotForgotten(user.algo))
                                  ELSE Started(p, plot))

\* No solution is looked at.
CmaesVd ==
  /\ user.algo \in VdAlgos
  /\ LET p == IfNotVd(user) IN
     \E plot \in BOOLEAN, sol \in {"none", "cov", "sepcov"} :
       given' = sol /\ UNCHANGED asked /\ Begin(p, Started(p, plot))

\* set_sep or set_vd, whether or not it was called before.
Surrcmaes ==
  /\ LET p == IF user.algo \in SepAlgos THEN SetSep(user)
              ELSE IF user.algo \in VdAlgos THEN SetVd(user) ELSE user
     IN Begin(p, [Started(p, FALSE) EXCEPT !.surrogate = TRUE])
  /\ given' = "none" /\ asked' = NoteAlgo(user.algo)

\* lambda_inc() or r2(), and reset_search_state(), on the strategy's own copy.
SearchRestart ==
  /\ fpc = "search" /\ opt.strategy \in {"ipop", "bipop"} /\ opt.run = 1
  /\ LET p == InitializeParameters(opt.own) IN
     opt' = [opt EXCEPT !.own = p, !.repr = Representation(p), !.mean = Mean(p), !.run = 2]
  /\ UNCHANGED <<fpc, user, calls, asked, given>>

SearchReturns ==
  /\ fpc = "search"
  /\ fpc' = "setup" /\ opt' = NoOptimizer /\ given' = "none"
  /\ UNCHANGED <<user, calls, asked>>

FrontEndNext ==
  \/ User
  \/ CmaesFull \/ CmaesSep \/ CmaesVd \/ Surrcmaes \/ SearchRestart \/ SearchReturns

FrontEndSpec == FrontEndInit /\ [][FrontEndNext]_frontVars

-----------------------------------------------------------------------------
(* Properties.                                                               *)

\* The rate c1 fits the algorithm when a search by cmaes() starts, however
\* often the parameters are used again: scaled once for sep, once for vd -
\* unless the user called set_sep or set_vd with its flag set, called
\* set_noisy after them, which drops the rates and leaves the flags, or left
\* the flag of another algorithm set.  And chi counts the free dimensions,
\* unless set_noisy came after one was fixed.
LeftFlag == (opt.own.sep /\ opt.own.algo \notin SepAlgos)
            \/ (opt.own.vd /\ opt.own.algo \notin VdAlgos)

RatesAsAsked ==
  (fpc = "search" /\ ~opt.surrogate /\ opt.run = 1) =>
    /\ (~asked.again /\ ~asked.wiped /\ ~LeftFlag) =>
         /\ opt.own.derived.c1.sep = (IF opt.own.algo \in SepAlgos THEN 1 ELSE 0)
         /\ opt.own.derived.c1.vd = (IF opt.own.algo \in VdAlgos THEN 1 ELSE 0)
    /\ ~asked.unfixed => opt.own.derived.chi = Cardinality(opt.own.fixed)

\* What ask() reads of the distribution, and what the update reads.
Read ==
  Representation(opt.own)
    \cup (IF opt.update = "vd" THEN {"sepcov", "v"}
          ELSE IF opt.own.sep THEN {"sepcov"} ELSE {"cov"})

\* A search reads only what its solutions hold - unless a vd flag was left
\* set on another algorithm, whose update then has no covariance, or a sep
\* search starts from a solution: one that counts has a cov and no sepcov.
RepresentationFits ==
  (fpc = "search" /\ ~(opt.own.vd /\ opt.update # "vd")
     /\ ~(opt.own.sep /\ opt.from /\ opt.run = 1)) => Read \subseteq opt.repr
=============================================================================
