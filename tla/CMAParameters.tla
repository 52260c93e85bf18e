---------------------------- MODULE CMAParameters ----------------------------
(***************************************************************************)
(* libcmaes/src/cmaparameters.h/.cc and parameters.h: the parameters       *)
(* object a user fills in, and what each setter does to the quantities     *)
(* derived from the others.                                                *)
(*                                                                         *)
(* A derived quantity is how it was derived: how often c1 has been scaled  *)
(* and by which setter, for how many free dimensions chi and the lazy      *)
(* update were computed, which formula dsigma and csigma come from.        *)
(***************************************************************************)
EXTENDS Integers, FiniteSets

CONSTANTS
  FREE      (* the dimensions a user may fix                                *)

\* The codes of cmaes.h; is it a sep or a vd algorithm?
Algos == 0 .. 14
SepAlgos == 6 .. 11
VdAlgos == 12 .. 14

\* The table _algos: a name gives a code.  Codes 10 and 11 are entered under
\* the names of 7 and 8, which are in the map already.
NamedAlgos == Algos \ {10, 11}

Fresh == [sep |-> 0, vd |-> 0, noisy |-> 0]   \* scalings of c1

\* Bound: scalings are told apart up to the second.
Again(n) == IF n < 2 THEN n + 1 ELSE n

\* Constructor: initialize_parameters(), which derives everything anew.
Derived == [c1 |-> Fresh, csigma |-> "default", cc |-> "default",
            dsigma |-> "default", chi |-> 0, lazy |-> "default"]

\* tpa is 1 (auto) and every criterion active unless set.
NewParameters ==
  [algo |-> 0, sep |-> FALSE, vd |-> FALSE, tpa |-> 1, fives |-> 0, restarts |-> 9,
   fixed |-> {}, crit |-> "unset", x0 |-> "unset", options |-> {}, derived |-> Derived]

\* Everything derived is derived again; what setters did to it is gone.
InitializeParameters(p) == [p EXCEPT !.derived = Derived]

\* The population is five times as large.
SetNoisy(p) ==
  [InitializeParameters(p) EXCEPT !.fives = @ + 1, !.derived.c1.noisy = 1]

\* dsigma alone; 2 has a formula of its own.
SetTpa(p, b) ==
  [p EXCEPT !.tpa = b, !.derived.dsigma = IF b = 2 THEN "tpa" ELSE p.derived.csigma]

SetSep(p) ==
  [p EXCEPT !.sep = TRUE, !.derived.c1.sep = Again(@), !.derived.cc = "sep",
            !.derived.lazy = "sep"]

\* Without effect on another algorithm.
SetVd(p) ==
  IF p.algo \notin VdAlgos THEN p
  ELSE [p EXCEPT !.vd = TRUE, !.derived.c1.vd = Again(@), !.derived.csigma = "vd",
                 !.derived.dsigma = IF p.tpa = 0 THEN "vd" ELSE @]

\* The lazy update looks at the rates and at the free dimensions.
Refixed(p, f) ==
  [p EXCEPT !.fixed = f, !.derived.chi = Cardinality(f), !.derived.lazy = "fixed"]

\* insert: the value of a parameter fixed before stays what it was.
SetFixedP(p, k) == Refixed(p, p.fixed \cup {k})
UnsetFixedP(p, k) == Refixed(p, p.fixed \ {k})

SetAlgo(p, a) == [p EXCEPT !.algo = a]

\* A name with "sep" or "vd" in it also sets the flag, which a later
\* set_algo leaves set; an unknown name is logged and changes no algorithm.
SetStrAlgo(p, a) ==
  LET named == IF a \in NamedAlgos THEN [p EXCEPT !.algo = a] ELSE p IN
  IF a \in SepAlgos THEN SetSep(named)
  ELSE IF a \in VdAlgos THEN SetVd(named) ELSE named

\* insert: only the first setting of a criterion counts.
SetStoppingCriteria(p, active) ==
  [p EXCEPT !.crit = IF @ = "unset" THEN active ELSE @]

\* set_x0: one point, or a box to draw from.
SetX0(p, x0) == [p EXCEPT !.x0 = x0]

\* A plain setter.
SetOption(p, o) == [p EXCEPT !.options = @ \cup {o}]
=============================================================================
