---------------------------- MODULE MCCMAStrategy ----------------------------
(* Small instances of CMAStrategy: three function values, a history of two,
   budgets of a few populations.  TLC's cfg syntax has no negative numbers. *)
EXTENDS CMAStrategy

MCMaxIter == -1
MCTargets == {-1, 0}

\* An int nobody initialized: one value that asks for a restart after one
\* iteration, and one that does not.
MCUninit == {-2, 0}
=============================================================================
