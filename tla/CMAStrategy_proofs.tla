-------------------------- MODULE CMAStrategy_proofs --------------------------
(***************************************************************************)
(* Theorems about CMAStrategy, for every population size, set of function  *)
(* values, budget and history length, and whatever an uninitialized int    *)
(* holds: type correctness, NeverWorse, NoneLost, ReferenceKept, Budget.   *)
(*                                                                         *)
(* None of them is inductive.  What a reinjection puts into the population *)
(* is an earlier candidate, so NoneLost needs that every candidate kept    *)
(* was counted in `low` (Evaluated), that an active elitism has one to     *)
(* reinject (HasReference), and that a search without a best seen          *)
(* candidate is at its first iteration (FirstRound).  ReferenceKept needs  *)
(* how the flags exclude each other (FlagsAgree), and Budget what a run    *)
(* has spent by the iterations behind it (Spending).                       *)
(***************************************************************************)
EXTENDS CMAStrategy, SequenceTheorems, FiniteSetTheorems, WellFoundedInduction, TLAPS

\* An elitism that may reinject had x0 evaluated.
HasReference ==
  (Searching /\ (flags.elitist \/ flags.initial \/ flags.restarted))
    => (initial # NONE /\ best_seen # NONE)

\* The candidates kept have been evaluated.
Evaluated ==
  Searching => \A c \in {initial, best_seen} : c # NONE => (low # NONE /\ low <= c)

\* Without a best seen candidate, no population has been told yet.
FirstRound ==
  /\ pc = "configure" => niter = 0
  /\ (Searching /\ best_seen = NONE) => niter = 0

Inv == TypeOK /\ HasReference /\ Evaluated /\ FirstRound /\ NoneLost

-----------------------------------------------------------------------------
(* The operators.                                                            *)

LEMMA ValuesAreNat == VALUES \subseteq Nat /\ NONE \notin Nat /\ NONE \in Int
BY CMAAssumption DEF NONE

\* A set of naturals has a least element.
LEMMA LeastOf ==
  ASSUME NEW S \in SUBSET Nat, S # {}
  PROVE  Least(S) \in S /\ \A w \in S : Least(S) <= w
<1>1. PICK v \in S : \A w \in S : ~ (<<w, v>> \in OpToRel(<, Nat))
  BY NatLessThanWellFounded, WFMin, Zenon
<1>2. \A w \in S : ~ (w < v)
  BY <1>1 DEF OpToRel
<1>3. \A w \in S : v <= w
  BY <1>2
<1> QED
  BY <1>3 DEF Least

LEMMA PlusType ==
  ASSUME NEW n \in 0 .. CAP, NEW k \in Nat
  PROVE  Plus(n, k) \in 0 .. CAP
BY CMAAssumption DEF Plus, CAP

LEMMA CapType == CAP \in Nat
BY CMAAssumption DEF CAP

\* The history stays a window of function values.
LEMMA WindowType ==
  ASSUME NEW h \in Seq(VALUES), Len(h) <= MAX_HIST, NEW v \in VALUES
  PROVE  /\ Window(Append(h, v)) \in Seq(VALUES)
         /\ Len(Window(Append(h, v))) <= MAX_HIST
<1> DEFINE g == Append(h, v)
<1>1. g \in Seq(VALUES) /\ g # <<>> /\ Len(g) = Len(h) + 1 /\ Len(h) \in Nat
  BY AppendProperties, LenProperties
<1>2. Tail(g) \in Seq(VALUES) /\ Len(Tail(g)) = Len(g) - 1
  BY <1>1, HeadTailProperties
<1> HIDE DEF g
<1>3. Window(g) \in Seq(VALUES) /\ Len(Window(g)) <= MAX_HIST
  BY <1>1, <1>2, CMAAssumption DEF Window
<1> QED
  BY <1>3 DEF g

\* What is told of a population: evaluated values, or the reference.
LEMMA KeptValues ==
  ASSUME Inv, pc = "iterate", NEW pop \in [1 .. Lambda -> VALUES]
  PROVE  \A r \in 1 .. Lambda :
           /\ Reinjected(pop)[r] \in VALUES
           /\ \/ Reinjected(pop)[r] = pop[r]
              \/ Reinjecting /\ Reinjected(pop)[r] \in {initial, best_seen}
<1>1. Reinjecting => (initial \in VALUES /\ best_seen \in VALUES)
  BY DEF Inv, TypeOK, HasReference, Searching, Reinjecting
<1>2. Reference \in {initial, best_seen}
  BY DEF Reference
<1> QED
  BY <1>1, <1>2 DEF Reinjected

-----------------------------------------------------------------------------
(* One round.                                                                *)

\* The values told to the update, and all that have been evaluated by then.
Told(pop) == {Reinjected(pop)[r] : r \in 1 .. Lambda}
Seen(pop) == {pop[r] : r \in 1 .. Lambda} \cup ({low} \ {NONE})

LEMMA RoundSets ==
  ASSUME Inv, pc = "iterate", NEW pop \in [1 .. Lambda -> VALUES]
  PROVE  /\ Told(pop) \subseteq VALUES /\ Told(pop) # {}
         /\ Seen(pop) \subseteq VALUES /\ Seen(pop) # {}
<1>1. 1 \in 1 .. Lambda
  BY CMAAssumption
<1>2. Told(pop) \subseteq VALUES /\ Told(pop) # {}
  BY <1>1, KeptValues DEF Told
<1>3. low \in VALUES \cup {NONE}
  BY DEF Inv, TypeOK
<1>4. Seen(pop) \subseteq VALUES /\ Seen(pop) # {}
  BY <1>1, <1>3 DEF Seen
<1> QED
  BY <1>2, <1>4

\* Nothing told is better than the best of all that was evaluated.
LEMMA RoundLeast ==
  ASSUME Inv, pc = "iterate", NEW pop \in [1 .. Lambda -> VALUES]
  PROVE  /\ Least(Told(pop)) \in Told(pop) /\ Least(Told(pop)) \in VALUES
         /\ Least(Seen(pop)) \in Seen(pop) /\ Least(Seen(pop)) \in VALUES
         /\ \A w \in Told(pop) : Least(Told(pop)) <= w
         /\ \A w \in Seen(pop) : Least(Seen(pop)) <= w
         /\ \A w \in Told(pop) : Least(Seen(pop)) <= w
<1>1. /\ Told(pop) \in SUBSET Nat /\ Told(pop) # {}
      /\ Seen(pop) \in SUBSET Nat /\ Seen(pop) # {}
  BY RoundSets, ValuesAreNat
<1>2. /\ Least(Told(pop)) \in Told(pop)
      /\ Least(Seen(pop)) \in Seen(pop)
      /\ \A w \in Told(pop) : Least(Told(pop)) <= w
      /\ \A w \in Seen(pop) : Least(Seen(pop)) <= w
  BY <1>1, LeastOf
<1>3. ASSUME NEW w \in Told(pop)
      PROVE  Least(Seen(pop)) <= w
  <2>1. PICK r \in 1 .. Lambda : w = Reinjected(pop)[r]
    BY <1>3 DEF Told
  <2>2. w \in VALUES /\ (w = pop[r] \/ w \in {initial, best_seen})
    BY <2>1, KeptValues
  <2>3. CASE w = pop[r]
    BY <2>3, <1>2 DEF Seen
  <2>4. CASE w \in {initial, best_seen}
    <3>1. w # NONE /\ w \in Nat
      BY <2>2, ValuesAreNat
    <3>2. low # NONE /\ low <= w
      BY <3>1, <2>4 DEF Inv, Evaluated, Searching
    <3>3. low \in Seen(pop) /\ low \in Nat
      BY <3>2, ValuesAreNat DEF Seen, Inv, TypeOK
    <3>4. Least(Seen(pop)) <= low /\ Least(Seen(pop)) \in Nat
      BY <1>1, <1>2, <3>3
    <3> QED
      BY <3>1, <3>2, <3>3, <3>4
  <2> QED
    BY <2>2, <2>3, <2>4
<1> QED
  BY <1>1, <1>2, <1>3, RoundSets

LEMMA IterateRound ==
  ASSUME Iterate
  PROVE  \E pop \in [1 .. Lambda -> VALUES] :
           /\ UpdateBest(Least(Told(pop)))
           /\ low' = Least(Seen(pop))
           /\ lost' = (lost \/ (low' # low /\ low' \notin Told(pop)))
BY DEF Iterate, Told, Seen

-----------------------------------------------------------------------------
(* Type correctness.                                                         *)

LEMMA InitTypeOK == Init => TypeOK
<1> SUFFICES ASSUME Init PROVE TypeOK
  OBVIOUS
<1>1. lost \in BOOLEAN /\ wild \in BOOLEAN
  BY Zenon DEF Init
<1>2. hist \in Seq(VALUES) /\ Len(hist) <= MAX_HIST
  BY CMAAssumption DEF Init
<1>3. nevals \in 0 .. CAP /\ calls \in 0 .. CAP
  BY CapType DEF Init
<1>4. flags \in [elitist : BOOLEAN, initial : BOOLEAN, on_restart : BOOLEAN,
                 fvalue : BOOLEAN, restarted : BOOLEAN]
  BY DEF Init
<1> QED
  BY <1>1, <1>2, <1>3, <1>4 DEF Init, TypeOK

Codes == {-15, -13} \cup 0 .. 10

LEMMA VerdictsRange == Verdicts \subseteq Codes
<1>1. Certain \subseteq {1, 7, 8, 9, 10}
  <2>1. \A c \in Certain : c \in {1, 7, 8, 9, 10}
    BY SMT DEF Certain
  <2> QED BY <2>1
<1>2. Possible \subseteq {-15, -13, 2, 3, 4} \cup {5} \cup {6}
  BY Zenon DEF Possible
<1>3. Verdicts \subseteq Certain \cup Possible \cup {0}
  BY Zenon DEF Verdicts
<1>4. \A c \in {1, 7, 8, 9, 10} \cup {-15, -13, 2, 3, 4} \cup {5} \cup {6} \cup {0} :
        c \in Codes
  BY DEF Codes
<1> QED
  BY <1>1, <1>2, <1>3, <1>4, Zenon

LEMMA ConfigTypeOK ==
  ASSUME TypeOK,
         \/ \E e \in 0 .. 3 : SetElitism(e)
         \/ \E b \in BOOLEAN : SetInitialFvalue(b)
  PROVE  TypeOK'
<1>1. ASSUME NEW e \in 0 .. 3, SetElitism(e) PROVE TypeOK'
  BY <1>1 DEF TypeOK, SetElitism, ghosts
<1>2. ASSUME NEW b \in BOOLEAN, SetInitialFvalue(b) PROVE TypeOK'
  BY <1>2 DEF TypeOK, SetInitialFvalue, ghosts
<1> QED
  BY <1>1, <1>2

LEMMA OptimizeTypeOK == ASSUME TypeOK, Optimize PROVE TypeOK'
<1>1. PICK x0 \in VALUES : EvaluateX0(flags, x0) /\ low' = initial'
  BY DEF Optimize
<1>2. Plus(nevals, 1) \in 0 .. CAP /\ Plus(calls, 1) \in 0 .. CAP
  BY PlusType DEF TypeOK
<1> QED
  BY <1>1, <1>2 DEF TypeOK, Optimize, EvaluateX0, config

LEMMA StopTypeOK == ASSUME TypeOK, Stop PROVE TypeOK'
<1>1. run_status' \in {-15, -13} \cup 0 .. 10 /\ pc' \in {"end", "iterate"}
  BY VerdictsRange DEF TypeOK, Stop, Codes
<1> QED
  BY <1>1 DEF TypeOK, Stop, config, ghosts

LEMMA IterateTypeOK == ASSUME Inv, Iterate PROVE TypeOK'
<1>1. PICK pop \in [1 .. Lambda -> VALUES] :
        /\ UpdateBest(Least(Told(pop)))
        /\ low' = Least(Seen(pop))
        /\ lost' = (lost \/ (low' # low /\ low' \notin Told(pop)))
  BY IterateRound
<1>2. Least(Told(pop)) \in VALUES /\ low' \in VALUES
  BY <1>1, RoundLeast DEF Iterate
<1>3. hist' \in Seq(VALUES) /\ Len(hist') <= MAX_HIST
  BY <1>1, <1>2, WindowType DEF UpdateBest, Inv, TypeOK
<1>4. /\ best_seen' \in VALUES \cup {NONE}
      /\ best_seen_iter' \in Nat \cup UNINIT
  BY <1>1, <1>2 DEF UpdateBest, Inv, TypeOK
<1>5. Plus(nevals, Lambda) \in 0 .. CAP /\ Plus(calls, Lambda) \in 0 .. CAP
  BY PlusType, CMAAssumption DEF Inv, TypeOK
<1>6. niter' \in Nat
  BY DEF Iterate, IncIter, Inv, TypeOK
<1>7. lost' \in BOOLEAN
  BY <1>1, Zenon
<1>8. pc' = "test" /\ nevals' = Plus(nevals, Lambda) /\ calls' = Plus(calls, Lambda)
      /\ UNCHANGED <<asked, flags, ftarget, initial, run_status, wild>>
  BY DEF Iterate, config
<1> QED
  BY <1>2, <1>3, <1>4, <1>5, <1>6, <1>7, <1>8 DEF Inv, TypeOK

LEMMA RestartTypeOK == ASSUME TypeOK, Restart PROVE TypeOK'
<1>1. Plus(KeptEvals, 1) \in 0 .. CAP /\ Plus(calls, 1) \in 0 .. CAP
  BY PlusType DEF TypeOK, KeptEvals
<1>2. hist' \in Seq(VALUES) /\ Len(hist') <= MAX_HIST
  BY CMAAssumption DEF Restart
<1>3. wild' \in BOOLEAN
  BY Zenon DEF Restart
<1>4. best_seen_iter' \in Nat \cup UNINIT
  BY DEF Restart
<1>5. flags' = [flags EXCEPT !.restarted = TRUE] /\ run_status' = 0
      /\ initial' = best_seen /\ best_seen' = best_seen /\ niter' = 0
      /\ nevals' = Plus(KeptEvals, 1) /\ calls' = Plus(calls, 1) /\ pc' = "test"
      /\ UNCHANGED <<asked, ftarget, low, lost>>
  BY DEF Restart, RestartPoint, ghosts
<1>6. flags' \in [elitist : BOOLEAN, initial : BOOLEAN, on_restart : BOOLEAN,
                  fvalue : BOOLEAN, restarted : BOOLEAN]
  BY <1>5 DEF TypeOK
<1> HIDE DEF TypeOK
<1>7. best_seen \in VALUES \cup {NONE} /\ asked \in 0 .. 3 /\ ftarget \in FTARGETS
      /\ low \in VALUES \cup {NONE} /\ lost \in BOOLEAN
  BY DEF TypeOK
<1> QED
  BY <1>1, <1>2, <1>3, <1>4, <1>5, <1>6, <1>7 DEF TypeOK

LEMMA NextTypeOK == ASSUME Inv, [Next]_vars PROVE TypeOK'
<1>1. TypeOK
  BY DEF Inv
<1>2. CASE \/ \E e \in 0 .. 3 : SetElitism(e)
           \/ \E b \in BOOLEAN : SetInitialFvalue(b)
  BY <1>1, <1>2, ConfigTypeOK
<1>3. CASE Optimize
  BY <1>1, <1>3, OptimizeTypeOK
<1>4. CASE Stop
  BY <1>1, <1>4, StopTypeOK
<1>5. CASE Iterate
  BY <1>5, IterateTypeOK
<1>6. CASE Restart
  BY <1>1, <1>6, RestartTypeOK
<1>7. CASE Return
  BY <1>1, <1>7 DEF Return, TypeOK, config, ghosts
<1>8. CASE UNCHANGED vars
  BY <1>1, <1>8 DEF vars, TypeOK, config, ghosts
<1> QED
  BY <1>2, <1>3, <1>4, <1>5, <1>6, <1>7, <1>8 DEF Next

-----------------------------------------------------------------------------
(* The candidates kept and the least value.                                  *)

Kept == HasReference /\ Evaluated /\ FirstRound /\ NoneLost

LEMMA OptimizeKept == ASSUME Inv, Optimize PROVE Kept'
<1>1. PICK x0 \in VALUES : EvaluateX0(flags, x0) /\ low' = initial'
  BY DEF Optimize
<1>2. initial' = best_seen' /\ initial' = low' /\ low' \in VALUES \cup {NONE}
  BY <1>1 DEF EvaluateX0
<1>3. (flags.elitist \/ flags.initial \/ flags.restarted) => initial' \in VALUES
  BY <1>1 DEF EvaluateX0
<1>4. pc' = "test" /\ niter = 0 /\ niter' = niter /\ flags' = flags
  BY DEF Optimize, config, Inv, FirstRound
<1>5. initial' \in Nat \/ initial' = NONE
  BY <1>2, ValuesAreNat
<1>6. HasReference'
  BY <1>2, <1>3, <1>4, ValuesAreNat DEF HasReference
<1>7. Evaluated'
  BY <1>2, <1>5 DEF Evaluated
<1> QED
  BY <1>2, <1>4, <1>6, <1>7 DEF Kept, FirstRound, NoneLost

LEMMA IterateKept == ASSUME Inv, Iterate PROVE Kept'
<1>1. PICK pop \in [1 .. Lambda -> VALUES] :
        /\ UpdateBest(Least(Told(pop)))
        /\ low' = Least(Seen(pop))
        /\ lost' = (lost \/ (low' # low /\ low' \notin Told(pop)))
  BY IterateRound
<1> DEFINE v == Least(Told(pop))
<1>2. /\ v \in Told(pop) /\ v \in VALUES /\ low' \in VALUES
      /\ \A w \in Told(pop) : v <= w /\ low' <= w
      /\ \A w \in Seen(pop) : low' <= w
  BY <1>1, RoundLeast DEF Iterate
<1>3. /\ pc = "iterate" /\ pc' = "test" /\ niter' = niter + 1
      /\ UNCHANGED <<flags, initial>>
  BY DEF Iterate, IncIter, config
<1>4. IF (niter = 0 /\ best_seen = NONE) \/ Less(v, best_seen)
        THEN best_seen' = v ELSE best_seen' = best_seen
  BY <1>1 DEF UpdateBest
<1> HIDE DEF v
<1>5. /\ v \in Nat /\ low' \in Nat /\ v # NONE /\ low' # NONE
      /\ initial \in Nat \cup {NONE} /\ best_seen \in Nat \cup {NONE}
      /\ low \in Nat \cup {NONE}
      /\ Told(pop) \subseteq Nat
  BY <1>2, <1>3, RoundSets, ValuesAreNat DEF Inv, TypeOK
<1>6. low # NONE => low \in Seen(pop) /\ low' <= low
  BY <1>2 DEF Seen
<1>7. best_seen = NONE => best_seen' = v
  BY <1>3, <1>4 DEF Inv, FirstRound, Searching
<1>8. best_seen # NONE => best_seen' \in {v, best_seen}
  BY <1>4
<1>9. best_seen' # NONE
  BY <1>5, <1>7, <1>8
<1>10. HasReference'
  BY <1>3, <1>9 DEF Inv, HasReference, Searching
<1>11. ASSUME NEW c \in {initial, best_seen}, c # NONE
       PROVE  low' <= c
  <2>1. low # NONE /\ low <= c
    BY <1>3, <1>11 DEF Inv, Evaluated, Searching
  <2> QED
    BY <2>1, <1>5, <1>6, <1>11
<1>12. Evaluated'
  <2>1. low' <= v
    BY <1>2
  <2> QED
    BY <2>1, <1>3, <1>5, <1>7, <1>8, <1>11 DEF Evaluated
<1>13. ASSUME ~lost' PROVE best_seen' = low'
  <2>1. best_seen = low /\ (low' = low \/ low' \in Told(pop))
    BY <1>13, <1>1, <1>3 DEF Inv, NoneLost, Searching
  <2>2. CASE best_seen = NONE
    <3>1. low' \in Told(pop)
      BY <2>1, <2>2, <1>5
    <3>2. v <= low' /\ low' <= v
      BY <3>1, <1>2
    <3> QED
      BY <3>2, <2>2, <1>5, <1>7
  <2>3. CASE best_seen # NONE /\ low' = low
    <3>1. low' <= v
      BY <1>2
    <3>2. ~Less(v, best_seen)
      BY <3>1, <2>1, <2>3, <1>5 DEF Less
    <3> QED
      BY <3>2, <2>1, <2>3, <1>4
  <2>4. CASE best_seen # NONE /\ low' # low
    <3>1. v <= low' /\ low' <= v /\ low' <= low
      BY <2>1, <2>4, <1>2, <1>6
    <3>2. v = low' /\ Less(v, best_seen)
      BY <3>1, <2>1, <2>4, <1>5 DEF Less
    <3> QED
      BY <3>2, <1>4
  <2> QED
    BY <2>2, <2>3, <2>4
<1> QED
  BY <1>3, <1>9, <1>10, <1>12, <1>13 DEF Kept, FirstRound, NoneLost

LEMMA RestartKept == ASSUME Inv, Restart PROVE Kept'
<1>1. /\ pc = "end" /\ pc' = "test" /\ niter' = 0
      /\ initial' = best_seen /\ best_seen' = best_seen
      /\ UNCHANGED <<low, lost>>
  BY DEF Restart, RestartPoint, ghosts
<1>2. best_seen # NONE
  BY DEF Restart, WantsRestart, Less
<1>3. HasReference'
  BY <1>1, <1>2 DEF HasReference
<1>4. Evaluated'
  BY <1>1, <1>2 DEF Inv, Evaluated, Searching
<1>5. NoneLost'
  BY <1>1 DEF Inv, NoneLost, Searching
<1> QED
  BY <1>1, <1>3, <1>4, <1>5 DEF Kept, FirstRound

LEMMA InitInv == Init => Inv
BY InitTypeOK
   DEF Inv, Init, HasReference, Evaluated, FirstRound, NoneLost, Searching

LEMMA NextKept == ASSUME Inv, [Next]_vars PROVE Kept'
<1>1. Inv
  OBVIOUS
<1>2. ASSUME NEW e \in 0 .. 3, SetElitism(e) PROVE Kept'
  BY <1>1, <1>2
     DEF SetElitism, Inv, Kept, HasReference, Evaluated, FirstRound, NoneLost, Searching
<1>3. ASSUME NEW b \in BOOLEAN, SetInitialFvalue(b) PROVE Kept'
  BY <1>1, <1>3
     DEF SetInitialFvalue, Inv, Kept, HasReference, Evaluated, FirstRound, NoneLost,
         Searching
<1>4. CASE Optimize
  BY <1>1, <1>4, OptimizeKept
<1>5. CASE Stop
  BY <1>1, <1>5 DEF Stop, config, ghosts, Inv, Kept, HasReference, Evaluated,
                    FirstRound, NoneLost, Searching
<1>6. CASE Iterate
  BY <1>1, <1>6, IterateKept
<1>7. CASE Restart
  BY <1>1, <1>7, RestartKept
<1>8. CASE Return
  BY <1>1, <1>8 DEF Return, config, ghosts, Inv, Kept, HasReference, Evaluated,
                    FirstRound, NoneLost, Searching
<1>9. CASE UNCHANGED vars
  BY <1>1, <1>9 DEF vars, config, ghosts, Inv, Kept, HasReference, Evaluated,
                    FirstRound, NoneLost, Searching
<1> QED
  BY <1>2, <1>3, <1>4, <1>5, <1>6, <1>7, <1>8, <1>9 DEF Next

LEMMA NextInv == ASSUME Inv, [Next]_vars PROVE Inv'
BY NextTypeOK, NextKept DEF Inv, Kept

\* The strengthened invariant holds of every search.
THEOREM Invariance == Spec => []Inv
<1> QED
  BY InitInv, NextInv, PTL DEF Spec

\* The search's state is well typed: window, counters and result codes.
THEOREM TypeCorrect == Spec => []TypeOK
<1>1. Inv => TypeOK
  BY DEF Inv
<1> QED
  BY <1>1, Invariance, PTL

\* The best seen candidate is the best of everything evaluated, as long as no
\* reinjection overwrote a new best.
THEOREM BestIsKept == Spec => []NoneLost
<1>1. Inv => NoneLost
  BY DEF Inv
<1> QED
  BY <1>1, Invariance, PTL

LEMMA StepNeverWorse ==
  ASSUME Inv, [Next]_vars
  PROVE  [(Searching /\ best_seen # NONE) => best_seen' \in 0 .. best_seen]_vars
<1> SUFFICES ASSUME Searching, best_seen # NONE
             PROVE  best_seen' \in 0 .. best_seen
  OBVIOUS
<1>1. best_seen \in Nat
  BY ValuesAreNat DEF Inv, TypeOK
<1>2. CASE Iterate
  <2>1. PICK pop \in [1 .. Lambda -> VALUES] : UpdateBest(Least(Told(pop)))
    BY <1>2, IterateRound
  <2> DEFINE v == Least(Told(pop))
  <2>2. v \in Nat
    BY <1>2, RoundLeast, ValuesAreNat DEF Iterate
  <2>3. IF Less(v, best_seen) THEN best_seen' = v ELSE best_seen' = best_seen
    BY <2>1 DEF UpdateBest
  <2> HIDE DEF v
  <2> QED
    BY <1>1, <2>2, <2>3 DEF Less
<1>3. CASE ~Iterate
  <2>1. best_seen' = best_seen
    BY <1>3 DEF Next, SetElitism, SetInitialFvalue, Optimize, Stop, Restart,
                RestartPoint, Return, vars, Searching
  <2> QED
    BY <1>1, <2>1
<1> QED
  BY <1>2, <1>3

\* No step, a restart included, replaces the best seen candidate by a worse one.
THEOREM NeverGetsWorse == Spec => NeverWorse
<1> QED
  BY Invariance, StepNeverWorse, PTL DEF Spec, NeverWorse

-----------------------------------------------------------------------------
(* Elitism.                                                                  *)

\* How the flags go together, whatever set_elitism was called with before:
\* an elitism of the best seen excludes the one on restart, and only the one on
\* restart restarts, once optimize() is called.
FlagsAgree ==
  /\ pc = "configure" => ~flags.restarted
  /\ (flags.elitist /\ ~flags.initial) => ~flags.on_restart
  /\ flags.restarted => flags.on_restart

LEMMA NextFlagsAgree == ASSUME Inv, FlagsAgree, [Next]_vars PROVE FlagsAgree'
<1>0. flags \in [elitist : BOOLEAN, initial : BOOLEAN, on_restart : BOOLEAN,
                 fvalue : BOOLEAN, restarted : BOOLEAN]
  BY DEF Inv, TypeOK
<1>1. ASSUME NEW e \in 0 .. 3, SetElitism(e) PROVE FlagsAgree'
  <2>1. pc' = "configure" /\ flags'.restarted = flags.restarted /\ ~flags.restarted
    BY <1>0, <1>1 DEF FlagsAgree, SetElitism
  <2>2. CASE e = 0
    <3>1. flags' = [flags EXCEPT !.elitist = flags.on_restart,
                                 !.initial = flags.on_restart]
      BY <1>1, <2>2 DEF SetElitism
    <3>2. /\ flags'.elitist = flags.on_restart /\ flags'.initial = flags.on_restart
          /\ flags'.on_restart = flags.on_restart
      BY <1>0, <3>1
    <3> QED
      BY <2>1, <3>2, Zenon DEF FlagsAgree
  <2>3. CASE e # 0
    <3>1. flags' = [flags EXCEPT !.elitist = (e = 1), !.initial = (e = 2),
                                 !.on_restart = (e = 3)]
      BY <1>1, <2>3 DEF SetElitism
    <3>2. /\ flags'.elitist = (e = 1) /\ flags'.on_restart = (e = 3)
      BY <1>0, <3>1
    <3>3. ~(e = 1 /\ e = 3)
      OBVIOUS
    <3>4. flags'.elitist => ~flags'.on_restart
      BY <3>2, <3>3, Zenon
    <3> QED
      BY <2>1, <3>4, Zenon DEF FlagsAgree
  <2> QED
    BY <2>2, <2>3
<1>2. ASSUME NEW b \in BOOLEAN, SetInitialFvalue(b) PROVE FlagsAgree'
  BY <1>0, <1>2 DEF FlagsAgree, SetInitialFvalue
<1>3. CASE Restart
  <2>1. flags.on_restart /\ pc' = "test"
    BY <1>3 DEF Restart, WantsRestart
  <2>2. flags' = [flags EXCEPT !.restarted = TRUE]
    BY <1>3 DEF Restart
  <2> QED
    BY <1>0, <2>1, <2>2 DEF FlagsAgree
<1>4. CASE Optimize \/ Stop \/ Iterate \/ Return \/ UNCHANGED vars
  <2>1. flags' = flags /\ (pc' = "configure" => pc = "configure")
    BY <1>4 DEF Optimize, Stop, Iterate, Return, vars, config
  <2> QED
    BY <2>1 DEF FlagsAgree
<1> QED
  BY <1>1, <1>2, <1>3, <1>4 DEF Next

\* The last entry of the history is the candidate just appended.
LEMMA WindowLast ==
  ASSUME NEW h \in Seq(VALUES), NEW v \in VALUES
  PROVE  /\ Window(Append(h, v)) # <<>>
         /\ Window(Append(h, v))[Len(Window(Append(h, v)))] = v
<1> DEFINE g == Append(h, v)
<1>1. g \in Seq(VALUES) /\ Len(g) = Len(h) + 1 /\ Len(h) \in Nat /\ g[Len(g)] = v
  BY AppendProperties, LenProperties
<1>2. CASE Len(g) > MAX_HIST
  <2>1. Len(g) > 1 /\ g # <<>>
    BY <1>1, <1>2, CMAAssumption
  <2>2. /\ Tail(g) \in Seq(VALUES) /\ Len(Tail(g)) = Len(g) - 1
        /\ \A i \in 1 .. Len(Tail(g)) : Tail(g)[i] = g[i + 1]
    BY <1>1, <2>1, HeadTailProperties
  <2>3. Len(g) - 1 \in 1 .. Len(Tail(g)) /\ (Len(g) - 1) + 1 = Len(g)
    BY <1>1, <2>1, <2>2
  <2>4. Tail(g)[Len(Tail(g))] = v /\ Tail(g) # <<>>
    BY <1>1, <2>2, <2>3
  <2> QED
    BY <2>4, <1>2 DEF Window
<1>3. CASE ~(Len(g) > MAX_HIST)
  <2>1. g # <<>>
    BY <1>1
  <2> QED
    BY <2>1, <1>1, <1>3 DEF Window
<1> QED
  BY <1>2, <1>3

\* With something to reinject, the best of the population told is no worse
\* than it: it is in the population, or half the candidates are better.
LEMMA ToldReference ==
  ASSUME Inv, pc = "iterate", Reinjecting, NEW pop \in [1 .. Lambda -> VALUES]
  PROVE  Least(Told(pop)) <= Reference
<1>1. /\ Least(Told(pop)) \in Nat
      /\ \A w \in Told(pop) : w \in Nat /\ Least(Told(pop)) <= w
  BY RoundLeast, RoundSets, ValuesAreNat
<1>2. Reference \in Nat
  BY ValuesAreNat
     DEF Inv, TypeOK, HasReference, Searching, Reinjecting, Reference
<1>3. CASE FewBetter(pop)
  <2>1. 2 \in 1 .. Lambda
    BY CMAAssumption
  <2>2. Reinjected(pop)[2] = Reference
    BY <1>3, <2>1 DEF Reinjected
  <2>3. Reference \in Told(pop)
    BY <2>1, <2>2 DEF Told
  <2> QED
    BY <1>1, <2>3
<1>4. CASE ~FewBetter(pop)
  <2>1. Better(pop) # {}
    <3>1. Cardinality({}) = 0
      BY FS_EmptySet
    <3>2. 0 < Lambda \div 2
      BY CMAAssumption
    <3> QED
      BY <3>1, <3>2, <1>4 DEF FewBetter
  <2>2. PICK r \in 1 .. Lambda : Less(pop[r], Reference)
    BY <2>1 DEF Better
  <2>3. pop[r] \in Told(pop)
    BY <1>4 DEF Told, Reinjected
  <2>4. pop[r] < Reference
    BY <2>2 DEF Less
  <2> QED
    BY <1>1, <1>2, <2>3, <2>4
<1> QED
  BY <1>3, <1>4

LEMMA StepReferenceKept ==
  ASSUME Inv, FlagsAgree, ReferenceKept, [Next]_vars
  PROVE  ReferenceKept'
<1>1. CASE Iterate
  <2>1. PICK pop \in [1 .. Lambda -> VALUES] : UpdateBest(Least(Told(pop)))
    BY <1>1, IterateRound
  <2> DEFINE v == Least(Told(pop))
  <2>2. v \in VALUES /\ v \in Nat
    BY <1>1, RoundLeast, ValuesAreNat DEF Iterate
  <2>3. hist' = Window(Append(hist, v)) /\ hist \in Seq(VALUES)
    BY <2>1 DEF UpdateBest, Inv, TypeOK
  <2>4. BestCandidate' = v
    BY <2>2, <2>3, WindowLast DEF BestCandidate
  <2>5. /\ pc = "iterate" /\ niter' = niter + 1 /\ niter \in Nat
        /\ flags' = flags /\ initial' = initial
    BY <1>1 DEF Iterate, IncIter, config, Inv, TypeOK
  <2> SUFFICES ASSUME niter' >= 2
               PROVE  /\ (flags.elitist /\ ~flags.initial) => v = best_seen'
                      /\ (flags.initial \/ flags.restarted) => v <= initial
    BY <2>4, <2>5 DEF ReferenceKept
  <2>6. niter > 0
    BY <2>5
  <2>7. Reinjecting => v <= Reference
    BY <2>5, ToldReference
  <2>8. ASSUME flags.elitist, ~flags.initial
        PROVE  v = best_seen'
    <3>1. Reinjecting /\ Reference = best_seen
      BY <2>6, <2>8 DEF Reinjecting, Reference, FlagsAgree
    <3>2. best_seen # NONE /\ best_seen \in Nat /\ v # NONE
      BY <2>2, <2>5, <2>8, ValuesAreNat DEF Inv, TypeOK, HasReference, Searching
    <3>3. IF Less(v, best_seen) THEN best_seen' = v ELSE best_seen' = best_seen
      BY <2>1, <2>6, <3>2 DEF UpdateBest
    <3> HIDE DEF v
    <3> QED
      BY <2>2, <2>7, <3>1, <3>2, <3>3 DEF Less
  <2>9. ASSUME flags.initial \/ flags.restarted
        PROVE  v <= initial
    <3>1. Reinjecting /\ Reference = initial
      BY <2>6, <2>9 DEF Reinjecting, Reference, FlagsAgree
    <3> QED
      BY <2>7, <3>1
  <2> QED
    BY <2>8, <2>9
<1>2. CASE Restart
  <2>1. niter' = 0
    BY <1>2 DEF Restart
  <2> QED
    BY <2>1 DEF ReferenceKept
<1>3. CASE Optimize
  <2>1. niter' = 0
    BY <1>3 DEF Optimize, Inv, FirstRound
  <2> QED
    BY <2>1 DEF ReferenceKept
<1>4. ASSUME NEW e \in 0 .. 3, SetElitism(e) PROVE ReferenceKept'
  BY <1>4 DEF SetElitism, ReferenceKept, Searching
<1>5. ASSUME NEW b \in BOOLEAN, SetInitialFvalue(b) PROVE ReferenceKept'
  BY <1>5 DEF SetInitialFvalue, ReferenceKept, Searching
<1>6. CASE Stop \/ Return \/ UNCHANGED vars
  <2>1. UNCHANGED <<flags, niter, initial, hist, best_seen>>
    BY <1>6 DEF Stop, Return, vars, config
  <2>2. Searching' => Searching
    BY <1>6 DEF Stop, Return, vars, Searching
  <2> QED
    BY <2>1, <2>2 DEF ReferenceKept, BestCandidate
<1> QED
  BY <1>1, <1>2, <1>3, <1>4, <1>5, <1>6 DEF Next

\* Elitism keeps its candidate: from the second iteration on the population
\* told to the update has one no worse than what is reinjected.
THEOREM ElitismKeeps == Spec => []ReferenceKept
<1>1. Init => FlagsAgree /\ ReferenceKept
  BY DEF Init, FlagsAgree, ReferenceKept, Searching
<1> QED
  BY <1>1, NextFlagsAgree, StepReferenceKept, Invariance, PTL DEF Spec

-----------------------------------------------------------------------------
(* The budget.                                                               *)

\* How many calls a run may have made, by the iterations it has behind it:
\* only its first iteration is never refused, and the third iteration since the
\* last best seen one, without which there is no restart, was granted.
Spending ==
  /\ best_seen # initial => best_seen_iter \in Nat
  /\ (pc = "iterate" /\ niter > 0) => nevals < MAX_FEVALS
  /\ niter >= 2 => nevals < MAX_FEVALS + Lambda
  /\ niter = 0 => nevals <= IF flags.restarted THEN MAX_FEVALS + Lambda ELSE 1
  /\ niter = 1 => nevals <= IF flags.restarted THEN MAX_FEVALS + 2 * Lambda
                                              ELSE Lambda + 1

BudgetInv ==
  /\ calls = nevals
  /\ pc = "configure" => nevals = 0
  /\ (Searching /\ ~wild) => Spending

LEMMA PlusIsSum ==
  ASSUME NEW n \in Nat, NEW k \in Nat, n + k <= CAP
  PROVE  Plus(n, k) = n + k
BY CapType DEF Plus

LEMMA ContinueInBudget ==
  ASSUME Inv, 0 \in Verdicts
  PROVE  nevals < MAX_FEVALS
<1>1. 0 \notin Certain \cup Possible
  BY DEF Certain, Possible
<1>2. Certain = {}
  BY <1>1, 0 \in Verdicts, Zenon DEF Verdicts
<1>3. ASSUME nevals >= MAX_FEVALS PROVE 8 \in Certain
  <2>1. /\ 8 \in {1, 7, 8, 9, 10} /\ 8 = 8
        /\ 8 # 1 /\ 8 # 7 /\ 8 # 9 /\ 8 # 10
    OBVIOUS
  <2> QED
    BY <1>3, <2>1, Zenon DEF Certain
<1> QED
  BY <1>2, <1>3, CMAAssumption DEF Inv, TypeOK, CAP

LEMMA IterateSpends ==
  ASSUME Inv, BudgetInv, Iterate
  PROVE  BudgetInv'
<1>0. /\ pc = "iterate" /\ pc' = "test" /\ niter' = niter + 1 /\ niter \in Nat
      /\ UNCHANGED <<flags, initial, wild>>
      /\ nevals' = Plus(nevals, Lambda) /\ calls' = nevals' /\ nevals \in Nat
  BY CapType DEF Iterate, IncIter, config, Inv, TypeOK, BudgetInv
<1> SUFFICES ASSUME ~wild PROVE Spending'
  BY <1>0 DEF BudgetInv
<1>1. Spending
  BY <1>0 DEF BudgetInv, Searching
<1>2. best_seen' # initial' => best_seen_iter' \in Nat
  <2>1. PICK v : UpdateBest(v)
    BY DEF Iterate
  <2> QED
    BY <2>1, <1>0, <1>1 DEF UpdateBest, Spending
<1>3. CASE niter = 0
  <2>1. nevals + Lambda <= IF flags.restarted THEN MAX_FEVALS + 2 * Lambda
                                              ELSE Lambda + 1
    BY <1>0, <1>1, <1>3, CMAAssumption DEF Spending
  <2>2. nevals + Lambda <= CAP
    BY <2>1, <1>0, CMAAssumption DEF CAP
  <2>3. nevals' = nevals + Lambda
    BY <2>2, <1>0, PlusIsSum, CMAAssumption
  <2>4. niter' = 1
    BY <1>0, <1>3
  <2> QED
    BY <2>1, <2>3, <2>4, <1>0, <1>2 DEF Spending
<1>4. CASE niter # 0
  <2>1. nevals < MAX_FEVALS
    BY <1>0, <1>1, <1>4 DEF Spending
  <2>2. nevals + Lambda <= CAP /\ nevals + Lambda < MAX_FEVALS + Lambda
    BY <2>1, <1>0, CMAAssumption DEF CAP
  <2>3. nevals' = nevals + Lambda
    BY <2>2, <1>0, PlusIsSum, CMAAssumption
  <2>4. niter' >= 2
    BY <1>0, <1>4
  <2> QED
    BY <2>2, <2>3, <2>4, <1>0, <1>2 DEF Spending
<1> QED
  BY <1>3, <1>4

LEMMA RestartSpends ==
  ASSUME Inv, BudgetInv, Restart
  PROVE  BudgetInv'
<1>0. /\ pc = "end" /\ pc' = "test" /\ niter' = 0 /\ niter \in Nat
      /\ flags' = [flags EXCEPT !.restarted = TRUE]
      /\ initial' = best_seen'
      /\ nevals' = Plus(nevals, 1) /\ calls' = nevals' /\ nevals \in Nat
  BY CapType DEF Restart, RestartPoint, KeptEvals, Inv, TypeOK, BudgetInv
<1>1. flags'.restarted
  BY <1>0 DEF Inv, TypeOK
<1> SUFFICES ASSUME ~wild' PROVE Spending'
  BY <1>0 DEF BudgetInv
<1>2. ~wild /\ best_seen # initial
  BY Zenon DEF Restart
<1>3. Spending
  BY <1>0, <1>2 DEF BudgetInv, Searching
<1>4. best_seen_iter \in Nat /\ niter - best_seen_iter >= 3
  BY <1>2, <1>3 DEF Spending, Restart, WantsRestart
<1>5. nevals < MAX_FEVALS + Lambda
  BY <1>0, <1>3, <1>4 DEF Spending
<1>6. nevals + 1 <= CAP /\ nevals + 1 <= MAX_FEVALS + Lambda
  BY <1>0, <1>5, CMAAssumption DEF CAP
<1>7. nevals' = nevals + 1
  BY <1>0, <1>6, PlusIsSum
<1> QED
  BY <1>0, <1>1, <1>6, <1>7 DEF Spending

LEMMA NextBudget ==
  ASSUME Inv, FlagsAgree, BudgetInv, [Next]_vars
  PROVE  BudgetInv'
<1>1. CASE Iterate
  BY <1>1, IterateSpends
<1>2. CASE Restart
  BY <1>2, RestartSpends
<1>3. CASE Optimize
  <2>1. PICK x0 \in VALUES : EvaluateX0(flags, x0)
    BY <1>3 DEF Optimize
  <2>2. /\ pc = "configure" /\ pc' = "test" /\ niter' = 0 /\ flags' = flags
        /\ nevals = 0 /\ calls = 0 /\ ~flags'.restarted
    BY <1>3 DEF Optimize, config, Inv, FirstRound, BudgetInv, FlagsAgree
  <2>3. Plus(0, 1) = 1
    BY CMAAssumption, PlusIsSum DEF CAP
  <2>4. initial' = best_seen' /\ calls' = nevals' /\ nevals' \in {0, 1}
    BY <2>1, <2>2, <2>3 DEF EvaluateX0
  <2> QED
    BY <2>2, <2>4 DEF BudgetInv, Spending
<1>4. CASE Stop
  <2>1. /\ UNCHANGED <<flags, nevals, niter, initial, best_seen, best_seen_iter, calls, wild>>
        /\ pc = "test" /\ pc' \in {"iterate", "end"}
    BY <1>4 DEF Stop, config
  <2>2. (pc' = "iterate" /\ niter > 0) => nevals < MAX_FEVALS
    <3> SUFFICES ASSUME pc' = "iterate", niter > 0 PROVE 0 \in Verdicts
      BY ContinueInBudget
    <3> QED
      BY <1>4 DEF Stop
  <2> QED
    BY <2>1, <2>2 DEF BudgetInv, Spending, Searching
<1>5. CASE Return \/ UNCHANGED vars
  <2>1. UNCHANGED <<flags, nevals, niter, initial, best_seen, best_seen_iter, calls, wild>>
    BY <1>5 DEF Return, vars, config
  <2>2. pc' = pc \/ (pc = "end" /\ pc' = "done")
    BY <1>5 DEF Return, vars
  <2> QED
    BY <2>1, <2>2 DEF BudgetInv, Spending, Searching
<1>6. ASSUME NEW e \in 0 .. 3, SetElitism(e) PROVE BudgetInv'
  BY <1>6 DEF SetElitism, BudgetInv, Searching
<1>7. ASSUME NEW b \in BOOLEAN, SetInitialFvalue(b) PROVE BudgetInv'
  BY <1>7 DEF SetInitialFvalue, BudgetInv, Searching
<1> QED
  BY <1>1, <1>2, <1>3, <1>4, <1>5, <1>6, <1>7 DEF Next

LEMMA SpendingIsBudget ==
  ASSUME Inv, FlagsAgree, BudgetInv
  PROVE  Budget
<1> SUFFICES ASSUME ~wild
             PROVE  calls <= MAX_FEVALS + (IF flags.on_restart THEN 2 ELSE 1) * Lambda
  BY DEF Budget
<1>1. nevals \in Nat /\ niter \in Nat /\ calls = nevals
  BY CapType DEF Inv, TypeOK, BudgetInv
<1>2. CASE pc = "configure"
  BY <1>1, <1>2, CMAAssumption DEF BudgetInv
<1>3. CASE pc # "configure"
  <2>1. Spending
    BY <1>3 DEF Inv, TypeOK, BudgetInv, Searching
  <2>2. CASE flags.restarted
    BY <1>1, <2>1, <2>2, CMAAssumption DEF Spending, FlagsAgree
  <2>3. CASE ~flags.restarted
    <3>1. nevals <= MAX_FEVALS + Lambda
      BY <1>1, <2>1, <2>3, CMAAssumption DEF Spending
    <3> QED
      BY <1>1, <3>1, CMAAssumption
  <2> QED
    BY <2>2, <2>3
<1> QED
  BY <1>2, <1>3

\* A search keeps its budget of function calls to within a population, or two
\* when it restarts, unless an uninitialized field decided a restart.
THEOREM BudgetKept == Spec => []Budget
<1>1. Init => FlagsAgree /\ BudgetInv
  BY DEF Init, FlagsAgree, BudgetInv, Searching
<1> QED
  BY <1>1, NextFlagsAgree, NextBudget, SpendingIsBudget, Invariance, PTL DEF Spec
=============================================================================
