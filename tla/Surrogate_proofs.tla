--------------------------- MODULE Surrogate_proofs ---------------------------
(***************************************************************************)
(* That the ACM strategy pre-selects with a model of its training set, and *)
(* that this set is of the run under way.                                  *)
(*                                                                         *)
(* Trained carries it: outside tell() a full set is one the model was      *)
(* trained on.  eval() makes the model one behind, tell() trains again     *)
(* exactly when the set is full, and the reset at a run's start leaves a   *)
(* set that is not, since _l is at least 1.                                *)
(*                                                                         *)
(* And that the candidate it records as the best of a generation is one    *)
(* the objective evaluated: Genuine says of a population that some were,   *)
(* and that those that were not have a greater value, so that a sort       *)
(* brings one that was to the front (SortedGenuine).                       *)
(***************************************************************************)
EXTENDS Surrogate, SequenceTheorems, FiniteSetTheorems, TLAPS

SurrTyped ==
  /\ spc \in {"idle", "ask", "eval", "tell", "told"}
  /\ srun \in Nat /\ niter \in Nat /\ npop \in Nat
  /\ sopt \in [strategy : {"none", "simple", "acm"}, exploit : BOOLEAN,
               l : Nat \ {0}, lambdaprime : Nat, lambda : Nat]
  /\ tset \in Seq([true : BOOLEAN, run : Nat])
  /\ sopt.strategy = "none" => (spc = "idle" /\ niter = 0)

Acm == sopt.strategy = "acm"

\* The points of the training set were evaluated, in this run.
OwnPoints == \A i \in DOMAIN tset : tset[i].true = TRUE /\ tset[i].run = srun

Starting == spc = "ask" /\ niter = 0

Trained ==
  Acm => /\ (spc # "tell" /\ ~Starting /\ Full) => model = "fresh"
         /\ ~Starting => OwnPoints
         /\ spc = "eval" => ranked = "no"
         /\ (spc = "tell" /\ ranked # "no") => ranked = "fresh"

SurrInv == SurrTyped /\ Trained

-----------------------------------------------------------------------------
(* The training set.                                                         *)

LEMMA RepeatedIsSeq ==
  ASSUME NEW S, NEW p \in S, NEW n \in Nat
  PROVE  [i \in 1 .. n |-> p] \in Seq(S)
OBVIOUS

\* What is in a set after an addition was in it or was added.
LEMMA AddedPoints ==
  ASSUME NEW S, NEW set \in Seq(S), NEW points \in Seq(S), sopt.l \in Nat
  PROVE  /\ Added(set, points) \in Seq(S)
         /\ \A i \in DOMAIN Added(set, points) :
              \/ \E j \in DOMAIN set : Added(set, points)[i] = set[j]
              \/ \E j \in DOMAIN points : Added(set, points)[i] = points[j]
<1> DEFINE all == set \o points
           over == Len(all) - sopt.l
<1>1. all \in Seq(S) /\ Len(all) = Len(set) + Len(points)
  OBVIOUS
<1>2. ASSUME NEW k \in 1 .. Len(all)
      PROVE  \/ \E j \in DOMAIN set : all[k] = set[j]
             \/ \E j \in DOMAIN points : all[k] = points[j]
  <2>1. CASE k <= Len(set)
    <3>1. k \in DOMAIN set /\ all[k] = set[k]
      BY <2>1
    <3> QED
      BY <3>1
  <2>2. CASE k > Len(set)
    <3>1. (k - Len(set)) \in DOMAIN points /\ all[k] = points[k - Len(set)]
      BY <2>2
    <3> QED
      BY <3>1
  <2> QED
    BY <2>1, <2>2
<1>3. CASE over > 0
  <2>1. /\ over \in Nat /\ over + 1 \in 1 .. Len(all) + 1
        /\ Added(set, points) = SubSeq(all, over + 1, Len(all))
    <3>1. Added(set, points) = SubSeq(all, over + 1, Len(all))
      BY <1>3 DEF Added
    <3>2. Len(all) \in Nat
      BY <1>1
    <3>3. over \in Nat /\ over + 1 \in 1 .. Len(all) + 1
      <4> HIDE DEF all
      <4> QED
        BY <1>3, <3>2
    <3> QED
      BY <3>1, <3>3, Zenon
  <2> HIDE DEF all, over
  <2>2. /\ Added(set, points) \in Seq(S)
        /\ DOMAIN Added(set, points) = 1 .. Len(all) - over
        /\ \A i \in 1 .. Len(all) - over : Added(set, points)[i] = all[i + over]
    <3>1. /\ SubSeq(all, over + 1, Len(all)) \in Seq(S)
          /\ Len(SubSeq(all, over + 1, Len(all))) = Len(all) - over
          /\ \A i \in 1 .. Len(all) - over : SubSeq(all, over + 1, Len(all))[i] = all[over + 1 + i - 1]
      BY <1>1, <2>1, SubSeqProperties
    <3>2. \A i \in 1 .. Len(all) - over : over + 1 + i - 1 = i + over
      BY <1>1, <2>1
    <3> QED
      BY <2>1, <3>1, <3>2
  <2>3. \A i \in 1 .. Len(all) - over : i + over \in 1 .. Len(all)
    BY <1>1, <2>1
  <2> QED
    BY <1>2, <2>2, <2>3
<1>4. CASE ~(over > 0)
  <2>1. Added(set, points) = all
    BY <1>4 DEF Added
  <2>2. DOMAIN all = 1 .. Len(all)
    BY <1>1
  <2> HIDE DEF all, over
  <2> QED
    BY <1>1, <1>2, <2>1, <2>2
<1> QED
  BY <1>3, <1>4

\* Points of candidates the objective evaluated are points of this run.
LEMMA AddedOwn ==
  ASSUME SurrTyped, NEW points \in Seq([true : BOOLEAN, run : Nat]),
         \A i \in DOMAIN points : points[i].true = TRUE /\ points[i].run = srun
  PROVE  /\ Added(tset, points) \in Seq([true : BOOLEAN, run : Nat])
         /\ OwnPoints => \A i \in DOMAIN Added(tset, points) :
              Added(tset, points)[i].true = TRUE /\ Added(tset, points)[i].run = srun
<1>1. sopt.l \in Nat /\ tset \in Seq([true : BOOLEAN, run : Nat])
  BY DEF SurrTyped
<1>2. /\ Added(tset, points) \in Seq([true : BOOLEAN, run : Nat])
      /\ \A i \in DOMAIN Added(tset, points) :
              \/ \E j \in DOMAIN tset : Added(tset, points)[i] = tset[j]
              \/ \E j \in DOMAIN points : Added(tset, points)[i] = points[j]
  BY <1>1, AddedPoints
<1> QED
  BY <1>2 DEF OwnPoints

\* eostrat::eval() of a population adds its points.
LEMMA EvaluatedPoints ==
  ASSUME SurrTyped, NEW cs \in TrueCandidates(npop)
  PROVE  /\ Points(cs) \in Seq([true : BOOLEAN, run : Nat])
         /\ \A i \in DOMAIN Points(cs) : Points(cs)[i].true = TRUE /\ Points(cs)[i].run = srun
<1>1. npop \in Nat /\ srun \in Nat
  BY DEF SurrTyped
<1>2. DOMAIN cs = 1 .. npop /\ \A i \in 1 .. npop : cs[i].true = TRUE
  BY DEF TrueCandidates, CandidateOf
<1>3. Points(cs) = [i \in 1 .. npop |-> [true |-> cs[i].true, run |-> srun]]
  BY <1>2 DEF Points, TsetPoint
<1>4. \A i \in 1 .. npop :
        /\ [true |-> cs[i].true, run |-> srun] \in [true : BOOLEAN, run : Nat]
        /\ [true |-> cs[i].true, run |-> srun].true = TRUE
        /\ [true |-> cs[i].true, run |-> srun].run = srun
  BY <1>1, <1>2
<1> DEFINE pt(i) == [true |-> cs[i].true, run |-> srun]
<1>5. Points(cs) = [i \in 1 .. npop |-> pt(i)]
  BY <1>3
<1>6. \A i \in 1 .. npop :
        pt(i) \in [true : BOOLEAN, run : Nat] /\ pt(i).true = TRUE /\ pt(i).run = srun
  BY <1>4
<1> HIDE DEF pt
<1>7. Points(cs) \in Seq([true : BOOLEAN, run : Nat])
  BY <1>1, <1>5, <1>6
<1> QED
  BY <1>5, <1>6, <1>7

-----------------------------------------------------------------------------
(* The sort.                                                                 *)

\* A sort leaves the candidates, and the first is one of the least.
LEMMA AscendingIs ==
  ASSUME NEW n \in Nat, NEW cs, DOMAIN cs = 1 .. n, \A i \in 1 .. n : cs[i].f \in Nat
  PROVE  \E q \in [1 .. n -> 1 .. n] :
           /\ Ascending(cs) = [i \in 1 .. n |-> cs[q[i]]]
           /\ n > 0 => \A c \in 1 .. n : cs[q[1]].f <= cs[c].f
<1> DEFINE D == 1 .. n
           before(a, b) == cs[a].f < cs[b].f \/ (cs[a].f = cs[b].f /\ a < b)
           Below(c) == {d \in D : before(d, c)}
           place == [c \in D |-> 1 + Cardinality(Below(c))]
           q == [i \in D |-> CHOOSE c \in D : 1 + Cardinality({d \in D : before(d, c)}) = i]
<1>1. /\ IsFiniteSet(D) /\ Cardinality(D) = n
      /\ \A i \in D : i \in Int /\ 1 <= i /\ i <= n
      /\ \A i \in Int : 1 <= i /\ i <= n => i \in D
  BY FS_Interval
<1>2. /\ \A a, b \in D : a # b => before(a, b) \/ before(b, a)
      /\ \A a, b, c \in D : before(a, b) /\ before(b, c) => before(a, c)
      /\ \A a \in D : ~before(a, a)
  <2>1. PICK f : f = [c \in D |-> cs[c].f]
    OBVIOUS
  <2>2. \A c \in D : f[c] = cs[c].f /\ f[c] \in Nat /\ c \in Int
    BY <1>1, <2>1
  <2>3. \A a, b \in D : before(a, b) <=> (f[a] < f[b] \/ (f[a] = f[b] /\ a < b))
    BY <2>2
  <2> HIDE DEF before, D
  <2>4. ASSUME NEW a \in D, NEW b \in D, a # b PROVE before(a, b) \/ before(b, a)
    <3>1. f[a] \in Nat /\ f[b] \in Nat /\ a \in Int /\ b \in Int
      BY <2>2
    <3> QED
      BY <2>3, <2>4, <3>1
  <2>5. ASSUME NEW a \in D, NEW b \in D, NEW c \in D, before(a, b), before(b, c)
        PROVE  before(a, c)
    <3>1. /\ f[a] \in Nat /\ f[b] \in Nat /\ f[c] \in Nat
          /\ a \in Int /\ b \in Int /\ c \in Int
      BY <2>2
    <3>2. /\ f[a] < f[b] \/ (f[a] = f[b] /\ a < b)
          /\ f[b] < f[c] \/ (f[b] = f[c] /\ b < c)
      BY <2>3, <2>5
    <3>3. f[a] < f[c] \/ (f[a] = f[c] /\ a < c)
      BY <3>1, <3>2
    <3> QED
      BY <2>3, <3>3
  <2>6. ASSUME NEW a \in D PROVE ~before(a, a)
    BY <2>2, <2>3
  <2> QED
    BY <2>4, <2>5, <2>6
<1>3. \A a, b \in D : before(a, b) => cs[a].f <= cs[b].f
  OBVIOUS
<1>4. \A c \in D : Below(c) = {d \in D : before(d, c)}
  OBVIOUS
<1>5. place = [c \in D |-> 1 + Cardinality(Below(c))]
  OBVIOUS
<1>6. q = [i \in D |-> CHOOSE c \in D : 1 + Cardinality({d \in D : before(d, c)}) = i]
  OBVIOUS
<1>7. Ascending(cs) = [i \in D |-> cs[q[i]]]
  <2>1. Ascending(cs) = [i \in DOMAIN cs |->
          cs[CHOOSE c \in DOMAIN cs : 1 + Cardinality({d \in DOMAIN cs : before(d, c)}) = i]]
    BY Zenon DEF Ascending
  <2>2. DOMAIN cs = D
    OBVIOUS
  <2> HIDE DEF before, D
  <2>3. Ascending(cs) = [i \in D |->
          cs[CHOOSE c \in D : 1 + Cardinality({d \in D : before(d, c)}) = i]]
    BY <2>1, <2>2
  <2>4. \A i \in D : q[i] = CHOOSE c \in D : 1 + Cardinality({d \in D : before(d, c)}) = i
    BY <1>6
  <2> HIDE DEF q
  <2> QED
    BY <2>3, <2>4
<1> HIDE DEF D, before, Below, place, q
<1>8. ASSUME NEW c \in D
      PROVE  /\ IsFiniteSet(Below(c)) /\ Cardinality(Below(c)) \in Nat
             /\ place[c] \in D /\ place[c] = Cardinality(Below(c)) + 1
  <2>1. Below(c) \in SUBSET (D \ {c})
    BY <1>2, <1>4
  <2>2. IsFiniteSet(D \ {c}) /\ Cardinality(D \ {c}) = n - 1
    BY <1>1, FS_RemoveElement
  <2>3. IsFiniteSet(Below(c)) /\ Cardinality(Below(c)) <= n - 1
    BY <2>1, <2>2, FS_Subset
  <2>4. Cardinality(Below(c)) \in Nat
    BY <2>3, FS_CardinalityType
  <2>5. place[c] = Cardinality(Below(c)) + 1
    BY <1>5, <2>4
  <2> QED
    BY <1>1, <2>3, <2>4, <2>5
<1>9. ASSUME NEW a \in D, NEW b \in D, before(a, b)
      PROVE  place[a] < place[b]
  <2>1. Below(a) \in SUBSET (Below(b) \ {a}) /\ a \in Below(b)
    BY <1>2, <1>4, <1>9
  <2>2. IsFiniteSet(Below(b) \ {a}) /\ Cardinality(Below(b) \ {a}) = Cardinality(Below(b)) - 1
    BY <1>8, <2>1, FS_RemoveElement
  <2>3. Cardinality(Below(a)) <= Cardinality(Below(b)) - 1
    BY <2>1, <2>2, FS_Subset
  <2> QED
    BY <1>8, <2>3
<1>10. place \in Injection(D, D)
  <2>1. place \in [D -> D]
    BY <1>5, <1>8
  <2>2. ASSUME NEW a \in D, NEW b \in D, a # b PROVE place[a] # place[b]
    <3>1. place[a] \in Int /\ place[b] \in Int
      BY <1>1, <1>8
    <3> QED
      BY <1>2, <1>9, <2>2, <3>1
  <2> QED
    BY <2>1, <2>2 DEF Injection, IsInjective
<1>11. place \in Surjection(D, D)
  BY <1>1, <1>10, FS_Injection
<1>12. \A i \in D : q[i] \in D /\ place[q[i]] = i
  <2> DEFINE number(c) == 1 + Cardinality({d \in D : before(d, c)})
  <2>1. \A c \in D : number(c) = place[c]
    BY <1>4, <1>5
  <2>3. \A i \in D : q[i] = CHOOSE c \in D : number(c) = i
    BY <1>6
  <2>2. \A i \in D : \E c \in D : place[c] = i
    BY <1>11 DEF Surjection
  <2> HIDE DEF number
  <2> QED
    BY <2>1, <2>2, <2>3
<1>13. q \in [D -> D]
  BY <1>6, <1>12
<1>14. ASSUME n > 0, NEW c \in D PROVE cs[q[1]].f <= cs[c].f
  <2>1. 1 \in D
    BY <1>1, <1>14
  <2>2. q[1] \in D /\ place[q[1]] = 1 /\ place[c] \in Int /\ place[c] >= 1
    BY <1>1, <1>8, <1>12, <2>1
  <2>3. ~before(c, q[1])
    BY <1>9, <2>2
  <2>4. c = q[1] \/ before(q[1], c)
    BY <1>2, <2>2, <2>3
  <2>5. cs[c].f \in Nat
    BY DEF D
  <2> QED
    BY <1>3, <2>2, <2>4, <2>5
<1> QED
  BY <1>7, <1>13, <1>14 DEF D

-----------------------------------------------------------------------------
(* The invariant.                                                            *)

LEMMA InitSurr == SurrInit => SurrInv
<1> SUFFICES ASSUME SurrInit PROVE SurrInv
  OBVIOUS
<1>1. SurrTyped
  BY SurrAssumption DEF SurrInit, SurrTyped
<1>2. Trained
  BY DEF SurrInit, Trained, Acm
<1> QED
  BY <1>1, <1>2 DEF SurrInv

\* eval() by the objective alone.
LEMMA EvalTrueKeeps ==
  ASSUME SurrInv, EvalTrue, spc = "eval", spc' = "tell",
         UNCHANGED <<sopt, srun, niter, npop>>
  PROVE  SurrInv'
<1> USE DEF SurrInv
<1>1. PICK cs \in TrueCandidates(npop) : cands' = cs /\ tset' = Added(tset, Points(cs))
  BY DEF EvalTrue
<1>2. /\ tset' \in Seq([true : BOOLEAN, run : Nat])
      /\ OwnPoints => \A i \in DOMAIN tset' : tset'[i].true = TRUE /\ tset'[i].run = srun
  BY <1>1, EvaluatedPoints, AddedOwn
<1>3. SurrTyped'
  BY <1>2 DEF SurrTyped
<1>4. ASSUME Acm' PROVE OwnPoints' /\ ranked' = "no"
  <2>1. Acm
    BY <1>4 DEF Acm
  <2>2. OwnPoints /\ ranked = "no"
    BY <2>1 DEF Trained, Starting
  <2> QED
    BY <1>2, <2>2 DEF OwnPoints, EvalTrue
<1>5. Trained'
  BY <1>4 DEF Trained
<1> QED
  BY <1>3, <1>5

LEMMA NextSurr == SurrInv /\ [SurrNext]_surrVars => SurrInv'
<1> SUFFICES ASSUME SurrInv, [SurrNext]_surrVars PROVE SurrInv'
  OBVIOUS
<1> USE DEF SurrInv
<1>1. CASE UNCHANGED surrVars
  BY <1>1 DEF surrVars, SurrTyped, Trained, Acm, Starting, Full, OwnPoints
<1>2. CASE SurrConstruct
  <2>1. SurrTyped'
    BY <1>2, SurrAssumption DEF SurrConstruct, SurrTyped
  <2>2. Trained'
    BY <1>2 DEF SurrConstruct, Trained, Acm, Starting, SurrTyped
  <2> QED
    BY <2>1, <2>2
<1>3. CASE SurrAsk
  <2>1. SurrTyped'
    BY <1>3, SurrAssumption DEF SurrAsk, SurrTyped, Lambda
  <2>2. ASSUME Acm' PROVE Full' => model' = "fresh"
    <3>1. Acm
      BY <1>3, <2>2 DEF SurrAsk, Acm
    <3>2. CASE niter = 0
      BY <1>3, <3>1, <3>2 DEF SurrAsk, ResetsSet, Acm, Full, SurrTyped
    <3>3. CASE niter # 0
      <4>1. tset' = tset /\ model' = model /\ sopt' = sopt
        BY <1>3, <3>3 DEF SurrAsk, ResetsSet
      <4> QED
        BY <1>3, <3>1, <3>3, <4>1 DEF SurrAsk, Trained, Full, Starting
    <3> QED
      BY <3>2, <3>3
  <2>3. ASSUME Acm' PROVE OwnPoints'
    <3>1. Acm
      BY <1>3, <2>3 DEF SurrAsk, Acm
    <3>2. CASE niter = 0
      BY <1>3, <3>1, <3>2 DEF SurrAsk, ResetsSet, Acm, OwnPoints
    <3>3. CASE niter # 0
      BY <1>3, <3>1, <3>3 DEF SurrAsk, ResetsSet, OwnPoints, Trained, Starting
    <3> QED
      BY <3>2, <3>3
  <2>4. Trained'
    BY <1>3, <2>2, <2>3 DEF SurrAsk, Trained
  <2> QED
    BY <2>1, <2>4
<1>4. CASE SimpleEvalTrue
  BY <1>4, EvalTrueKeeps DEF SimpleEvalTrue
<1>5. CASE SimpleEvalModel
  <2>1. SurrTyped'
    BY <1>5 DEF SimpleEvalModel, SurrTyped
  <2>2. Trained'
    BY <1>5 DEF SimpleEvalModel, Trained, Acm
  <2> QED
    BY <2>1, <2>2
<1>6. CASE AcmEvalTrue
  BY <1>6, EvalTrueKeeps DEF AcmEvalTrue
<1>7. CASE AcmEvalModel
  <2>1. PICK n \in Nat :
          tset' = Added(tset, [i \in 1 .. n + 1 |-> TsetPoint(CandidateOf(0, TRUE))])
    <3>1. PICK others :
            /\ Cardinality(others) = (IF sopt.lambdaprime > 1 THEN sopt.lambdaprime - 1 ELSE 0)
            /\ tset' = Added(tset, [i \in 1 .. Cardinality(others) + 1 |-> TsetPoint(CandidateOf(0, TRUE))])
      BY <1>7, Zenon DEF AcmEvalModel
    <3>2. Cardinality(others) \in Nat
      BY <3>1 DEF SurrTyped
    <3> QED
      BY <3>1, <3>2
  <2> DEFINE points == [i \in 1 .. n + 1 |-> TsetPoint(CandidateOf(0, TRUE))]
  <2>2. TsetPoint(CandidateOf(0, TRUE)) = [true |-> TRUE, run |-> srun]
    BY DEF TsetPoint, CandidateOf
  <2>3. /\ points \in Seq([true : BOOLEAN, run : Nat])
        /\ \A i \in DOMAIN points : points[i].true = TRUE /\ points[i].run = srun
    <3>1. n + 1 \in Nat /\ [true |-> TRUE, run |-> srun] \in [true : BOOLEAN, run : Nat]
      BY DEF SurrTyped
    <3>2. points = [i \in 1 .. n + 1 |-> [true |-> TRUE, run |-> srun]]
      BY <2>2
    <3>3. points \in Seq([true : BOOLEAN, run : Nat])
      BY <3>1, <3>2, RepeatedIsSeq
    <3>4. \A i \in DOMAIN points : points[i] = [true |-> TRUE, run |-> srun]
      BY <3>2
    <3> HIDE DEF points
    <3> QED
      BY <3>3, <3>4
  <2>4. tset' = Added(tset, points)
    BY <2>1
  <2> HIDE DEF points
  <2>5. /\ tset' \in Seq([true : BOOLEAN, run : Nat])
        /\ OwnPoints => \A i \in DOMAIN tset' : tset'[i].true = TRUE /\ tset'[i].run = srun
    BY <2>3, <2>4, AddedOwn
  <2>6. SurrTyped'
    <3>1. spc' = "tell" /\ spc = "eval" /\ UNCHANGED <<sopt, srun, niter, npop>>
      BY <1>7, Zenon DEF AcmEvalModel
    <3> QED
      BY <2>5, <3>1 DEF SurrTyped
  <2>7. OwnPoints /\ model = "fresh"
    BY <1>7 DEF AcmEvalModel, Trained, Acm, Starting
  <2>8. Trained'
    BY <1>7, <2>5, <2>7 DEF AcmEvalModel, Trained, OwnPoints
  <2> QED
    BY <2>6, <2>8
<1>8. CASE SurrTell
  <2>1. SurrTyped'
    BY <1>8 DEF SurrTell, SurrTyped
  <2>2. Trained'
    BY <1>8 DEF SurrTell, Trained, Acm, Starting, Full, OwnPoints, DoTrain
  <2> QED
    BY <2>1, <2>2
<1>9. CASE SurrIterate
  <2>1. SurrTyped' /\ niter' # 0
    BY <1>9 DEF SurrIterate, SurrTyped
  <2>2. Trained'
    BY <1>9, <2>1 DEF SurrIterate, Trained, Acm, Starting, Full, OwnPoints
  <2> QED
    BY <2>1, <2>2
<1>10. CASE SurrRestart
  <2>1. /\ sopt'.lambda = 2 * sopt.lambda /\ sopt'.l = sopt.l
        /\ sopt'.lambdaprime = sopt.lambdaprime /\ sopt'.strategy = sopt.strategy
    BY <1>10 DEF SurrRestart, SurrTyped
  <2>2. SurrTyped'
    BY <1>10, <2>1 DEF SurrRestart, SurrTyped
  <2>3. Trained'
    BY <1>10 DEF SurrRestart, Trained, Starting
  <2> QED
    BY <2>2, <2>3
<1>11. CASE SurrReturns
  <2>1. SurrTyped'
    BY <1>11 DEF SurrReturns, SurrTyped
  <2>2. Trained'
    BY <1>11 DEF SurrReturns, Trained, Acm, Starting, Full, OwnPoints
  <2> QED
    BY <2>1, <2>2
<1> QED
  BY <1>1, <1>2, <1>3, <1>4, <1>5, <1>6, <1>7, <1>8, <1>9, <1>10, <1>11 DEF SurrNext

\* Whenever the ACM strategy ranks with its model, that was trained on the
\* training set as it then is, all of whose points are of this run
\* (surrogatestrategy.cc:228 and the training in tell()).
THEOREM PreSelectionIsFresh == SurrSpec => []PreSelectsFresh
<1>1. SurrInv => PreSelectsFresh
  BY DEF SurrInv, Trained, Acm, Starting, OwnPoints, PreSelectsFresh
<1> QED
  BY <1>1, InitSurr, NextSurr, PTL DEF SurrSpec

-----------------------------------------------------------------------------
(* What is recorded.                                                         *)

Candidates == [f : Nat, true : BOOLEAN]

\* Some candidate was evaluated, and what was not has the greatest value.
Genuine(cs) ==
  \E n \in Nat \ {0} :
    /\ cs \in [1 .. n -> Candidates]
    /\ \A i \in 1 .. n : IF cs[i].true THEN cs[i].f < MAXDOUBLE ELSE cs[i].f = MAXDOUBLE
    /\ \E i \in 1 .. n : cs[i].true

Recording ==
  /\ sopt.lambda \in Nat \ {0}
  /\ spc = "eval" => npop \in Nat \ {0}
  /\ Acm => /\ spc = "tell" => Genuine(cands) /\ Head(cands).true
            /\ spc = "told" => Head(cands).true

LEMMA MaxDoubleIs == MAXDOUBLE \in Nat /\ \A v \in SurrValues : v < MAXDOUBLE
<1> DEFINE top == CHOOSE v \in SurrValues : \A w \in SurrValues : w <= v
<1>1. top \in SurrValues /\ \A w \in SurrValues : w <= top
  BY SurrAssumption
<1>2. MAXDOUBLE = 1 + top
  BY DEF MAXDOUBLE
<1> HIDE DEF top
<1> QED
  BY <1>1, <1>2, SurrAssumption

LEMMA HeadIs ==
  ASSUME NEW S, NEW n \in Nat \ {0}, NEW cs \in [1 .. n -> S]
  PROVE  Head(cs) = cs[1] /\ Len(cs) = n /\ DOMAIN cs = 1 .. n
<1>1. cs \in Seq(S) /\ Len(cs) = n
  OBVIOUS
<1> QED
  BY <1>1

\* Sorted, such candidates have one that was evaluated in front.
LEMMA SortedGenuine ==
  ASSUME NEW cs, Genuine(cs)
  PROVE  Genuine(Ascending(cs)) /\ Head(Ascending(cs)).true
<1>1. PICK n \in Nat \ {0} :
        /\ cs \in [1 .. n -> Candidates]
        /\ \A i \in 1 .. n : IF cs[i].true THEN cs[i].f < MAXDOUBLE ELSE cs[i].f = MAXDOUBLE
        /\ \E i \in 1 .. n : cs[i].true
  BY DEF Genuine
<1>2. \A i \in 1 .. n : cs[i] \in Candidates /\ cs[i].f \in Nat
  BY <1>1 DEF Candidates
<1>3. DOMAIN cs = 1 .. n
  BY <1>1
<1>4. PICK q \in [1 .. n -> 1 .. n] :
        /\ Ascending(cs) = [i \in 1 .. n |-> cs[q[i]]]
        /\ n > 0 => \A c \in 1 .. n : cs[q[1]].f <= cs[c].f
  BY <1>2, <1>3, AscendingIs
<1> DEFINE s == Ascending(cs)
<1>5. s \in [1 .. n -> Candidates] /\ \A i \in 1 .. n : s[i] = cs[q[i]] /\ q[i] \in 1 .. n
  BY <1>2, <1>4
<1>6. 1 \in 1 .. n /\ Head(s) = s[1]
  BY <1>5, HeadIs
<1> HIDE DEF s
<1>7. PICK t \in 1 .. n : cs[t].true
  BY <1>1
<1>8. s[1].true
  <2>1. cs[q[1]].f <= cs[t].f /\ cs[t].f < MAXDOUBLE /\ cs[t].f \in Nat /\ cs[q[1]].f \in Nat
    BY <1>1, <1>2, <1>4, <1>5, <1>6, <1>7
  <2>2. cs[q[1]].f # MAXDOUBLE
    <3>1. PICK a, b, m : a = cs[q[1]].f /\ b = cs[t].f /\ m = MAXDOUBLE
      OBVIOUS
    <3>2. a \in Nat /\ b \in Nat /\ m \in Nat /\ a <= b /\ b < m
      BY <2>1, <3>1, MaxDoubleIs
    <3>3. a # m
      BY <3>2
    <3> QED
      BY <3>1, <3>3
  <2> QED
    BY <1>1, <1>5, <1>6, <2>2
<1>9. \A i \in 1 .. n : IF s[i].true THEN s[i].f < MAXDOUBLE ELSE s[i].f = MAXDOUBLE
  BY <1>1, <1>5
<1>10. Genuine(s)
  BY <1>5, <1>6, <1>8, <1>9 DEF Genuine
<1> QED
  BY <1>6, <1>8, <1>10 DEF s

\* The objective for every candidate.
LEMMA TrueIsGenuine ==
  ASSUME NEW n \in Nat \ {0}, NEW cs \in TrueCandidates(n)
  PROVE  Genuine(cs) /\ Head(cs).true
<1>1. cs \in [1 .. n -> {CandidateOf(v, TRUE) : v \in SurrValues}]
  BY DEF TrueCandidates
<1>2. \A i \in 1 .. n : \E v \in SurrValues : cs[i] = [f |-> v, true |-> TRUE]
  BY <1>1 DEF CandidateOf
<1>3. ASSUME NEW i \in 1 .. n
      PROVE  cs[i] \in Candidates /\ cs[i].true = TRUE /\ cs[i].f < MAXDOUBLE
  <2>1. PICK v \in SurrValues : cs[i] = [f |-> v, true |-> TRUE]
    BY <1>2
  <2>2. v \in Nat /\ v < MAXDOUBLE
    BY MaxDoubleIs, SurrAssumption
  <2> QED
    BY <2>1, <2>2 DEF Candidates
<1>4. cs \in [1 .. n -> Candidates]
  BY <1>1, <1>3
<1>5. 1 \in 1 .. n
  OBVIOUS
<1>6. Head(cs) = cs[1]
  BY <1>4, HeadIs
<1> QED
  BY <1>3, <1>4, <1>5, <1>6 DEF Genuine

\* A pre-selection evaluates the first of the kept ones.
LEMMA PreSelectedGenuine ==
  ASSUME NEW n \in Nat \ {0}, NEW kept \in Predicted(n), NEW evaluated, 1 \in evaluated,
         NEW value \in [evaluated -> SurrValues]
  PROVE  Genuine(PreSelected(kept, evaluated, value)) /\ Head(PreSelected(kept, evaluated, value)).true
<1> DEFINE of(i) == IF i \in evaluated THEN CandidateOf(value[i], TRUE) ELSE Unevaluated(kept[i])
           cs == [i \in 1 .. n |-> of(i)]
<1>1. Len(kept) = n
  BY HeadIs DEF Predicted
<1>2. PreSelected(kept, evaluated, value) = Ascending(cs)
  BY <1>1 DEF PreSelected
<1>3. ASSUME NEW i \in 1 .. n
      PROVE  /\ of(i) \in Candidates
             /\ i \in evaluated => of(i).true = TRUE
             /\ IF of(i).true THEN of(i).f < MAXDOUBLE ELSE of(i).f = MAXDOUBLE
  <2>1. CASE i \in evaluated
    <3>1. PICK v : v = value[i]
      OBVIOUS
    <3>2. v \in Nat /\ v < MAXDOUBLE
      BY <2>1, <3>1, MaxDoubleIs, SurrAssumption
    <3>3. PICK r : r = of(i)
      OBVIOUS
    <3>4. r = [f |-> v, true |-> TRUE]
      BY <2>1, <3>1, <3>3 DEF CandidateOf
    <3>5. r \in Candidates /\ r.true = TRUE /\ r.f < MAXDOUBLE
      BY <3>2, <3>4 DEF Candidates
    <3> HIDE DEF of
    <3> QED
      BY <3>3, <3>5
  <2>2. CASE i \notin evaluated
    <3>1. PICK r, m : r = of(i) /\ m = MAXDOUBLE
      OBVIOUS
    <3>2. r = [f |-> m, true |-> FALSE]
      BY <2>2, <3>1 DEF CandidateOf, Unevaluated
    <3>3. m \in Nat
      BY <3>1, MaxDoubleIs
    <3>4. r \in Candidates /\ r.true = FALSE /\ r.f = m
      BY <3>2, <3>3 DEF Candidates
    <3> HIDE DEF of
    <3> QED
      BY <2>2, <3>1, <3>4
  <2> QED
    BY <2>1, <2>2
<1> HIDE DEF of
<1>4. cs \in [1 .. n -> Candidates] /\ \A i \in 1 .. n : cs[i] = of(i)
  BY <1>3
<1> HIDE DEF cs
<1>5. 1 \in 1 .. n
  OBVIOUS
<1>6. Genuine(cs)
  BY <1>3, <1>4, <1>5 DEF Genuine
<1> QED
  BY <1>2, <1>6, SortedGenuine

LEMMA InitRecording == SurrInit => Recording
BY SurrAssumption DEF SurrInit, Recording, Acm

LEMMA NextRecording ==
  ASSUME SurrInv, Recording, [SurrNext]_surrVars
  PROVE  Recording'
<1>1. CASE UNCHANGED surrVars
  BY <1>1 DEF surrVars, Recording, Acm, Genuine
<1>2. CASE SurrConstruct
  <2>1. spc' = "ask" /\ sopt'.lambda = SurrLambda
    BY <1>2 DEF SurrConstruct
  <2> QED
    BY <2>1, SurrAssumption DEF Recording
<1>3. CASE SurrAsk
  <2>1. spc' = "eval" /\ sopt' = sopt
    BY <1>3 DEF SurrAsk
  <2>2. npop' \in {PRESCALE * Lambda, Lambda}
    BY <1>3 DEF SurrAsk
  <2>3. PRESCALE * Lambda \in Nat \ {0} /\ Lambda \in Nat \ {0}
    <3>1. PICK l : l = Lambda
      OBVIOUS
    <3>2. l \in Nat /\ l # 0 /\ PRESCALE \in Nat /\ PRESCALE # 0
      BY <3>1, SurrAssumption DEF Recording, Lambda
    <3>3. PRESCALE * l \in Nat /\ PRESCALE * l # 0
      BY <3>2
    <3> QED
      BY <3>1, <3>2, <3>3
  <2> QED
    BY <2>1, <2>2, <2>3 DEF Recording
<1>4. CASE SimpleEvalTrue \/ SimpleEvalModel
  <2>1. spc' = "tell" /\ sopt' = sopt /\ ~Acm
    BY <1>4 DEF SimpleEvalTrue, SimpleEvalModel, Acm
  <2>2. ~Acm' /\ sopt'.lambda \in Nat \ {0} /\ spc' # "eval"
    BY <2>1 DEF Recording, Acm
  <2> QED
    BY <2>2, Zenon DEF Recording
<1>5. CASE AcmEvalTrue
  <2>1. spc' = "tell" /\ sopt' = sopt /\ spc = "eval"
    BY <1>5 DEF AcmEvalTrue
  <2>2. cands' \in TrueCandidates(npop) /\ npop \in Nat \ {0}
    BY <1>5, <2>1 DEF AcmEvalTrue, EvalTrue, Recording
  <2>3. PICK cs : cs = cands'
    OBVIOUS
  <2>4. Genuine(cs) /\ Head(cs).true
    BY <2>2, <2>3, TrueIsGenuine
  <2>5. Genuine(cands)' /\ Head(cands').true
    BY <2>3, <2>4 DEF Genuine
  <2>6. sopt'.lambda \in Nat \ {0} /\ spc' # "eval" /\ spc' # "told"
    BY <2>1 DEF Recording
  <2> QED
    BY <2>5, <2>6, Zenon DEF Recording
<1>6. CASE AcmEvalModel
  <2>1. spc' = "tell" /\ sopt' = sopt
    BY <1>6, Zenon DEF AcmEvalModel
  <2>2. PICK kept \in Predicted(Lambda), others \in SUBSET (2 .. Lambda) :
          \E value \in [{1} \cup others -> SurrValues] :
            cands' = PreSelected(kept, {1} \cup others, value)
    BY <1>6, Zenon DEF AcmEvalModel
  <2>3. PICK value \in [{1} \cup others -> SurrValues] :
          cands' = PreSelected(kept, {1} \cup others, value)
    BY <2>2
  <2>4. PICK cs : cs = cands'
    OBVIOUS
  <2>5. Lambda \in Nat \ {0}
    BY DEF Recording, Lambda
  <2>6. Genuine(cs) /\ Head(cs).true
    BY <2>3, <2>4, <2>5, PreSelectedGenuine
  <2>7. Genuine(cands)' /\ Head(cands').true
    BY <2>4, <2>6 DEF Genuine
  <2>8. sopt'.lambda \in Nat \ {0} /\ spc' # "eval" /\ spc' # "told"
    BY <2>1 DEF Recording
  <2> QED
    BY <2>7, <2>8, Zenon DEF Recording
<1>7. CASE SurrTell
  <2>1. spc' = "told" /\ sopt' = sopt /\ spc = "tell" /\ cands' \in {Ascending(cands), cands}
    BY <1>7 DEF SurrTell
  <2>2. ASSUME Acm PROVE Head(cands').true
    <3>1. Genuine(cands) /\ Head(cands).true
      BY <2>1, <2>2 DEF Recording
    <3>2. Head(Ascending(cands)).true
      BY <3>1, SortedGenuine
    <3> QED
      BY <2>1, <3>1, <3>2
  <2> QED
    BY <2>1, <2>2 DEF Recording, Acm
<1>8. CASE SurrIterate \/ SurrReturns
  BY <1>8 DEF SurrIterate, SurrReturns, Recording
<1>9. CASE SurrRestart
  <2>1. spc' = "ask" /\ sopt'.lambda = 2 * sopt.lambda
    BY <1>9 DEF SurrRestart, SurrInv, SurrTyped
  <2> QED
    BY <2>1 DEF Recording
<1> QED
  BY <1>1, <1>2, <1>3, <1>4, <1>5, <1>6, <1>7, <1>8, <1>9 DEF SurrNext

LEMMA SurrPromises == SurrInv /\ Recording => PreSelectsFresh /\ RecordsTrueBest
<1>1. SurrInv => PreSelectsFresh
  BY DEF SurrInv, Trained, Acm, Starting, OwnPoints, PreSelectsFresh
<1>2. Recording => RecordsTrueBest
  BY DEF Recording, Acm, RecordsTrueBest
<1> QED
  BY <1>1, <1>2

\* The candidate the ACM strategy records as a generation's best carries a value
\* of the objective: of those it pre-selects the first is evaluated, and those
\* that are not go behind (surrogatestrategy.cc:352-404).
THEOREM BestIsTrue == SurrSpec => []RecordsTrueBest
<1> QED
  BY SurrPromises, InitSurr, NextSurr, InitRecording, NextRecording, PTL DEF SurrSpec
=============================================================================
