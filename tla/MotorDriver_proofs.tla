------------------------- MODULE MotorDriver_proofs ---------------------------
(***************************************************************************)
(* Theorems about BnoThread, for every MAX_READING, MAX_DIV and both       *)
(* values of PROMPT_START: type correctness, and that the mutex makes the  *)
(* reader's section and the getters' copies one register operation each;   *)
(* and about MotorDriver, for every set of settings and every number of    *)
(* candidates and failures: type correctness, OwnSetting and               *)
(* LowAtQuietEnd, with SIGINT at any point.                                *)
(*                                                                         *)
(* None of them is inductive.  MembersPublished and NoTornRead say nothing *)
(* of the states inside the critical sections: ThreadInv adds who holds    *)
(* the mutex, how far the reader has rewritten the members (Rewriting),    *)
(* and how far the getter has copied them (Copying).  And while main()     *)
(* waits for a shell, the pin is somewhere between the setting before and  *)
(* the one asked for: Commands says how far, by what the shell has still   *)
(* to run, and Ending that the process does not end anywhere but where the *)
(* last command is done.                                                   *)
(***************************************************************************)
EXTENDS MotorDriver, TLAPS

-----------------------------------------------------------------------------
(* BnoThread.                                                                *)

\* The mutex is held by the thread that is in its section, and by no other;
\* there is no reader before the constructor has made it.
LockHeld ==
  /\ mpc = "new" => rpc = "unborn"
  /\ mutex = "reader" <=> rpc \in ReaderHolds
  /\ mutex = "main" <=> mpc \in {"copy", "copied"}

\* What the reader divides: the new reading, or what it published before.
Base == IF failed THEN published
        ELSE [reading |-> Register!Fresh(published).reading, div |-> 0]

\* The members, as far as the reader has come: the axes below rk are done.
Rewriting ==
  /\ rpc = "read" => \A k \in Axes : m[k] = published
  /\ rpc = "store" =>
       /\ ~failed
       /\ \A k \in Axes : m[k] = IF k < rk THEN Base ELSE published
  /\ rpc = "divide" =>
       \A k \in Axes : m[k] = IF k < rk THEN Register!Decayed(Base) ELSE Base
  /\ rpc = "publish" => \A k \in Axes : m[k] = Register!Decayed(Base)

\* The getter's copies, as far as it has come.
Copying ==
  /\ mpc = "copy" => \A k \in Axes : k < mk => xyz[k] = published
  /\ mpc = "copied" => \A k \in Axes : xyz[k] = published

ThreadInv ==
  /\ ThreadTypeOK /\ LockHeld
  /\ MembersPublished /\ Rewriting /\ Copying /\ NoTornRead

-----------------------------------------------------------------------------
\* The register's operators stay inside Value.
LEMMA ValueClosed ==
  /\ Zero \in Value
  /\ \A v \in Value : Register!Fresh(v) \in Value /\ Register!Decayed(v) \in Value
  /\ \A v \in Value : [reading |-> Register!Fresh(v).reading, div |-> 0] \in Value
BY ThreadAssumption
   DEF Zero, Value, Register!Zero, Register!Value, Register!Fresh,
       Register!Decayed, Register!Bump

\* A reading just stored and divided once is a fresh value.
LEMMA StoredThenDivided ==
  \A v \in Value :
    Register!Decayed([reading |-> Register!Fresh(v).reading, div |-> 0])
      = Register!Fresh(v)
BY ThreadAssumption
   DEF Value, Register!Value, Register!Fresh, Register!Decayed, Register!Bump

LEMMA InitTypeOK == ThreadInit => ThreadTypeOK
<1> SUFFICES ASSUME ThreadInit PROVE ThreadTypeOK
  OBVIOUS
<1>1. Zero \in Value /\ Axes = 1 .. 3
  BY ValueClosed DEF Axes, Register!Axes
<1>2. is_running \in BOOLEAN /\ failed \in BOOLEAN /\ silent \in BOOLEAN
  BY Zenon DEF ThreadInit
<1> QED
  BY <1>1, <1>2 DEF ThreadInit, ThreadTypeOK

LEMMA NextTypeOK == ThreadTypeOK /\ [ThreadNext]_threadVars => ThreadTypeOK'
<1> SUFFICES ASSUME ThreadTypeOK, [ThreadNext]_threadVars PROVE ThreadTypeOK'
  OBVIOUS
<1> USE DEF ThreadTypeOK, ReaderHolds, mainVars, readerVars
<1> Axes = 1 .. 3
  BY DEF Axes, Register!Axes
<1>1. CASE ReaderBegin
  BY <1>1 DEF ReaderBegin
<1>2. CASE ReaderTest
  BY <1>2 DEF ReaderTest
<1>3. CASE ReaderLock
  BY <1>3 DEF ReaderLock
<1>4. CASE ReaderRead
  <2>1. is_running' \in BOOLEAN /\ failed' \in BOOLEAN /\ silent' \in BOOLEAN
    BY <1>4, Zenon DEF ReaderRead
  <2> QED BY <1>4, <2>1 DEF ReaderRead
<1>5. CASE ReaderStore
  <2>1. m' \in [Axes -> Value]
    BY <1>5, ValueClosed DEF ReaderStore, Register!Fresh, Value, Register!Value
  <2> QED BY <1>5, <2>1 DEF ReaderStore, NextAxis
<1>6. CASE ReaderDivide
  <2>1. m' \in [Axes -> Value]
    BY <1>6, ValueClosed DEF ReaderDivide
  <2> QED BY <1>6, <2>1 DEF ReaderDivide, NextAxis
<1>7. CASE ReaderUnlock
  BY <1>7 DEF ReaderUnlock
<1>8. CASE GoSilent
  BY <1>8 DEF GoSilent
<1>9. CASE Construct
  BY <1>9 DEF Construct
<1>10. CASE Settle
  BY <1>10 DEF Settle
<1>11. CASE FetchLock
  BY <1>11 DEF FetchLock
<1>12. CASE FetchAxis
  BY <1>12 DEF FetchAxis
<1>13. CASE FetchUnlock
  BY <1>13 DEF FetchUnlock
<1>14. CASE Exit
  BY <1>14 DEF Exit, Stop
<1>15. CASE Join
  BY <1>15 DEF Join
<1>16. CASE UNCHANGED threadVars
  BY <1>16 DEF threadVars
<1> QED
  BY <1>1, <1>2, <1>3, <1>4, <1>5, <1>6, <1>7, <1>8, <1>9, <1>10, <1>11,
     <1>12, <1>13, <1>14, <1>15, <1>16
     DEF ThreadNext, ReaderStep, FetchStep

\* The variables keep their types.
THEOREM ThreadTypeCorrect == ThreadSpec => []ThreadTypeOK
BY InitTypeOK, NextTypeOK, PTL DEF ThreadSpec
-----------------------------------------------------------------------------
LEMMA InitLockHeld == ThreadInit => LockHeld
BY DEF ThreadInit, LockHeld, ReaderHolds

\* Each thread enters its section only when the mutex is free and gives the
\* mutex back as it leaves.
LEMMA NextLockHeld ==
  ThreadTypeOK /\ LockHeld /\ [ThreadNext]_threadVars => LockHeld'
<1> SUFFICES ASSUME ThreadTypeOK, LockHeld, [ThreadNext]_threadVars
             PROVE  LockHeld'
  OBVIOUS
<1> USE DEF LockHeld, ReaderHolds, mainVars, readerVars
<1>1. CASE ReaderStep
  <2>1. UNCHANGED mpc
    BY <1>1 DEF ReaderStep, ReaderBegin, ReaderTest, ReaderLock, ReaderRead,
         ReaderStore, ReaderDivide, ReaderUnlock
  <2>2. CASE ReaderLock
    BY <2>1, <2>2 DEF ReaderLock
  <2>3. CASE ReaderUnlock
    BY <2>1, <2>3 DEF ReaderUnlock
  <2>4. CASE ReaderBegin \/ ReaderTest
    BY <2>1, <2>4 DEF ReaderBegin, ReaderTest
  <2>5. CASE ReaderRead
    BY <2>1, <2>5 DEF ReaderRead
  <2>6. CASE ReaderStore \/ ReaderDivide
    BY <2>1, <2>6 DEF ReaderStore, ReaderDivide, NextAxis
  <2> QED BY <1>1, <2>2, <2>3, <2>4, <2>5, <2>6 DEF ReaderStep
<1>2. CASE GoSilent
  BY <1>2 DEF GoSilent
<1>3. CASE Construct
  BY <1>3 DEF Construct
<1>4. CASE Settle
  BY <1>4 DEF Settle
<1>5. CASE FetchStep
  BY <1>5 DEF ThreadTypeOK, FetchStep, FetchLock, FetchAxis, FetchUnlock
<1>6. CASE Exit
  BY <1>6 DEF Exit, Stop
<1>7. CASE Join
  BY <1>7 DEF Join
<1>8. CASE UNCHANGED threadVars
  BY <1>8 DEF threadVars
<1> QED
  BY <1>1, <1>2, <1>3, <1>4, <1>5, <1>6, <1>7, <1>8 DEF ThreadNext
-----------------------------------------------------------------------------
\* The data part of ThreadInv.
Data == MembersPublished /\ Rewriting /\ Copying /\ NoTornRead

LEMMA InitData == ThreadInit => Data
BY DEF ThreadInit, Data, MembersPublished, Rewriting, Copying, NoTornRead,
     ReaderHolds

\* While a thread is in its section it alone moves the members or the copies,
\* axis by axis; when it leaves, all three axes agree.
LEMMA NextData ==
  ThreadTypeOK /\ LockHeld /\ Data /\ [ThreadNext]_threadVars => Data'
<1> SUFFICES ASSUME ThreadTypeOK, LockHeld, Data, [ThreadNext]_threadVars
             PROVE  Data'
  OBVIOUS
<1> USE DEF mainVars, readerVars, ReaderHolds
<1>0. Axes = 1 .. 3
  BY DEF Axes, Register!Axes
<1>1. CASE UNCHANGED <<rk, rpc, m, mpc, mk, xyz, got, published, failed>>
  BY <1>1 DEF Data, MembersPublished, Rewriting, Copying, NoTornRead, Base
<1>2. CASE ReaderBegin \/ ReaderTest
  BY <1>2 DEF ReaderBegin, ReaderTest, Data, MembersPublished, Rewriting,
       Copying, NoTornRead
<1>3. CASE ReaderLock
  BY <1>3 DEF ReaderLock, Data, MembersPublished, Rewriting, Copying, NoTornRead
<1>4. CASE ReaderRead
  <2>1. UNCHANGED <<m, mpc, mk, xyz, got, published>> /\ rk' = 1 /\ rpc = "read"
    BY <1>4 DEF ReaderRead
  <2>2. \/ rpc' = "store" /\ ~failed'
        \/ rpc' = "divide" /\ failed'
    BY <1>4, Zenon DEF ReaderRead
  <2>3. \A k \in Axes : ~(k < 1)
    BY <1>0
  <2> QED
    BY <2>1, <2>2, <2>3
       DEF Data, MembersPublished, Rewriting, Copying, NoTornRead, Base
<1>5. CASE ReaderStore
  <2>1. UNCHANGED <<mpc, mk, xyz, got, published, failed>> /\ rpc = "store"
    BY <1>5 DEF ReaderStore
  <2>2. /\ mpc \notin {"copy", "copied"} /\ ~failed
        /\ \A k \in Axes : m[k] = IF k < rk THEN Base ELSE published
    BY <2>1 DEF LockHeld, Data, Rewriting
  <2>3. Base = [reading |-> Register!Fresh(published).reading, div |-> 0]
        /\ Base' = Base
    BY <2>1, <2>2 DEF Base, Register!Fresh, Register!Bump
  <2>4. m' = [m EXCEPT ![rk] = Base]
    <3>1. m[rk] = published
      BY <1>0, <2>2 DEF ThreadTypeOK
    <3> QED BY <1>5, <2>3, <3>1 DEF ReaderStore
  <2>5. \/ rk < 3 /\ rk' = rk + 1 /\ rpc' = "store"
        \/ rk = 3 /\ rk' = 1 /\ rpc' = "divide"
    BY <1>0, <1>5 DEF ReaderStore, NextAxis, ThreadTypeOK
  <2> QED
    BY <1>0, <2>1, <2>2, <2>3, <2>4, <2>5
       DEF Data, MembersPublished, Rewriting, Copying, NoTornRead, ThreadTypeOK
<1>6. CASE ReaderDivide
  <2>1. UNCHANGED <<mpc, mk, xyz, got, published, failed>> /\ rpc = "divide"
    BY <1>6 DEF ReaderDivide
  <2>2. /\ mpc \notin {"copy", "copied"}
        /\ \A k \in Axes : m[k] = IF k < rk THEN Register!Decayed(Base) ELSE Base
    BY <2>1 DEF LockHeld, Data, Rewriting
  <2>3. Base' = Base /\ Register!Decayed(Base)' = Register!Decayed(Base)
    BY <2>1 DEF Base, Register!Fresh, Register!Decayed, Register!Bump
  <2>4. m' = [m EXCEPT ![rk] = Register!Decayed(Base)]
    <3>1. m[rk] = Base
      BY <1>0, <2>2 DEF ThreadTypeOK
    <3> QED BY <1>6, <3>1 DEF ReaderDivide
  <2>5. \/ rk < 3 /\ rk' = rk + 1 /\ rpc' = "divide"
        \/ rk = 3 /\ rk' = 1 /\ rpc' = "publish"
    BY <1>0, <1>6 DEF ReaderDivide, NextAxis, ThreadTypeOK
  <2> QED
    BY <1>0, <2>1, <2>2, <2>3, <2>4, <2>5
       DEF Data, MembersPublished, Rewriting, Copying, NoTornRead, ThreadTypeOK
<1>7. CASE ReaderUnlock
  <2>1. mpc \notin {"copy", "copied"} /\ \A k \in Axes : m[k] = m[1]
    BY <1>0, <1>7 DEF ReaderUnlock, LockHeld, Data, Rewriting
  <2> QED
    BY <1>7, <2>1
       DEF ReaderUnlock, Data, MembersPublished, Rewriting, Copying, NoTornRead
<1>8. CASE GoSilent
  <2>1. UNCHANGED <<rk, rpc, m, mpc, mk, xyz, got, published, failed>>
    BY <1>8 DEF GoSilent
  <2> QED BY <1>1, <2>1
<1>9. CASE Construct \/ Settle
  <2>1. /\ UNCHANGED <<m, mk, xyz, got, published, failed, rk>>
        /\ mpc' \notin {"copy", "copied"}
        /\ rpc' = rpc \/ (rpc \notin ReaderHolds /\ rpc' \notin ReaderHolds)
    <3>1. CASE Construct
      BY <3>1 DEF Construct, LockHeld
    <3>2. CASE Settle
      <4>1. mpc' = "ready" /\ UNCHANGED <<rpc, rk, m, published, failed, mk, xyz, got>>
        BY <3>2, Zenon DEF Settle
      <4> QED BY <4>1
    <3> QED BY <1>9, <3>1, <3>2
  <2> QED
    BY <2>1 DEF Data, MembersPublished, Rewriting, Copying, NoTornRead, Base
<1>10. CASE FetchLock
  <2>1. \A k \in Axes : ~(k < 1)
    BY <1>0
  <2> QED
    BY <1>10, <2>1
       DEF FetchLock, Data, MembersPublished, Rewriting, Copying, NoTornRead, Base
<1>11. CASE FetchAxis
  <2>1. rpc \notin ReaderHolds /\ \A k \in Axes : m[k] = published
    BY <1>11 DEF FetchAxis, LockHeld, Data, MembersPublished
  <2>2. UNCHANGED <<rpc, rk, m, got, published, failed>>
    BY <1>11 DEF FetchAxis
  <2>3. \A k \in Axes : k < mk + 1 => xyz'[k] = published
    BY <1>0, <1>11, <2>1 DEF FetchAxis, Data, Copying, ThreadTypeOK
  <2>4. \/ mpc' = "copy" /\ mk' = mk + 1
        \/ mpc' = "copied" /\ mk = 3
    BY <1>0, <1>11 DEF FetchAxis, ThreadTypeOK
  <2>5. Copying'
    BY <1>0, <2>2, <2>3, <2>4 DEF Copying
  <2> QED
    BY <2>1, <2>2, <2>5 DEF Data, MembersPublished, Rewriting, NoTornRead
<1>12. CASE FetchUnlock
  <2>1. \A k \in Axes : xyz[k] = published
    BY <1>12 DEF FetchUnlock, Data, Copying
  <2>2. rpc \notin ReaderHolds /\ UNCHANGED <<rpc, m, published>> /\ got' = xyz
        /\ mpc' = "ready"
    BY <1>12 DEF FetchUnlock, LockHeld
  <2> QED
    BY <2>1, <2>2 DEF Data, MembersPublished, Rewriting, Copying, NoTornRead
<1>13. CASE Exit \/ Join
  <2>1. /\ UNCHANGED <<rpc, m, mk, xyz, got, published, failed, rk>>
        /\ mpc' \notin {"copy", "copied"}
    BY <1>13 DEF Exit, Stop, Join
  <2> QED
    BY <2>1 DEF Data, MembersPublished, Rewriting, Copying, NoTornRead, Base
<1>14. CASE UNCHANGED threadVars
  <2>1. UNCHANGED <<rk, rpc, m, mpc, mk, xyz, got, published, failed>>
    BY <1>14 DEF threadVars
  <2> QED BY <1>1, <2>1
<1> QED
  BY <1>2, <1>3, <1>4, <1>5, <1>6, <1>7, <1>8, <1>9, <1>10, <1>11, <1>12,
     <1>13, <1>14
     DEF ThreadNext, ReaderStep, FetchStep

-----------------------------------------------------------------------------
THEOREM ThreadInvariance == ThreadSpec => []ThreadInv
<1>1. ThreadInit => ThreadInv
  BY InitTypeOK, InitLockHeld, InitData DEF ThreadInv, Data
<1>2. ThreadInv /\ [ThreadNext]_threadVars => ThreadInv'
  BY NextTypeOK, NextLockHeld, NextData DEF ThreadInv, Data
<1> QED
  BY <1>1, <1>2, PTL DEF ThreadSpec

\* A getter never returns axes of different readings (bno_thread.cpp:76-95
\* against the section of reader_thread, 52-56).
THEOREM NoTornReads == ThreadSpec => []NoTornRead
BY ThreadInvariance, PTL DEF ThreadInv

\* Outside the reader's section all members hold the last published value.
THEOREM MembersArePublished == ThreadSpec => []MembersPublished
BY ThreadInvariance, PTL DEF ThreadInv

-----------------------------------------------------------------------------
LEMMA InitImplements == ThreadInit => Register!Init
BY DEF ThreadInit, Register!Init, Zero, Axes

\* The unlock at the end of the reader's section is Publish, the unlock at
\* the end of a getter is Fetch, and every other step stutters.
LEMMA StepImplements ==
  ThreadInv /\ [ThreadNext]_threadVars => [Register!Next]_<<published, got>>
<1> SUFFICES ASSUME ThreadInv, [ThreadNext]_threadVars
             PROVE  Register!Next \/ UNCHANGED <<published, got>>
  BY DEF Register!Next
<1> USE DEF mainVars, readerVars
<1>0. Axes = 1 .. 3
  BY DEF Axes, Register!Axes
<1>1. CASE ReaderUnlock
  <2>1. published' = Register!Decayed(Base) /\ UNCHANGED got
    BY <1>0, <1>1 DEF ReaderUnlock, ThreadInv, Rewriting
  <2>2. Register!Decayed(Base) \in {Register!Fresh(published), Register!Decayed(published)}
    BY StoredThenDivided DEF Base, ThreadInv, ThreadTypeOK
  <2> QED BY <2>1, <2>2 DEF Register!Next, Register!Publish
<1>2. CASE FetchUnlock
  <2>1. got' = [k \in Axes |-> published] /\ UNCHANGED published
    BY <1>2 DEF FetchUnlock, ThreadInv, Copying, ThreadTypeOK
  <2> QED BY <2>1 DEF Register!Next, Register!Fetch, Axes
<1>3. CASE ReaderBegin \/ ReaderTest \/ ReaderLock \/ ReaderStore \/ ReaderDivide
  BY <1>3 DEF ReaderBegin, ReaderTest, ReaderLock, ReaderStore, ReaderDivide
<1>4. CASE ReaderRead \/ GoSilent
  BY <1>4 DEF ReaderRead, GoSilent
<1>5. CASE Construct
  BY <1>5 DEF Construct
<1>6. CASE Settle
  BY <1>6, Zenon DEF Settle
<1>7. CASE FetchLock \/ FetchAxis \/ Exit \/ Join
  BY <1>7 DEF FetchLock, FetchAxis, Exit, Stop, Join
<1>8. CASE UNCHANGED threadVars
  BY <1>8 DEF threadVars
<1> QED
  BY <1>1, <1>2, <1>3, <1>4, <1>5, <1>6, <1>7, <1>8
     DEF ThreadNext, ReaderStep, FetchStep

\* The two threads implement the register: each section of several writes or
\* copies takes effect in one step, and nothing else changes what it holds.
THEOREM ImplementsRegister == ThreadSpec => RegisterSpec
BY InitImplements, StepImplements, ThreadInvariance, PTL
   DEF ThreadSpec, RegisterSpec, Register!Spec

-----------------------------------------------------------------------------
(* MotorDriver.                                                              *)

\* What a shell may have still to run: a command line, or the rest of one.
DutyLine(d) == << [set |-> "duty", to |-> d] >>
Lines ==
  {<<>>, OnLine, OffLine} \cup {SetLine(d) : d \in SETTINGS}
                          \cup {DutyLine(d) : d \in SETTINGS}

ShellsTyped == shell \in [{"main", "handler"} -> Lines]

\* Where the process may be when it is no longer constructed or gone, and that
\* only the handler has a shell of its own.
Ending ==
  /\ mpc = "aborted" => pc = "boot"
  /\ mpc = "gone" => pc = "exit"
  /\ pc # "handler" => Pclosed("handler")
  /\ overlap => pc \in {"handler", "exit"}

Own == [pwm |-> TRUE, range |-> cand, duty |-> cand]

\* How far the commands of each call have come, if none has failed.
Commands ==
  /\ pc = "boot" => Pclosed("main") /\ ~pin.pwm
  /\ pc = "on" => shell.main = OnLine \/ (Pclosed("main") /\ pin.pwm = TRUE)
  /\ pc = "optimize" => Pclosed("main") /\ pin.pwm = TRUE
  /\ pc = "set" =>
       \/ shell.main = SetLine(cand) /\ pin.pwm = TRUE
       \/ shell.main = DutyLine(cand) /\ pin.pwm = TRUE /\ pin.range = cand
       \/ Pclosed("main") /\ pin = Own
  /\ pc = "measure" => Pclosed("main") /\ pin = Own
  /\ pc = "off" => shell.main = OffLine \/ (Pclosed("main") /\ IsLow)
  /\ (pc = "handler" /\ ~overlap) =>
       /\ Pclosed("main")
       /\ shell.handler = OffLine \/ (Pclosed("handler") /\ IsLow)
  /\ (pc = "exit" /\ ~overlap) => Pclosed("main") /\ IsLow

DriverInv ==
  /\ TypeOK /\ ShellsTyped /\ Ending
  /\ fails = 0 => Commands

-----------------------------------------------------------------------------
(* The command lines.                                                        *)

LEMMA LinesDiffer ==
  /\ OnLine # <<>> /\ OffLine # <<>>
  /\ \A d \in SETTINGS : SetLine(d) # <<>> /\ DutyLine(d) # <<>>
BY DEF OnLine, OffLine, SetLine, DutyLine

\* What is left of a line when its first command has been run, and what that
\* command sets.
LEMMA LineSteps ==
  /\ Tail(OnLine) = <<>> /\ Head(OnLine) = [set |-> "pwm", to |-> TRUE]
  /\ Tail(OffLine) = <<>> /\ Head(OffLine) = [set |-> "duty", to |-> 0]
  /\ \A d : Tail(SetLine(d)) = DutyLine(d) /\ Tail(DutyLine(d)) = <<>>
  /\ \A d : Head(SetLine(d)) = [set |-> "range", to |-> d]
  /\ \A d : Head(DutyLine(d)) = [set |-> "duty", to |-> d]
BY DEF OnLine, OffLine, SetLine, DutyLine

LEMMA LineLength == \A l \in Lines : Len(l) <= 2
<1>1. ASSUME NEW a, NEW b PROVE Len(<<a>>) <= 2 /\ Len(<<a, b>>) <= 2
  OBVIOUS
<1>2. Len(<<>>) <= 2 /\ Len(OnLine) <= 2 /\ Len(OffLine) <= 2
  BY <1>1 DEF OnLine, OffLine
<1>3. \A d : Len(SetLine(d)) <= 2 /\ Len(DutyLine(d)) <= 2
  BY <1>1 DEF SetLine, DutyLine
<1> QED
  BY <1>2, <1>3, Zenon DEF Lines

\* A shell's step keeps its rest a line, and sets one part of the pin.
LEMMA ShellRuns ==
  ASSUME NEW l \in Lines, l # <<>>, DriverAssumption
  PROVE  /\ Tail(l) \in Lines
         /\ \/ Head(l) = [set |-> "pwm", to |-> TRUE]
            \/ \E d \in SETTINGS \cup {0} : Head(l) = [set |-> "range", to |-> d]
            \/ \E d \in SETTINGS \cup {0} : Head(l) = [set |-> "duty", to |-> d]
<1>1. CASE l = OnLine
  BY <1>1, LineSteps DEF Lines
<1>2. CASE l = OffLine
  BY <1>2, LineSteps DEF Lines
<1>3. ASSUME NEW d \in SETTINGS, l = SetLine(d)
      PROVE  Tail(l) \in Lines /\ Head(l) = [set |-> "range", to |-> d]
  BY <1>3, LineSteps DEF Lines
<1>4. ASSUME NEW d \in SETTINGS, l = DutyLine(d)
      PROVE  Tail(l) \in Lines /\ Head(l) = [set |-> "duty", to |-> d]
  BY <1>4, LineSteps DEF Lines
<1> QED
  BY <1>1, <1>2, <1>3, <1>4 DEF Lines

LEMMA CommandSets ==
  ASSUME NEW f, NEW v, NEW c, c = [set |-> f, to |-> v]
  PROVE  c.set = f /\ c.to = v
OBVIOUS

LEMMA LinesAre ==
  /\ <<>> \in Lines /\ OnLine \in Lines /\ OffLine \in Lines
  /\ \A d \in SETTINGS : SetLine(d) \in Lines
BY DEF Lines

\* popen_cmd hands a line to a shell, or fails.
LEMMA PopenTyped ==
  ASSUME TypeOK, ShellsTyped, NEW who \in {"main", "handler"}, NEW l \in Lines,
         Popen(who, l)
  PROVE  /\ shell' \in [{"main", "handler"} -> Lines] /\ fails' \in 0 .. MAX_FAILS
         /\ fails' = 0 => fails = 0 /\ shell' = [shell EXCEPT ![who] = l]
BY DriverAssumption DEF Popen, TypeOK, ShellsTyped

-----------------------------------------------------------------------------
(* Type correctness.                                                         *)

\* The variables of the program alone, without what BnoThread keeps.
DriverTyped ==
  /\ pc \in {"boot", "on", "optimize", "set", "measure", "off", "exit", "handler"}
  /\ cand \in SETTINGS \cup {0}
  /\ evals \in 0 .. MAX_EVALS
  /\ taken \in BOOLEAN
  /\ pin \in [pwm : BOOLEAN, range : SETTINGS \cup {0}, duty : SETTINGS \cup {0}]
  /\ fails \in 0 .. MAX_FAILS
  /\ signalled \in BOOLEAN /\ overlap \in BOOLEAN

LEMMA TypesSplit == ShellsTyped => (TypeOK <=> (ThreadTypeOK /\ DriverTyped))
<1> SUFFICES ASSUME ShellsTyped PROVE TypeOK <=> (ThreadTypeOK /\ DriverTyped)
  OBVIOUS
<1>1. \A who \in {"main", "handler"} : Len(shell[who]) <= 2
  BY LineLength DEF ShellsTyped
<1> QED
  BY <1>1, Zenon DEF TypeOK, DriverTyped

\* What a step does to the variables of BnoThread: a step of that module, a
\* stutter, or the end that exit() makes of the main thread.
LEMMA ThreadPart ==
  ASSUME Next
  PROVE  \/ [ThreadNext]_threadVars
         \/ Stop
         \/ mpc' = "gone"
            /\ UNCHANGED <<mutex, is_running, readerVars, mk, xyz, got, silent>>
<1>1. CASE Reader
  BY <1>1 DEF Reader, ThreadNext
<1>2. CASE Boot
  BY <1>2 DEF Boot, ThreadNext
<1>3. CASE Measure
  BY <1>3 DEF Measure, ThreadNext
<1>4. CASE JoinReader
  BY <1>4 DEF JoinReader, ThreadNext
<1>5. CASE ReturnFromMain
  BY <1>5 DEF ReturnFromMain
<1>6. CASE HandlerExit
  BY <1>6, Zenon DEF HandlerExit
<1>7. CASE \/ EnablePwm \/ EnablePwmDone \/ Evaluate \/ SetDone
           \/ WindowCloses \/ DisablePwm \/ Sigint \/ Shell
  <2>1. UNCHANGED threadVars
    BY <1>7, Zenon DEF EnablePwm, EnablePwmDone, Evaluate, SetDone, WindowCloses,
         DisablePwm, Sigint, Shell, ShellStep
  <2> QED
    BY <2>1
<1> QED
  BY <1>1, <1>2, <1>3, <1>4, <1>5, <1>6, <1>7 DEF Next, Main

LEMMA StepThreadTypeOK == ASSUME ThreadTypeOK, [Next]_vars PROVE ThreadTypeOK'
<1>1. CASE [ThreadNext]_threadVars
  BY <1>1, NextTypeOK
<1>2. CASE Stop
  BY <1>2 DEF Stop, ThreadTypeOK, readerVars
<1>3. CASE mpc' = "gone"
           /\ UNCHANGED <<mutex, is_running, readerVars, mk, xyz, got, silent>>
  BY <1>3 DEF ThreadTypeOK, readerVars
<1>4. CASE UNCHANGED vars
  BY <1>4, <1>1 DEF vars
<1> QED
  BY <1>1, <1>2, <1>3, <1>4, ThreadPart

\* The shell that runs a command sets one part of the pin with it.
LEMMA ShellStepTyped ==
  ASSUME DriverTyped, ShellsTyped, NEW who \in {"main", "handler"}, ShellStep(who)
  PROVE  /\ ShellsTyped'
         /\ pin' \in [pwm : BOOLEAN, range : SETTINGS \cup {0}, duty : SETTINGS \cup {0}]
         /\ fails' \in 0 .. MAX_FAILS /\ (fails' = 0 => fails = 0)
<1>1. shell[who] \in Lines /\ shell[who] # <<>>
  BY DEF ShellsTyped, ShellStep
<1> DEFINE cmd == Head(shell[who])
<1>2. /\ Tail(shell[who]) \in Lines
      /\ \/ cmd = [set |-> "pwm", to |-> TRUE]
         \/ \E d \in SETTINGS \cup {0} : cmd = [set |-> "range", to |-> d]
         \/ \E d \in SETTINGS \cup {0} : cmd = [set |-> "duty", to |-> d]
  BY <1>1, ShellRuns, DriverAssumption
<1>3. /\ shell' = [shell EXCEPT ![who] = Tail(@)]
      /\ \/ pin' = [pin EXCEPT ![cmd.set] = cmd.to] /\ fails' = fails
         \/ fails < MAX_FAILS /\ fails' = fails + 1 /\ pin' = pin
  BY DEF ShellStep
<1>4. ShellsTyped'
  BY <1>2, <1>3 DEF ShellsTyped
<1> HIDE DEF cmd
<1>5. pin' \in [pwm : BOOLEAN, range : SETTINGS \cup {0}, duty : SETTINGS \cup {0}]
  <2>1. pin \in [pwm : BOOLEAN, range : SETTINGS \cup {0}, duty : SETTINGS \cup {0}]
    BY DEF DriverTyped
  <2>2. CASE pin' = pin
    BY <2>1, <2>2
  <2>3. CASE pin' = [pin EXCEPT !["pwm"] = TRUE]
    BY <2>1, <2>3
  <2>4. ASSUME NEW d \in SETTINGS \cup {0}, pin' = [pin EXCEPT !["range"] = d]
        PROVE  pin' \in [pwm : BOOLEAN, range : SETTINGS \cup {0}, duty : SETTINGS \cup {0}]
    BY <2>1, <2>4
  <2>5. ASSUME NEW d \in SETTINGS \cup {0}, pin' = [pin EXCEPT !["duty"] = d]
        PROVE  pin' \in [pwm : BOOLEAN, range : SETTINGS \cup {0}, duty : SETTINGS \cup {0}]
    BY <2>1, <2>5
  <2> QED
    BY <1>2, <1>3, <2>2, <2>3, <2>4, <2>5
<1>6. fails' \in 0 .. MAX_FAILS /\ (fails' = 0 => fails = 0)
  BY <1>3, DriverAssumption DEF DriverTyped
<1> QED
  BY <1>4, <1>5, <1>6

LEMMA StepDriverTyped ==
  ASSUME TypeOK, ShellsTyped, [Next]_vars
  PROVE  DriverTyped' /\ ShellsTyped'
<1>0. DriverTyped
  BY TypesSplit
<1> USE DEF DriverTyped, ShellsTyped
<1>1. CASE Reader \/ Boot \/ JoinReader \/ UNCHANGED vars
  <2>1. UNCHANGED driverVars
    BY <1>1 DEF Reader, Boot, JoinReader, vars
  <2> QED
    BY <1>0, <2>1 DEF driverVars
<1>2. CASE EnablePwm
  <2>1. /\ pc' = "on" /\ Popen("main", OnLine)
        /\ UNCHANGED <<cand, evals, taken, pin, signalled, overlap>>
    BY <1>2 DEF EnablePwm
  <2> QED
    BY <1>0, <2>1, PopenTyped, LinesAre
<1>3. CASE EnablePwmDone \/ WindowCloses
  <2>1. /\ pc' = "optimize"
        /\ UNCHANGED <<cand, evals, taken, shell, pin, fails, signalled, overlap>>
    BY <1>3 DEF EnablePwmDone, WindowCloses
  <2> QED
    BY <1>0, <2>1
<1>4. CASE Evaluate
  <2>1. PICK d \in SETTINGS : cand' = d /\ Popen("main", SetLine(d))
    BY <1>4 DEF Evaluate
  <2>2. /\ pc' = "set" /\ evals < MAX_EVALS /\ evals' = evals + 1
        /\ UNCHANGED <<taken, pin, signalled, overlap>>
    BY <1>4 DEF Evaluate
  <2>3. shell' \in [{"main", "handler"} -> Lines] /\ fails' \in 0 .. MAX_FAILS
    BY <2>1, PopenTyped, LinesAre
  <2> QED
    BY <1>0, <2>1, <2>2, <2>3, DriverAssumption
<1>5. CASE SetDone
  <2>1. /\ pc' = "measure" /\ taken' = FALSE
        /\ UNCHANGED <<cand, evals, shell, pin, fails, signalled, overlap>>
    BY <1>5 DEF SetDone
  <2> QED
    BY <1>0, <2>1
<1>6. CASE Measure
  <2>1. UNCHANGED <<pc, cand, evals, shell, pin, fails, signalled, overlap>>
    BY <1>6 DEF Measure
  <2>2. taken' \in BOOLEAN
    BY <1>6, Zenon DEF Measure
  <2> QED
    BY <1>0, <2>1, <2>2
<1>7. CASE DisablePwm
  <2>1. /\ pc' = "off" /\ Popen("main", OffLine)
        /\ UNCHANGED <<cand, evals, taken, pin, signalled, overlap>>
    BY <1>7 DEF DisablePwm
  <2> QED
    BY <1>0, <2>1, PopenTyped, LinesAre
<1>8. CASE ReturnFromMain \/ HandlerExit
  <2>1. /\ pc' = "exit"
        /\ UNCHANGED <<cand, evals, taken, shell, pin, fails, signalled, overlap>>
    BY <1>8, Zenon DEF ReturnFromMain, HandlerExit
  <2> QED
    BY <1>0, <2>1
<1>9. CASE Shell
  <2>1. PICK who \in {"main", "handler"} : ShellStep(who)
    BY <1>9 DEF Shell
  <2>2. UNCHANGED <<pc, cand, evals, taken, signalled, overlap>>
    BY <2>1 DEF ShellStep
  <2>3. /\ ShellsTyped' /\ fails' \in 0 .. MAX_FAILS
        /\ pin' \in [pwm : BOOLEAN, range : SETTINGS \cup {0}, duty : SETTINGS \cup {0}]
    BY <1>0, <2>1, ShellStepTyped
  <2> QED
    BY <1>0, <2>2, <2>3
<1>10. CASE Sigint
  <2>1. /\ pc' = "handler" /\ signalled' = TRUE
        /\ UNCHANGED <<cand, evals, taken, pin>>
    BY <1>10 DEF Sigint
  <2>2. PICK rest \in {shell.main, <<>>} :
          /\ overlap' = (rest # <<>>)
          /\ \/ shell' = [main |-> rest, handler |-> OffLine] /\ UNCHANGED fails
             \/ /\ fails < MAX_FAILS /\ fails' = fails + 1
                /\ shell' = [shell EXCEPT !.main = rest]
    BY <1>10 DEF Sigint
  <2>3. rest \in Lines /\ overlap' \in BOOLEAN
    BY <1>0, <2>2, LinesAre
  <2>4. shell' \in [{"main", "handler"} -> Lines] /\ fails' \in 0 .. MAX_FAILS
    BY <1>0, <2>2, <2>3, LinesAre, DriverAssumption
  <2> QED
    BY <1>0, <2>1, <2>3, <2>4
<1> QED
  BY <1>1, <1>2, <1>3, <1>4, <1>5, <1>6, <1>7, <1>8, <1>9, <1>10 DEF Next, Main

LEMMA StepTyped ==
  ASSUME TypeOK, ShellsTyped, [Next]_vars
  PROVE  TypeOK' /\ ShellsTyped'
<1>1. ThreadTypeOK'
  BY StepThreadTypeOK, TypesSplit
<1>2. DriverTyped' /\ ShellsTyped'
  BY StepDriverTyped
<1>3. ShellsTyped' => (TypeOK' <=> (ThreadTypeOK' /\ DriverTyped'))
  BY TypesSplit, PTL
<1> QED
  BY <1>1, <1>2, <1>3

-----------------------------------------------------------------------------
(* Where the process ends.                                                   *)

LEMMA StepEnding ==
  ASSUME TypeOK, ShellsTyped, Ending, [Next]_vars
  PROVE  Ending'
<1> USE DEF Ending, Pclosed
<1>1. CASE Reader
  <2>1. UNCHANGED <<mpc, pc, shell, overlap>>
    BY <1>1 DEF Reader, driverVars, ReaderStep, GoSilent, ReaderBegin, ReaderTest,
         ReaderLock, ReaderRead, ReaderStore, ReaderDivide, ReaderUnlock, mainVars
  <2> QED
    BY <2>1
<1>2. CASE Boot
  <2>1. /\ UNCHANGED <<pc, shell, overlap>> /\ pc = "boot"
        /\ mpc' \in {"settle", "aborted", "ready"}
    BY <1>2 DEF Boot, driverVars, Construct, Settle
  <2> QED
    BY <2>1
<1>3. CASE Measure \/ JoinReader
  <2>1. UNCHANGED <<pc, shell, overlap>>
    BY <1>3 DEF Measure, JoinReader, driverVars
  <2>2. mpc' # "aborted" /\ (mpc' = "gone" => pc = "exit")
    BY <1>3 DEF Measure, JoinReader, FetchStep, FetchLock, FetchAxis, FetchUnlock, Join
  <2> QED
    BY <2>1, <2>2
<1>4. CASE EnablePwm \/ Evaluate \/ DisablePwm
  <2>1. /\ UNCHANGED <<mpc, overlap>> /\ pc \in {"boot", "optimize"}
        /\ pc' \in {"on", "set", "off"} /\ mpc # "aborted"
    BY <1>4 DEF EnablePwm, Evaluate, DisablePwm, threadVars, mainVars
  <2>2. PICK l : Popen("main", l)
    BY <1>4, Zenon DEF EnablePwm, Evaluate, DisablePwm
  <2>3. shell'.handler = shell.handler
    BY <2>2 DEF Popen, ShellsTyped
  <2> QED
    BY <2>1, <2>3
<1>5. CASE EnablePwmDone \/ SetDone \/ WindowCloses
  <2>1. /\ UNCHANGED <<mpc, overlap, shell>> /\ pc \in {"on", "set", "measure"}
        /\ pc' \in {"optimize", "measure"}
    BY <1>5 DEF EnablePwmDone, SetDone, WindowCloses, threadVars, mainVars
  <2> QED
    BY <2>1
<1>6. CASE ReturnFromMain
  <2>1. /\ UNCHANGED <<shell, overlap>> /\ pc = "off" /\ pc' = "exit" /\ mpc' = "join"
    BY <1>6 DEF ReturnFromMain, Stop
  <2> QED
    BY <2>1
<1>7. CASE HandlerExit
  <2>1. /\ UNCHANGED <<shell, overlap>> /\ pc' = "exit" /\ Pclosed("handler")
        /\ mpc' \in {"join", "gone"}
    BY <1>7, Zenon DEF HandlerExit, Stop
  <2> QED
    BY <2>1
<1>8. CASE Sigint
  <2>1. pc' = "handler" /\ mpc' = mpc /\ mpc \notin {"gone", "aborted"}
    BY <1>8 DEF Sigint, threadVars, mainVars
  <2> QED
    BY <2>1
<1>9. CASE Shell
  <2>1. PICK who \in {"main", "handler"} : ShellStep(who)
    BY <1>9 DEF Shell
  <2>2. UNCHANGED <<mpc, pc, overlap>> /\ shell[who] # <<>>
        /\ shell' = [shell EXCEPT ![who] = Tail(@)]
    BY <2>1 DEF ShellStep, threadVars, mainVars
  <2>3. pc # "handler" => who = "main" /\ shell'.handler = shell.handler
    BY <2>2 DEF ShellsTyped
  <2> QED
    BY <2>2, <2>3
<1>10. CASE UNCHANGED vars
  BY <1>10 DEF vars, driverVars, threadVars, mainVars
<1> QED
  BY <1>1, <1>2, <1>3, <1>4, <1>5, <1>6, <1>7, <1>8, <1>9, <1>10 DEF Next, Main

-----------------------------------------------------------------------------
(* How far the commands have come.                                           *)

\* main()'s shell runs the next command of its line.
LEMMA MainShellCommands ==
  ASSUME DriverTyped, ShellsTyped, Ending, Commands, ShellStep("main"), fails' = 0
  PROVE  Commands'
<1>1. /\ UNCHANGED <<pc, cand, overlap>> /\ shell.main # <<>>
      /\ shell'.main = Tail(shell.main) /\ shell'.handler = shell.handler
      /\ pin' = [pin EXCEPT ![Head(shell.main).set] = Head(shell.main).to]
  BY DEF ShellStep, DriverTyped, ShellsTyped
<1>2. pin \in [pwm : BOOLEAN, range : SETTINGS \cup {0}, duty : SETTINGS \cup {0}]
  BY DEF DriverTyped
<1> USE DEF Pclosed
<1>3. CASE pc = "on"
  <2>1. shell.main = OnLine
    BY <1>1, <1>3 DEF Commands
  <2>2. shell'.main = <<>> /\ pin' = [pin EXCEPT !["pwm"] = TRUE]
    <3>1. Head(shell.main).set = "pwm" /\ Head(shell.main).to = TRUE
      BY <2>1, LineSteps, CommandSets, Zenon
    <3> QED
      BY <1>1, <2>1, <3>1, LineSteps, Zenon
  <2>3. pin'.pwm = TRUE
    BY <1>2, <2>2
  <2> QED
    BY <1>1, <1>3, <2>2, <2>3 DEF Commands
<1>4. CASE pc = "set" /\ shell.main = SetLine(cand)
  <2>1. /\ shell'.main = DutyLine(cand) /\ pin' = [pin EXCEPT !["range"] = cand]
        /\ pin.pwm = TRUE
    <3>0. Head(shell.main) = [set |-> "range", to |-> cand]
      BY <1>4, LineSteps
    <3>1. Head(shell.main).set = "range" /\ Head(shell.main).to = cand
      BY <3>0, CommandSets, Zenon
    <3>2. pin.pwm = TRUE
      BY <1>1, <1>4 DEF Commands, Own
    <3> QED
      BY <1>1, <1>4, <3>1, <3>2, LineSteps, Zenon
  <2>2. pin'.pwm = TRUE /\ pin'.range = cand
    BY <1>2, <2>1
  <2> QED
    BY <1>1, <1>4, <2>1, <2>2 DEF Commands
<1>5. CASE pc = "set" /\ shell.main # SetLine(cand)
  <2>1. shell.main = DutyLine(cand) /\ pin.pwm = TRUE /\ pin.range = cand
    BY <1>1, <1>5 DEF Commands
  <2>2. shell'.main = <<>> /\ pin' = [pin EXCEPT !["duty"] = cand]
    <3>0. Head(shell.main) = [set |-> "duty", to |-> cand]
      BY <2>1, LineSteps
    <3>1. Head(shell.main).set = "duty" /\ Head(shell.main).to = cand
      BY <3>0, CommandSets, Zenon
    <3> QED
      BY <1>1, <2>1, <3>1, LineSteps, Zenon
  <2>3. pin' = [pwm |-> TRUE, range |-> cand, duty |-> cand]
    BY <1>2, <2>1, <2>2
  <2> QED
    BY <1>1, <1>5, <2>2, <2>3 DEF Commands, Own
<1>6. CASE pc = "off"
  <2>1. shell.main = OffLine
    BY <1>1, <1>6 DEF Commands
  <2>2. shell'.main = <<>> /\ pin' = [pin EXCEPT !["duty"] = 0]
    <3>1. Head(shell.main).set = "duty" /\ Head(shell.main).to = 0
      BY <2>1, LineSteps, CommandSets, Zenon
    <3> QED
      BY <1>1, <2>1, <3>1, LineSteps, Zenon
  <2>3. IsLow'
    BY <1>2, <2>2 DEF IsLow
  <2> QED
    BY <1>1, <1>6, <2>2, <2>3 DEF Commands
<1>7. CASE pc \in {"handler", "exit"} /\ overlap
  BY <1>1, <1>7 DEF Commands
<1>8. pc \notin {"boot", "optimize", "measure"}
      /\ (pc \in {"handler", "exit"} => overlap)
  BY <1>1 DEF Commands
<1> QED
  BY <1>3, <1>4, <1>5, <1>6, <1>7, <1>8 DEF DriverTyped

\* The handler's shell runs its only command.
LEMMA HandlerShellCommands ==
  ASSUME DriverTyped, ShellsTyped, Ending, Commands, ShellStep("handler"), fails' = 0
  PROVE  Commands'
<1>1. /\ UNCHANGED <<pc, cand, overlap>> /\ shell.handler # <<>>
      /\ shell'.handler = Tail(shell.handler) /\ shell'.main = shell.main
      /\ pin' = [pin EXCEPT ![Head(shell.handler).set] = Head(shell.handler).to]
  BY DEF ShellStep, DriverTyped, ShellsTyped
<1>2. pc = "handler"
  BY <1>1 DEF Ending, Pclosed
<1>3. CASE overlap
  BY <1>1, <1>2, <1>3 DEF Commands
<1>4. CASE ~overlap
  <2>1. shell.handler = OffLine /\ shell.main = <<>>
    BY <1>1, <1>2, <1>4 DEF Commands, Pclosed
  <2>2. shell'.handler = <<>> /\ pin' = [pin EXCEPT !["duty"] = 0]
    <3>1. Head(shell.handler).set = "duty" /\ Head(shell.handler).to = 0
      BY <2>1, LineSteps, CommandSets, Zenon
    <3> QED
      BY <1>1, <2>1, <3>1, LineSteps, Zenon
  <2>3. IsLow'
    BY <2>2 DEF IsLow, DriverTyped
  <2> QED
    BY <1>1, <1>2, <2>1, <2>2, <2>3 DEF Commands, Pclosed
<1> QED
  BY <1>3, <1>4

LEMMA StepCommands ==
  ASSUME DriverInv, [Next]_vars, fails' = 0
  PROVE  Commands'
<1>0. DriverTyped /\ ShellsTyped /\ Ending
  BY TypesSplit DEF DriverInv
<1> USE DEF Pclosed
<1>1. CASE Reader \/ Boot \/ Measure \/ JoinReader \/ UNCHANGED vars
  <2>1. UNCHANGED <<pc, cand, shell, pin, fails, overlap>>
    BY <1>1 DEF Reader, Boot, Measure, JoinReader, vars, driverVars
  <2> QED
    BY <2>1 DEF DriverInv, Commands, Own, IsLow
<1>2. CASE EnablePwm
  <2>1. /\ pc = "boot" /\ pc' = "on" /\ Popen("main", OnLine)
    BY <1>2 DEF EnablePwm
  <2>2. shell'.main = OnLine
    BY <1>0, <2>1, PopenTyped, LinesAre DEF DriverInv, ShellsTyped
  <2> QED
    BY <2>1, <2>2 DEF Commands
<1>3. CASE EnablePwmDone
  <2>1. /\ pc = "on" /\ pc' = "optimize" /\ shell.main = <<>>
        /\ UNCHANGED <<shell, pin, fails>>
    BY <1>3 DEF EnablePwmDone
  <2> QED
    BY <2>1, LinesDiffer DEF DriverInv, Commands
<1>4. CASE Evaluate
  <2>1. PICK d \in SETTINGS : cand' = d /\ Popen("main", SetLine(d))
    BY <1>4 DEF Evaluate
  <2>2. pc = "optimize" /\ pc' = "set" /\ pin' = pin
    BY <1>4 DEF Evaluate
  <2>3. fails = 0 /\ shell'.main = SetLine(cand')
    BY <1>0, <2>1, PopenTyped, LinesAre DEF DriverInv, ShellsTyped
  <2> QED
    BY <2>2, <2>3 DEF DriverInv, Commands
<1>5. CASE SetDone
  <2>1. /\ pc = "set" /\ pc' = "measure" /\ shell.main = <<>>
        /\ UNCHANGED <<shell, pin, fails, cand>>
    BY <1>5 DEF SetDone
  <2>2. cand \in SETTINGS \/ cand = 0
    BY <1>0 DEF DriverTyped
  <2>3. SetLine(cand) # <<>> /\ DutyLine(cand) # <<>>
    BY DEF SetLine, DutyLine
  <2> QED
    BY <2>1, <2>3 DEF DriverInv, Commands, Own
<1>6. CASE WindowCloses
  <2>1. /\ pc = "measure" /\ pc' = "optimize"
        /\ UNCHANGED <<shell, pin, fails>>
    BY <1>6 DEF WindowCloses
  <2> QED
    BY <2>1 DEF DriverInv, Commands, Own
<1>7. CASE DisablePwm
  <2>1. pc' = "off" /\ Popen("main", OffLine)
    BY <1>7 DEF DisablePwm
  <2>2. shell'.main = OffLine
    BY <1>0, <2>1, PopenTyped, LinesAre DEF DriverInv, ShellsTyped
  <2> QED
    BY <2>1, <2>2 DEF Commands
<1>8. CASE ReturnFromMain
  <2>1. /\ pc = "off" /\ pc' = "exit" /\ shell.main = <<>>
        /\ UNCHANGED <<shell, pin, fails>>
    BY <1>8 DEF ReturnFromMain
  <2> QED
    BY <2>1, LinesDiffer DEF DriverInv, Commands, IsLow
<1>9. CASE HandlerExit
  <2>1. /\ pc = "handler" /\ pc' = "exit" /\ shell.handler = <<>>
        /\ UNCHANGED <<shell, pin, fails, overlap>>
    BY <1>9, Zenon DEF HandlerExit
  <2> QED
    BY <2>1, LinesDiffer DEF DriverInv, Commands, IsLow
<1>10. CASE Shell
  <2>1. PICK who \in {"main", "handler"} : ShellStep(who)
    BY <1>10 DEF Shell
  <2>2. fails = 0
    BY <1>0, <2>1, ShellStepTyped
  <2>3. Commands
    BY <2>2 DEF DriverInv
  <2> QED
    BY <1>0, <2>1, <2>3, MainShellCommands, HandlerShellCommands
<1>11. CASE Sigint
  <2>1. PICK rest \in {shell.main, <<>>} :
          /\ overlap' = (rest # <<>>)
          /\ \/ shell' = [main |-> rest, handler |-> OffLine] /\ UNCHANGED fails
             \/ /\ fails < MAX_FAILS /\ fails' = fails + 1
                /\ shell' = [shell EXCEPT !.main = rest]
    BY <1>11 DEF Sigint
  <2>2. fails' # fails + 1
    BY <1>0 DEF DriverTyped
  <2>3. shell'.main = rest /\ shell'.handler = OffLine /\ pc' = "handler"
    BY <1>11, <2>1, <2>2 DEF Sigint
  <2> QED
    BY <2>1, <2>3, Zenon DEF Commands
<1> QED
  BY <1>1, <1>2, <1>3, <1>4, <1>5, <1>6, <1>7, <1>8, <1>9, <1>10, <1>11 DEF Next, Main

-----------------------------------------------------------------------------
LEMMA InitDriver == Init => DriverInv
<1> SUFFICES ASSUME Init PROVE DriverInv
  OBVIOUS
<1>1. ThreadTypeOK
  BY InitTypeOK DEF Init
<1>2. shell = [main |-> <<>>, handler |-> <<>>] /\ shell.main = <<>> /\ shell.handler = <<>>
  BY DEF Init
<1>3. ShellsTyped
  BY <1>2, LinesAre DEF ShellsTyped
<1>4. taken \in BOOLEAN /\ signalled \in BOOLEAN /\ overlap \in BOOLEAN /\ ~overlap
  BY Zenon DEF Init
<1>5. DriverTyped
  BY <1>4, DriverAssumption DEF Init, DriverTyped
<1>6. Ending
  BY <1>2, <1>4 DEF Init, ThreadInit, Ending, Pclosed
<1>7. Commands
  BY <1>2 DEF Init, Commands, Pclosed
<1> QED
  BY <1>1, <1>3, <1>5, <1>6, <1>7, TypesSplit DEF DriverInv

LEMMA NextDriver == DriverInv /\ [Next]_vars => DriverInv'
BY StepTyped, StepEnding, StepCommands DEF DriverInv

\* The strengthened invariant holds of every run of the program.
THEOREM DriverInvariant == Spec => []DriverInv
BY InitDriver, NextDriver, PTL DEF Spec

\* The program's state is well typed.
THEOREM DriverTypeCorrect == Spec => []TypeOK
<1>1. DriverInv => TypeOK
  BY DEF DriverInv
<1> QED
  BY <1>1, DriverInvariant, PTL

\* While a candidate is measured, the pin has its setting (main.cpp:195-197:
\* fsphere waits for its commands before it samples).
THEOREM MeasuredUnderOwnSetting == Spec => []OwnSetting
<1>1. DriverInv => OwnSetting
  BY DEF DriverInv, Commands, OwnSetting, Own
<1> QED
  BY <1>1, DriverInvariant, PTL

\* A process that ends leaves the pin low, at the end of main() and after
\* SIGINT at any point, unless a command failed or a shell was left running.
THEOREM EndsLow == Spec => []LowAtQuietEnd
<1>1. DriverInv => LowAtQuietEnd
  BY DEF DriverInv, Commands, Ending, LowAtQuietEnd, IsLow
<1> QED
  BY <1>1, DriverInvariant, PTL
=============================================================================
