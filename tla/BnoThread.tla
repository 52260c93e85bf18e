------------------------------ MODULE BnoThread ------------------------------
(***************************************************************************)
(* shared/bno_thread.cpp: the reader thread that samples the BNO055 and    *)
(* the main thread that constructs the singleton, calls its getters and    *)
(* runs its destructor at exit.                                            *)
(*                                                                         *)
(* m_x, m_y, m_z are m[1], m[2], m[3].  The reader hands their addresses   *)
(* to bno055_uart::get_linear_acceleration, which stores and then divides  *)
(* them one at a time.  is_running is a plain bool; its reads and writes   *)
(* are taken to be indivisible, as the builds make them.                   *)
(***************************************************************************)
EXTENDS Integers

CONSTANTS
  MAX_READING,  (* bound: readings told apart                               *)
  MAX_DIV,      (* bound: divisions told apart                              *)
  PROMPT_START  (* has the reader begun when usleep(1000) in the            *)
                (* constructor returns?  The code relies on it.             *)

ASSUME ThreadAssumption ==
  /\ MAX_READING \in Nat \ {0} /\ MAX_DIV \in Nat \ {0}
  /\ PROMPT_START \in BOOLEAN

VARIABLES
  mutex,       (* m_mutex: the thread that holds it, or "none"              *)
  is_running,  (* the flag the reader loop tests                            *)
  rpc,         (* where the reader thread is                                *)
  rk,          (* reader: the axis it stores or divides next                *)
  m,           (* m_x, m_y, m_z                                             *)
  mpc,         (* where the main thread is in bno_thread                    *)
  mk,          (* main: the axis it copies next                             *)
  xyz,         (* main: *x, *y, *z of the getter call in progress           *)
  got,         (* main: what the last getter call returned                  *)
  published,   (* history: the members as the reader last unlocked them     *)
  failed,      (* history: the last reading under the lock failed           *)
  silent       (* external: the sensor has stopped answering                *)

readerVars == <<rpc, rk, m, published, failed>>
mainVars   == <<mpc, mk, xyz, got>>
threadVars == <<mutex, is_running, readerVars, mainVars, silent>>

Register == INSTANCE SampleRegister WITH reg <- published

Axes  == Register!Axes
Value == Register!Value
Zero  == Register!Zero

ReaderHolds == {"read", "store", "divide", "publish"}

ThreadInit ==
  /\ published = Zero /\ got = [k \in Axes |-> Zero]
  /\ mutex = "none"
  /\ is_running = FALSE
  /\ rpc = "unborn" /\ rk = 1
  /\ m = [k \in Axes |-> Zero]
  /\ mpc = "new" /\ mk = 1
  /\ xyz = [k \in Axes |-> Zero]
  /\ failed = FALSE
  /\ silent = FALSE

-----------------------------------------------------------------------------
(* The reader thread.                                                        *)

\* reader_thread's first statement, which overwrites a stop already asked for.
ReaderBegin ==
  /\ rpc = "spawned"
  /\ is_running' = TRUE
  /\ rpc' = "test"
  /\ UNCHANGED <<mutex, rk, m, published, failed, mainVars, silent>>

\* while (is_running)
ReaderTest ==
  /\ rpc = "test"
  /\ rpc' = IF is_running THEN "lock" ELSE "over"
  /\ UNCHANGED <<mutex, is_running, rk, m, published, failed, mainVars, silent>>

\* Mutant: the reader does not wait for the mutex.
ReaderBarges ==
  /\ rpc = "lock"
  /\ mutex' = "reader"
  /\ rpc' = "read"
  /\ UNCHANGED <<is_running, rk, m, published, failed, mainVars, silent>>

ReaderLock ==
  /\ rpc = "lock" /\ mutex = "none"
  /\ mutex' = "reader"
  /\ rpc' = "read"
  /\ UNCHANGED <<is_running, rk, m, published, failed, mainVars, silent>>

\* get_xyz_at_register_block came back with a full block, or failed and left
\* x, y, z alone; a sensor that has gone silent keeps it in receive_buf.
ReaderRead ==
  /\ rpc = "read" /\ ~silent
  /\ \/ failed' = FALSE /\ rpc' = "store"
     \/ failed' = TRUE /\ rpc' = "divide"
  /\ rk' = 1
  /\ UNCHANGED <<mutex, is_running, m, published, mainVars, silent>>

\* Mutant: z is forgotten.
NextOfTwo(after) ==
  IF rk < 2 THEN rk' = rk + 1 /\ UNCHANGED rpc ELSE rk' = 1 /\ rpc' = after

\* To the next axis, or to the given place after the last one.
NextAxis(after) ==
  IF rk < 3 THEN rk' = rk + 1 /\ UNCHANGED rpc ELSE rk' = 1 /\ rpc' = after

\* *x = static_cast<double>(mk_16(...)) and so on.
ReaderStore ==
  /\ rpc = "store"
  /\ m' = [m EXCEPT ![rk] = [reading |-> Register!Fresh(@).reading, div |-> 0]]
  /\ NextAxis("divide")
  /\ UNCHANGED <<mutex, is_running, published, failed, mainVars, silent>>

\* *x /= 100.0f and so on, whatever the result was.
ReaderDivide ==
  /\ rpc = "divide"
  /\ m' = [m EXCEPT ![rk] = Register!Decayed(@)]
  /\ NextAxis("publish")
  /\ UNCHANGED <<mutex, is_running, published, failed, mainVars, silent>>

\* The lock_guard goes out of scope; then the fps sums and usleep.
ReaderUnlock ==
  /\ rpc = "publish"
  /\ mutex' = "none"
  /\ published' = m[1]
  /\ rpc' = "test"
  /\ UNCHANGED <<is_running, rk, m, failed, mainVars, silent>>

\* external: the sensor stops answering.
GoSilent ==
  /\ ~silent
  /\ silent' = TRUE
  /\ UNCHANGED <<mutex, is_running, readerVars, mainVars>>

-----------------------------------------------------------------------------
(* The main thread.                                                          *)

\* bno_thread::bno_thread(): open() and start() succeed and the thread is
\* created, or `throw;` with nothing to rethrow terminates the process.
Construct ==
  /\ mpc = "new"
  /\ \/ mpc' = "settle" /\ rpc' = "spawned"
     \/ mpc' = "aborted" /\ UNCHANGED rpc
  /\ UNCHANGED <<mutex, is_running, rk, m, published, failed, mk, xyz, got, silent>>

\* usleep(1000): "let it start sampling, so ready when returned here".
Settle ==
  /\ mpc = "settle"
  /\ PROMPT_START => rpc # "spawned"
  /\ mpc' = "ready"
  /\ UNCHANGED <<mutex, is_running, readerVars, mk, xyz, got, silent>>

\* Mutant: the getter has no lock_guard.
FetchUnlocked ==
  /\ mpc = "ready"
  /\ mpc' = "copy" /\ mk' = 1
  /\ UNCHANGED <<mutex, is_running, readerVars, xyz, got, silent>>

\* get_linear_acceleration(x,y,z) and get_linacc_sq_magnitude(): take the
\* lock, copy the axes, release it.  is_open is always true here.
FetchLock ==
  /\ mpc = "ready" /\ mutex = "none"
  /\ mutex' = "main"
  /\ mpc' = "copy" /\ mk' = 1
  /\ UNCHANGED <<is_running, readerVars, xyz, got, silent>>

\* Mutant: a fourth axis.
FetchFourAxes ==
  /\ mpc = "copy"
  /\ xyz' = [xyz EXCEPT ![mk] = m[mk]]
  /\ IF mk < 4 THEN mk' = mk + 1 /\ UNCHANGED mpc ELSE mpc' = "copied" /\ UNCHANGED mk
  /\ UNCHANGED <<mutex, is_running, readerVars, got, silent>>

FetchAxis ==
  /\ mpc = "copy"
  /\ xyz' = [xyz EXCEPT ![mk] = m[mk]]
  /\ IF mk < 3 THEN mk' = mk + 1 /\ UNCHANGED mpc ELSE mpc' = "copied" /\ UNCHANGED mk
  /\ UNCHANGED <<mutex, is_running, readerVars, got, silent>>

\* Mutant: the mutex is not given back.
FetchKeepsLock ==
  /\ mpc = "copied"
  /\ got' = xyz
  /\ mpc' = "ready"
  /\ UNCHANGED <<mutex, is_running, readerVars, mk, xyz, silent>>

FetchUnlock ==
  /\ mpc = "copied"
  /\ mutex' = "none"
  /\ got' = xyz
  /\ mpc' = "ready"
  /\ UNCHANGED <<is_running, readerVars, mk, xyz, silent>>

\* Mutant: the destructor leaves is_running set.
StopWithoutFlag ==
  /\ mpc' = "join"
  /\ UNCHANGED <<mutex, is_running, readerVars, mk, xyz, got, silent>>

\* ~bno_thread(), run by exit().
Stop ==
  /\ is_running' = FALSE
  /\ mpc' = "join"
  /\ UNCHANGED <<mutex, readerVars, mk, xyz, got, silent>>

Exit == mpc = "ready" /\ Stop

\* m_reader_thread.join(); the process ends.
Join ==
  /\ mpc = "join" /\ rpc = "over"
  /\ mpc' = "gone"
  /\ UNCHANGED <<mutex, is_running, readerVars, mk, xyz, got, silent>>

-----------------------------------------------------------------------------
Alive == mpc \notin {"gone", "aborted"}

ReaderStep ==
  /\ Alive
  /\ \/ ReaderBegin \/ ReaderTest \/ ReaderLock \/ ReaderRead
     \/ ReaderStore \/ ReaderDivide \/ ReaderUnlock

FetchStep == FetchLock \/ FetchAxis \/ FetchUnlock

ThreadNext ==
  \/ ReaderStep \/ GoSilent
  \/ Construct \/ Settle \/ FetchStep \/ Exit \/ Join

\* Both threads run, and an uncontended mutex is granted.
ThreadFairness ==
  /\ WF_threadVars(ReaderStep)
  /\ WF_threadVars(Construct \/ Settle \/ FetchAxis \/ FetchUnlock \/ Join)

ThreadSpec == ThreadInit /\ [][ThreadNext]_threadVars /\ ThreadFairness

-----------------------------------------------------------------------------
(* Properties.                                                               *)

ThreadTypeOK ==
  /\ published \in Value
  /\ got \in [Axes -> Value]
  /\ mutex \in {"none", "reader", "main"}
  /\ is_running \in BOOLEAN
  /\ rpc \in {"unborn", "spawned", "test", "lock", "over"} \cup ReaderHolds
  /\ rk \in Axes
  /\ m \in [Axes -> Value]
  /\ mpc \in {"new", "settle", "ready", "copy", "copied", "join", "gone", "aborted"}
  /\ mk \in Axes
  /\ xyz \in [Axes -> Value]
  /\ failed \in BOOLEAN
  /\ silent \in BOOLEAN

\* The three axes a getter returned come from one reading, divided alike:
\* main.cpp sums their squares.
NoTornRead == \A j, k \in Axes : got[j] = got[k]

\* While the reader is out of its critical section, the members hold the
\* value it published last, all three of them.
MembersPublished == (rpc \notin ReaderHolds) => \A k \in Axes : m[k] = published

\* The two threads implement the register: the reader's section, of up to
\* seven writes, is one Publish, and the getter's three copies one Fetch.
RegisterSpec == Register!Spec

\* The destructor's join returns while the sensor answers: the reader sees
\* is_running go false.  It rests on PROMPT_START.
JoinReturns == (mpc = "join") ~> (mpc = "gone" \/ silent)

\* bno_thread.hpp:23 "returns -1 (in x,y,z) on failure": a getter does not
\* hand out the outcome of a reading that failed.
FailureReported == [][FetchUnlock => ~failed]_threadVars
=============================================================================
