----------------------------- MODULE MotorDriver -----------------------------
(***************************************************************************)
(* bno055_motor_maximize_linacc_pwm/main.cpp: the program that drives the  *)
(* solenoid's PWM pin through `gpio` commands, evaluates the candidates    *)
(* libcmaes asks for by sampling BnoThread, and puts the pin low at the    *)
(* end or on SIGINT.                                                       *)
(*                                                                         *)
(* Every gpio command line is run by popen_cmd in a shell of its own,      *)
(* which is a process of its own: pclose waits for it, but a signal        *)
(* handler that calls exit() does not.  The optimizer is the choice of the *)
(* next candidate.  SIGINT is delivered once, to the main thread, as Linux *)
(* does for a signal sent to the process.                                  *)
(***************************************************************************)
EXTENDS BnoThread, Sequences

CONSTANTS
  SETTINGS,   (* the (range, duty) pairs phenof can yield                   *)
  MAX_EVALS,  (* bound: candidates evaluated                                *)
  MAX_FAILS   (* bound: popen or gpio calls that fail                       *)

ASSUME DriverAssumption ==
  /\ SETTINGS \subseteq Nat \ {0}  \* phenof clamps both to 2 .. 4095
  /\ MAX_EVALS \in Nat /\ MAX_FAILS \in Nat

VARIABLES
  pc,         (* where main() or sig_handler is                             *)
  cand,       (* the candidate being evaluated                              *)
  evals,      (* candidates evaluated (bounded)                             *)
  taken,      (* record_avg_mag_for_ms: has a sample been summed?           *)
  shell,      (* external: what each command shell has still to run         *)
  pin,        (* external: [pwm, range, duty] of the output                 *)
  fails,      (* failed commands (bounded)                                  *)
  signalled,  (* SIGINT has been delivered                                  *)
  overlap     (* history: a shell of main's was left running by the handler *)

driverVars == <<pc, cand, evals, taken, shell, pin, fails, signalled, overlap>>
vars == <<threadVars, driverVars>>

IsLow == ~pin.pwm \/ pin.duty = 0

\* Mutants: the stop command clears the range; the setting is sent twice.
OffRange       == << [set |-> "range", to |-> 0] >>
SetLineTwice(d) == << [set |-> "range", to |-> d], [set |-> "duty", to |-> d],
                      [set |-> "duty", to |-> d] >>

\* The command lines of set_PWM_state and set_PWM_range_duty.
OnLine     == << [set |-> "pwm", to |-> TRUE] >>
OffLine    == << [set |-> "duty", to |-> 0] >>
SetLine(d) == << [set |-> "range", to |-> d], [set |-> "duty", to |-> d] >>

Init ==
  /\ ThreadInit
  /\ pc = "boot"
  /\ cand = 0 /\ evals = 0 /\ taken = FALSE
  /\ shell = [main |-> <<>>, handler |-> <<>>]
  /\ pin = [pwm |-> FALSE, range |-> 0, duty |-> 0]
  /\ fails = 0
  /\ signalled = FALSE /\ overlap = FALSE

-----------------------------------------------------------------------------
(* Commands.                                                                 *)

\* popen_cmd up to its wait.  A popen that fails is reported in a return
\* value every caller casts to void.
Popen(who, cmds) ==
  \/ shell' = [shell EXCEPT ![who] = cmds] /\ UNCHANGED fails
  \/ fails < MAX_FAILS /\ fails' = fails + 1 /\ UNCHANGED shell

\* pclose has reaped the shell.
Pclosed(who) == shell[who] = <<>>

\* external: a shell runs its next gpio command, which may fail; the shell
\* then goes on with the rest.
ShellStep(who) ==
  /\ shell[who] # <<>>
  /\ LET cmd == Head(shell[who]) IN
       \/ pin' = [pin EXCEPT ![cmd.set] = cmd.to] /\ UNCHANGED fails
       \/ fails < MAX_FAILS /\ fails' = fails + 1 /\ UNCHANGED pin
  /\ shell' = [shell EXCEPT ![who] = Tail(@)]
  /\ UNCHANGED <<threadVars, pc, cand, evals, taken, signalled, overlap>>

-----------------------------------------------------------------------------
(* main().                                                                   *)

\* BNO_thread::Instance()->start() runs the constructor.
Boot ==
  /\ pc = "boot"
  /\ Construct \/ Settle
  /\ UNCHANGED driverVars

\* set_PWM_state(true)
EnablePwm ==
  /\ pc = "boot" /\ mpc = "ready"
  /\ Popen("main", OnLine)
  /\ pc' = "on"
  /\ UNCHANGED <<threadVars, cand, evals, taken, pin, signalled, overlap>>

EnablePwmDone ==
  /\ pc = "on" /\ Pclosed("main")
  /\ pc' = "optimize"
  /\ UNCHANGED <<threadVars, cand, evals, taken, shell, pin, fails, signalled, overlap>>

\* fsphere: set_PWM_range_duty(x[0],x[1])
Evaluate ==
  /\ pc = "optimize" /\ evals < MAX_EVALS
  /\ \E d \in SETTINGS : cand' = d /\ Popen("main", SetLine(d))
  /\ evals' = evals + 1
  /\ pc' = "set"
  /\ UNCHANGED <<threadVars, taken, pin, signalled, overlap>>

\* Mutant: the measurement does not wait for the commands.
SetDoneAtOnce ==
  /\ pc = "set"
  /\ pc' = "measure"
  /\ taken' = FALSE
  /\ UNCHANGED <<threadVars, cand, evals, shell, pin, fails, signalled, overlap>>

SetDone ==
  /\ pc = "set" /\ Pclosed("main")
  /\ pc' = "measure"
  /\ taken' = FALSE
  /\ UNCHANGED <<threadVars, cand, evals, shell, pin, fails, signalled, overlap>>

\* record_avg_mag_for_ms: one getter call after another ...
Measure ==
  /\ pc = "measure"
  /\ FetchStep
  /\ taken' = (taken \/ mpc = "copied")
  /\ UNCHANGED <<pc, cand, evals, shell, pin, fails, signalled, overlap>>

\* ... until the time is up, looked at between the calls and not up before
\* the first one.
WindowCloses ==
  /\ pc = "measure" /\ mpc = "ready" /\ taken
  /\ pc' = "optimize"
  /\ UNCHANGED <<threadVars, cand, evals, taken, shell, pin, fails, signalled, overlap>>

\* The optimizer has stopped: set_PWM_state(false).
DisablePwm ==
  /\ pc = "optimize"
  /\ Popen("main", OffLine)
  /\ pc' = "off"
  /\ UNCHANGED <<threadVars, cand, evals, taken, pin, signalled, overlap>>

\* Mutant: main() does not wait for the last command.
ReturnAtOnce ==
  /\ pc = "off"
  /\ Stop
  /\ pc' = "exit"
  /\ UNCHANGED <<cand, evals, taken, shell, pin, fails, signalled, overlap>>

\* return 0 runs exit(), which runs the singleton's destructor.
ReturnFromMain ==
  /\ pc = "off" /\ Pclosed("main")
  /\ Stop
  /\ pc' = "exit"
  /\ UNCHANGED <<cand, evals, taken, shell, pin, fails, signalled, overlap>>

JoinReader ==
  /\ pc = "exit"
  /\ Join
  /\ UNCHANGED driverVars

-----------------------------------------------------------------------------
(* sig_handler.                                                              *)

\* SIGINT interrupts main() wherever it is.  From a terminal it also goes to
\* the shell main() may be waiting for; from kill it does not.
Sigint ==
  /\ ~signalled /\ mpc \notin {"gone", "aborted"}
  /\ signalled' = TRUE
  /\ pc' = "handler"
  /\ \E rest \in {shell.main, <<>>} :
       /\ overlap' = (rest # <<>>)
       /\ \/ shell' = [main |-> rest, handler |-> OffLine] /\ UNCHANGED fails
          \/ /\ fails < MAX_FAILS /\ fails' = fails + 1
             /\ shell' = [shell EXCEPT !.main = rest]
  /\ UNCHANGED <<threadVars, cand, evals, taken, pin>>

\* Mutant: the handler joins a reader it has not told to stop.
HandlerJoins ==
  /\ pc = "handler" /\ Pclosed("handler")
  /\ pc' = "exit"
  /\ mpc' = IF mpc \in {"new", "settle", "join"} THEN "gone" ELSE "join"
  /\ UNCHANGED <<mutex, is_running, readerVars, mk, xyz, got, silent>>
  /\ UNCHANGED <<cand, evals, taken, shell, pin, fails, signalled, overlap>>

\* exit(1).  A singleton still under construction has no destructor to run,
\* and one whose destructor was interrupted does not run it again.
HandlerExit ==
  /\ pc = "handler" /\ Pclosed("handler")
  /\ pc' = "exit"
  /\ IF mpc \in {"new", "settle", "join"}
       THEN mpc' = "gone" /\ UNCHANGED <<mutex, is_running, readerVars, mk, xyz, got, silent>>
       ELSE Stop
  /\ UNCHANGED <<cand, evals, taken, shell, pin, fails, signalled, overlap>>

-----------------------------------------------------------------------------
Reader == (ReaderStep \/ GoSilent) /\ UNCHANGED driverVars

Main ==
  \/ Boot \/ EnablePwm \/ EnablePwmDone
  \/ Evaluate \/ SetDone \/ Measure \/ WindowCloses
  \/ DisablePwm \/ ReturnFromMain \/ JoinReader
  \/ HandlerExit

Shell == \E who \in {"main", "handler"} : ShellStep(who)

Next == Reader \/ Main \/ Shell \/ Sigint

\* Both threads and the shells are scheduled.  The mutex is not fair, but the
\* reader sleeps 5 ms between two readings, so a waiting getter gets it; and
\* the measuring time, looked at between two getter calls, runs out.
Fairness ==
  /\ WF_vars(ReaderStep /\ UNCHANGED driverVars)
  /\ WF_vars(Main) /\ SF_vars(Measure) /\ SF_vars(WindowCloses)
  /\ WF_vars(ShellStep("main")) /\ WF_vars(ShellStep("handler"))

Spec == Init /\ [][Next]_vars /\ Fairness

-----------------------------------------------------------------------------
(* Properties.                                                               *)

TypeOK ==
  /\ ThreadTypeOK
  /\ pc \in {"boot", "on", "optimize", "set", "measure", "off", "exit", "handler"}
  /\ cand \in SETTINGS \cup {0}
  /\ evals \in 0 .. MAX_EVALS
  /\ taken \in BOOLEAN
  /\ \A who \in {"main", "handler"} : Len(shell[who]) <= 2
  /\ pin \in [pwm : BOOLEAN, range : SETTINGS \cup {0}, duty : SETTINGS \cup {0}]
  /\ fails \in 0 .. MAX_FAILS
  /\ signalled \in BOOLEAN /\ overlap \in BOOLEAN

\* A candidate is measured under its own setting: while samples are summed,
\* no shell runs, and range and duty are the candidate's, unless a command
\* failed, which nothing in the program notices.
OwnSetting ==
  (pc = "measure" /\ fails = 0)
    => /\ Pclosed("main")
       /\ pin = [pwm |-> TRUE, range |-> cand, duty |-> cand]

\* The process ends with the pin low, unless a command failed or the handler
\* left a shell of main's running.
LowAtQuietEnd ==
  (mpc \in {"gone", "aborted"} /\ ~overlap /\ fails = 0) => IsLow

\* Sooner or later after SIGINT the pin is low and stays low, even if the
\* sensor is silent, the reader holds the mutex or the exit hangs.
SigintStopsMotor ==
  [](signalled => <>[](IsLow \/ overlap \/ fails > 0))

\* The process ends after SIGINT if the sensor answers and main() was not
\* inside a getter: the destructor would then wait for a reader that waits
\* for the mutex main() holds.
SigintEnds ==
  signalled ~> (mpc = "gone" \/ silent \/ mutex = "main")

\* An evaluation ends while the sensor answers.
EvaluationEnds ==
  (pc = "measure") ~> (pc # "measure" \/ silent)

\* main.cpp:320 "signal trap put IO back low": once the process has ended and
\* its shells are done, with no command having failed, the pin is low.
LowAfterSignal ==
  (mpc = "gone" /\ signalled /\ fails = 0 /\ Pclosed("main") /\ Pclosed("handler"))
    => IsLow
=============================================================================
