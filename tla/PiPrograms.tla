------------------------------ MODULE PiPrograms ------------------------------
(***************************************************************************)
(* What runs on the Raspberry Pi, one program in a behaviour: the motor    *)
(* program (MotorDriver), set_pwm, which drives the same pin through the   *)
(* same commands and the same kind of signal handler but measures nothing, *)
(* the Python register reader (UartThread), and users of the two library   *)
(* classes no program here links: rpiPWM1 and csv_reader.                  *)
(***************************************************************************)
EXTENDS MotorDriver, PwmRegisters, CsvStore, UartThread

VARIABLE program

ToolsVars == <<pwmVars, csvVars, uartVars>>
piVars == <<program, vars, ToolsVars>>

PiInit ==
  /\ program \in {"motor", "set_pwm", "rpiPWM1", "csv_reader", "write_read"}
  /\ Init /\ PwmInit /\ CsvInit /\ UartThreadInit

-----------------------------------------------------------------------------
(* bno055_motor_maximize_linacc_pwm/set_pwm.cpp, with the variables of       *)
(* MotorDriver; there is no sampling thread, so the process is never more    *)
(* than "new" before it is "gone".                                           *)

\* set_PWM_state(true), once the parameters and their bounds are checked.
SetPwmOn ==
  /\ pc = "boot"
  /\ Popen("main", OnLine)
  /\ pc' = "on"
  /\ UNCHANGED <<threadVars, cand, evals, taken, pin, signalled, overlap>>

\* set_PWM_range_duty(pwm_range, pwm_duty)
SetPwmRangeDuty ==
  /\ pc = "on" /\ Pclosed("main")
  /\ \E d \in SETTINGS : cand' = d /\ Popen("main", SetLine(d))
  /\ pc' = "set"
  /\ UNCHANGED <<threadVars, evals, taken, pin, signalled, overlap>>

\* usleep(meas_time*1e+6), from here to the next step.
SetPwmSleeps ==
  /\ pc = "set" /\ Pclosed("main")
  /\ pc' = "measure"
  /\ UNCHANGED <<threadVars, cand, evals, taken, shell, pin, fails, signalled, overlap>>

\* set_PWM_state(false)
SetPwmOff ==
  /\ pc = "measure"
  /\ Popen("main", OffLine)
  /\ pc' = "off"
  /\ UNCHANGED <<threadVars, cand, evals, taken, pin, signalled, overlap>>

SetPwmReturns ==
  /\ pc = "off" /\ Pclosed("main")
  /\ pc' = "exit" /\ mpc' = "gone"
  /\ UNCHANGED <<mutex, is_running, readerVars, mk, xyz, got, silent>>
  /\ UNCHANGED <<cand, evals, taken, shell, pin, fails, signalled, overlap>>

SetPwmMain ==
  \/ SetPwmOn \/ SetPwmRangeDuty \/ SetPwmSleeps \/ SetPwmOff \/ SetPwmReturns
  \/ HandlerExit

SetPwmNext == SetPwmMain \/ Shell \/ (Sigint /\ pc # "boot")

-----------------------------------------------------------------------------
PiNext ==
  /\ UNCHANGED program
  /\ \/ program = "motor" /\ Next /\ UNCHANGED ToolsVars
     \/ program = "set_pwm" /\ SetPwmNext /\ UNCHANGED ToolsVars
     \/ program = "rpiPWM1" /\ PwmNext /\ UNCHANGED <<vars, csvVars, uartVars>>
     \/ program = "csv_reader" /\ CsvNext /\ UNCHANGED <<vars, pwmVars, uartVars>>
     \/ program = "write_read" /\ UartThreadNext /\ UNCHANGED <<vars, pwmVars, csvVars>>

\* The motor program's fairness, as MotorDriver justifies it, and that set_pwm
\* and its shells are scheduled.
Motor(A) == program = "motor" /\ A /\ UNCHANGED <<program, ToolsVars>>
SetPwm(A) == program = "set_pwm" /\ A /\ UNCHANGED <<program, ToolsVars>>

PiFairness ==
  /\ WF_piVars(Motor(ReaderStep /\ UNCHANGED driverVars))
  /\ WF_piVars(Motor(Main)) /\ SF_piVars(Motor(Measure)) /\ SF_piVars(Motor(WindowCloses))
  /\ WF_piVars(Motor(ShellStep("main"))) /\ WF_piVars(Motor(ShellStep("handler")))
  /\ WF_piVars(SetPwm(SetPwmMain))
  /\ WF_piVars(SetPwm(ShellStep("main"))) /\ WF_piVars(SetPwm(ShellStep("handler")))

PiSpec == PiInit /\ [][PiNext]_piVars /\ PiFairness

-----------------------------------------------------------------------------
\* The variables of the programs keep their types.
PiTypeOK == TypeOK /\ PwmTypeOK /\ CsvTypeOK /\ UartThreadTypeOK
=============================================================================
