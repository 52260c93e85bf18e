------------------------------ MODULE Bno055Uart ------------------------------
(***************************************************************************)
(* The BNO055 driver of shared/bno055_uart.cpp over the serial port of     *)
(* RpiUart: open(), start() with its identity checks, hw_reset() and       *)
(* awake(), then get_linear_acceleration() until the destructor's sleep(). *)
(*                                                                         *)
(* The driver runs one register operation after another, so its state is   *)
(* the operation it is at.  The sensor is external: it is what the code    *)
(* expects of it, an answer per request, possibly an error answer.         *)
(***************************************************************************)
EXTENDS RpiUart, FiniteSets

CONSTANTS
  NREGS,        (* registers of one LINACC reading: 6 in the code           *)
  DATA_BYTES,   (* the values a data register may hold                      *)
  STALE_LINES,  (* bytes an earlier run may have left on the line           *)
  RESET_ACKED,  (* does the sensor acknowledge the reset request?           *)
  MAX_BACKLOG,  (* bound: bytes and requests outstanding at a send      *)
  MAX_SAMPLES,  (* bound: get_linear_acceleration calls                     *)
  MAX_FAULTS    (* bound: error answers and failed write()s                 *)

ASSUME BnoAssumption ==
  /\ NREGS \in 1 .. 255 /\ NREGS <= BUF_MAX_LEN - 3
  /\ SIGNED_CHAR => NREGS <= 127   \* a length the loop's char can hold
  /\ DATA_BYTES \subseteq Byte
  /\ STALE_LINES \subseteq Seq(Byte)
  /\ RESET_ACKED \in BOOLEAN
  /\ MAX_BACKLOG \in Nat /\ MAX_SAMPLES \in Nat /\ MAX_FAULTS \in Nat

VARIABLES
  at,        (* the operation the driver is at                              *)
  ids_ok,    (* the ID registers read so far had the expected values        *)
  sample,    (* the x,y,z bytes and result of the last LINACC read          *)
  samples,   (* how many LINACC reads were made (bounded)                   *)
  requests,  (* operations sent to the sensor and not yet served            *)
  reply,     (* history: the sensor's answer to the operation at `at`       *)
  sensor,    (* external: [genuine, page, mode] of the chip                 *)
  faults     (* faults so far (bounded)                                     *)

bnoVars == <<at, ids_ok, sample, samples>>
envVars == <<requests, reply, sensor, faults>>
vars == <<uartVars, bnoVars, envVars>>

IdReads == {"chip_id", "acc_id", "mag_id", "gyr_id", "poll_chip_id"}
Reads   == IdReads \cup {"linacc"}
Writes  == {"page", "reset", "pwr_mode", "page_again", "trigger_clear",
            "awake", "sleep"}
Ops     == Reads \cup Writes

\* Register values start() compares with (bno055.h).
IdValue ==
  [op \in IdReads |-> CASE op = "acc_id" -> 251
                        [] op = "mag_id" -> 50
                        [] op = "gyr_id" -> 15
                        [] OTHER         -> 160]

Requested(op) == IF op = "linacc" THEN NREGS ELSE 1

\* *value = buf[0] in read_register: the first data byte, the terminator of
\* an empty reply, or the request's own 0xaa when receive_buf stored nothing.
Value == IF i = 1 THEN 170 ELSE IF buf = <<>> THEN 0 ELSE buf[1]

Init ==
  /\ UartInit
  /\ line \in STALE_LINES
  /\ at = "closed"
  /\ ids_ok = TRUE
  /\ sample = [res |-> -1, xyz |-> <<>>]
  /\ samples = 0
  /\ requests = <<>> /\ reply = <<>>
  /\ sensor \in [genuine : BOOLEAN, page : {0, 1}, mode : {"config", "ndof"}]
  /\ faults = 0

-----------------------------------------------------------------------------
(* The sensor (external).                                                    *)

\* What an acknowledged write does to the chip; a reset undoes the others.
Effect(op) ==
  CASE op = "reset" -> [sensor EXCEPT !.page = 0, !.mode = "config"]
    [] op \in {"page", "page_again"} -> [sensor EXCEPT !.page = 0]
    [] op = "awake" -> [sensor EXCEPT !.mode = "ndof"]
    [] op = "sleep" -> [sensor EXCEPT !.mode = "config"]
    [] OTHER -> sensor

RegisterBytes(op) ==
  IF op = "linacc" THEN [1 .. NREGS -> DATA_BYTES]
  ELSE {<<IF sensor.genuine /\ sensor.page = 0 THEN IdValue[op] ELSE 0>>}

Send(bytes) ==
  /\ reply' = bytes
  /\ line' = line \o bytes
  /\ requests' = Tail(requests)
  /\ UNCHANGED <<arrived, phase, i, rx_len, status, buf, ret, split, bnoVars>>

AnswerRead ==
  /\ requests # <<>> /\ Head(requests) \in Reads
  /\ \E data \in RegisterBytes(Head(requests)) :
       Send(<<GoodHeader, Requested(Head(requests))>> \o data)
  /\ UNCHANGED <<sensor, faults>>

AnswerWrite ==
  /\ requests # <<>> /\ Head(requests) \in Writes
  /\ Send(IF Head(requests) = "reset" /\ ~RESET_ACKED
            THEN <<>> ELSE <<FailHeader, AckCode>>)
  /\ sensor' = Effect(Head(requests))
  /\ UNCHANGED faults

\* 0xEE 0x07, the bus overrun the TODO file complains of.
AnswerError ==
  /\ requests # <<>> /\ faults < MAX_FAULTS
  /\ faults' = faults + 1
  /\ Send(<<FailHeader, 7>>)
  /\ UNCHANGED sensor

-----------------------------------------------------------------------------
(* The driver.                                                               *)

\* open(): usleep(10000) lets everything on the wire arrive, then flushes.
Open ==
  /\ at = "closed"
  /\ arrived = Len(line)
  /\ Flush
  /\ at' = "init_port"
  /\ UNCHANGED <<phase, i, rx_len, status, buf, ret, split,
                 ids_ok, sample, samples, envVars>>

\* init_port(): flush, a hundred read_byte()s, flush.
InitPort ==
  /\ at = "init_port"
  /\ Flush
  /\ at' = "page"
  /\ UNCHANGED <<phase, i, rx_len, status, buf, ret, split,
                 ids_ok, sample, samples, envVars>>

\* write_register / read_register_buf: write_buf, then into receive_buf.
SendRequest ==
  /\ at \in Ops /\ phase = "call" /\ Len(line) + Len(requests) <= MAX_BACKLOG
  /\ BeginReceive
  /\ requests' = Append(requests, at)
  /\ reply' = <<>>
  /\ UNCHANGED <<line, arrived, ret, split, bnoVars, sensor, faults>>

\* write_buf returned an error: flush and fail.
SendFails ==
  /\ at \in Ops /\ phase = "call" /\ faults < MAX_FAULTS
  /\ faults' = faults + 1
  /\ Flush
  /\ phase' = "done" /\ ret' = -1
  /\ reply' = <<>>
  /\ UNCHANGED <<i, rx_len, status, buf, split, bnoVars, requests, sensor>>

Goto(op) == at' = op /\ phase' = "call"

\* The operations of start() before the identities are compared.
Identify ==
  \/ /\ at = "page"
     /\ Goto(IF ret < 0 THEN "failed" ELSE "chip_id")
     /\ UNCHANGED ids_ok
  \/ \E step \in {<<"chip_id", "acc_id">>, <<"acc_id", "mag_id">>,
                  <<"mag_id", "gyr_id">>, <<"gyr_id", "reset">>} :
       /\ at = step[1]
       /\ ids_ok' = (ids_ok /\ Value = IdValue[at])
       /\ Goto(IF ret < 0 \/ (step[2] = "reset" /\ ~ids_ok')
                 THEN "failed" ELSE step[2])

\* hw_reset(): the reset's result is ignored, and the chip id is polled until
\* it reads back; a failed poll yields 255 and is polled again.
Reset ==
  /\ \/ at = "reset" /\ Goto("poll_chip_id")
     \/ /\ at = "poll_chip_id"
        /\ Goto(IF ret >= 0 /\ Value = IdValue[at] THEN "pwr_mode" ELSE at)
     \/ \E step \in {<<"pwr_mode", "page_again">>,
                     <<"page_again", "trigger_clear">>,
                     <<"trigger_clear", "awake">>} :
          /\ at = step[1]
          /\ Goto(IF ret < 0 THEN "failed" ELSE step[2])
  /\ UNCHANGED ids_ok

\* Mutant: the result of awake() is ignored.
AwakeUnchecked ==
  /\ at = "awake"
  /\ Goto("started")
  /\ UNCHANGED ids_ok

\* The end of start(): any result of awake() but 0 is a failure.
Awake ==
  /\ at = "awake"
  /\ Goto(IF ret # 0 THEN "failed" ELSE "started")
  /\ UNCHANGED ids_ok

\* One operation of start() has returned.
StartStep ==
  /\ phase = "done"
  /\ Identify \/ Reset \/ Awake
  /\ UNCHANGED <<line, arrived, i, rx_len, status, buf, ret, split,
                 sample, samples, envVars>>

\* bno_thread::reader_thread calls get_linear_acceleration, or the
\* destructors have begun and call sleep().
NextCall ==
  /\ at = "started"
  /\ \/ samples < MAX_SAMPLES /\ at' = "linacc" /\ samples' = samples + 1
     \/ at' = "sleep" /\ UNCHANGED samples
  /\ UNCHANGED <<uartVars, ids_ok, sample, envVars>>

\* get_xyz_at_register_block: x, y and z are set only by a full block.
LinaccReturn ==
  /\ at = "linacc" /\ phase = "done"
  /\ sample' = CASE ret < 0     -> [sample EXCEPT !.res = ret]
                 [] ret < NREGS -> [sample EXCEPT !.res = -1]
                 [] OTHER       -> [res |-> 0, xyz |-> SubSeq(buf, 1, NREGS)]
  /\ Goto("started")
  /\ UNCHANGED <<line, arrived, i, rx_len, status, buf, ret, split,
                 ids_ok, samples, envVars>>

SleepReturn ==
  /\ at = "sleep" /\ phase = "done"
  /\ Goto("stopped")
  /\ UNCHANGED <<line, arrived, i, rx_len, status, buf, ret, split,
                 ids_ok, sample, samples, envVars>>

Receive ==
  /\ ReceiveStep
  /\ UNCHANGED <<bnoVars, envVars>>

Wire ==
  /\ Arrive
  /\ UNCHANGED <<bnoVars, envVars>>

Next ==
  \/ Wire \/ Receive
  \/ AnswerRead \/ AnswerWrite \/ AnswerError
  \/ Open \/ InitPort \/ SendRequest \/ SendFails
  \/ StartStep \/ NextCall \/ LinaccReturn \/ SleepReturn

\* The driver is never descheduled for good, bytes on the wire arrive, and
\* the sensor serves what it was asked.
Fairness ==
  /\ WF_vars(Wire) /\ WF_vars(Receive)
  /\ WF_vars(AnswerRead \/ AnswerWrite)
  /\ WF_vars(Open) /\ WF_vars(InitPort) /\ WF_vars(SendRequest)
  /\ WF_vars(StartStep) /\ WF_vars(LinaccReturn) /\ WF_vars(SleepReturn)

Spec == Init /\ [][Next]_vars /\ Fairness

-----------------------------------------------------------------------------
(* Properties.                                                               *)

TypeOK ==
  /\ UartTypeOK
  /\ at \in Ops \cup {"closed", "init_port", "started", "stopped", "failed"}
  /\ ids_ok \in BOOLEAN
  /\ sample \in [res : {-1, 0}, xyz : Seq(Byte)]
  /\ samples \in 0 .. MAX_SAMPLES
  /\ requests \in Seq(Ops)
  /\ reply \in Seq(Byte)
  /\ sensor \in [genuine : BOOLEAN, page : {0, 1}, mode : {"config", "ndof"}]
  /\ faults \in 0 .. MAX_FAULTS

\* As long as no answer was abandoned half way, an operation starts on a
\* silent line: no byte of an earlier answer, of this run or of the one
\* before, is left for receive_buf to take for the header of this one.
NoLeftovers ==
  (phase = "call" /\ at \in Ops /\ ~split) => (line = <<>> /\ requests = <<>>)

\* As long as no answer was abandoned half way, what an operation returns is
\* the sensor's answer to that operation: the announced count and the data
\* for a read, 0 for an acknowledged write, -1 otherwise.
OwnAnswer ==
  (phase = "done" /\ ~split) =>
    \/ reply = <<>> /\ ret = -1
    \/ reply # <<>> /\ reply[1] = GoodHeader
         /\ ret = Requested(at) /\ buf = SubSeq(reply, 3, Len(reply))
    \/ reply # <<>> /\ reply[1] = FailHeader
         /\ ret = IF reply[2] = AckCode THEN 0 ELSE -1

\* start() succeeds only with a genuine sensor in NDOF mode on page 0: the
\* reset inside start() must come before the settings it would undo.
StartedConfigured ==
  (at \in {"started", "linacc"} /\ ~split)
    => (sensor.genuine /\ sensor.page = 0 /\ sensor.mode = "ndof")

\* receive_buf has no timeout: it ends because the sensor answers.
TransactionEnds == (phase = "wait" /\ ~split) ~> (phase # "wait" \/ split)

\* start() ends, in spite of hw_reset's unbounded retry of the chip id.
StartEnds == (at = "page") ~> (at \in {"started", "failed"} \/ split)

\* bno055_uart.cpp:27 "below functions return 0 on success, -1 on failure",
\* rpi_uart.cpp:132 "write success is only 0x1, all others failures": a write
\* the sensor acknowledged returns 0.
AckedWriteSucceeds ==
  (phase = "done" /\ at \in Writes /\ reply = <<FailHeader, AckCode>>) => ret = 0

\* bno055_uart.cpp:215 "need to cast to void since it returns 0 (since it
\* reset...) since the chip is being reset, no response data is issued back":
\* the reset request returns.
ResetReturns == (at = "reset") ~> (at # "reset")
=============================================================================
