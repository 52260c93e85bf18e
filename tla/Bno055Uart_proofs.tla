-------------------------- MODULE Bno055Uart_proofs --------------------------
(***************************************************************************)
(* Theorems about Bno055Uart, for every buffer length, register count and  *)
(* whatever bytes the sensor or an earlier run left on the line: type      *)
(* correctness, BufferInBounds, NoLeftovers, OwnAnswer and                 *)
(* StartedConfigured.                                                      *)
(*                                                                         *)
(* The first two are proved together: that the result fits its type needs  *)
(* the bound on i, and that a sample is a sequence of bytes needs Counted, *)
(* the relation between the result and the data stored.  NoLeftovers and   *)
(* OwnAnswer rest on Exchange, which says what is on the line at every     *)
(* moment of an operation; StartedConfigured on Configured, which follows  *)
(* what start() has established about the chip.                            *)
(***************************************************************************)
EXTENDS Bno055Uart, SequenceTheorems, TLAPS

\* A positive result is the number of data bytes in the buffer.
Counted == (phase = "done" /\ ret > 0) => ret = Len(buf)

UartInv == UartTypeOK /\ BufferInBounds /\ Counted

-----------------------------------------------------------------------------
(* The serial port.                                                          *)

LEMMA CharRange == \A b \in Byte : Char(b) \in -128 .. 255
BY DEF Byte, Char

LEMMA BadHeaderRange == \A c \in -128 .. 255 : BadHeader(c) => c \in 0 .. 255
BY DEF BadHeader

LEMMA FlushTypes ==
  ASSUME UartTypeOK, Flush
  PROVE  line' \in Seq(Byte) /\ arrived' \in 0 .. Len(line')
<1> DEFINE rest == SubSeq(line, arrived + 1, Len(line))
<1>1. \A k \in arrived + 1 .. Len(line) : line[k] \in Byte
  BY ElementOfSeq DEF UartTypeOK
<1>2. arrived + 1 \in Int /\ Len(line) \in Int
  BY DEF UartTypeOK
<1>3. rest \in Seq(Byte)
  BY <1>1, <1>2, SubSeqProperties
<1> QED
  BY <1>3 DEF Flush

LEMMA TakeByteTypes ==
  ASSUME UartTypeOK, TakeByte
  PROVE  /\ Head(line) \in Byte
         /\ line' \in Seq(Byte) /\ arrived' \in 0 .. Len(line')
<1>1. line \in Seq(Byte) /\ line # <<>> /\ arrived \in 1 .. Len(line)
  BY DEF UartTypeOK, TakeByte
<1> QED
  BY <1>1, HeadTailProperties DEF TakeByte

\* A round of the loop that keeps reading, or ends with the count, stays in
\* bounds: the loop's condition leaves room for one more byte.
LEMMA RoundInBounds ==
  ASSUME NEW k \in 1 .. BUF_MAX_LEN - 1, NEW n \in Int,
         phase = "wait", ret \in -1 .. BUF_MAX_LEN, EndOfRound(k, n)
  PROVE  /\ i' = k
         /\ phase' \in {"wait", "done"} /\ ret' \in -1 .. BUF_MAX_LEN
         /\ phase' = "wait" => k < BUF_MAX_LEN - 1
         /\ phase' = "done" => ret' = k - 2
BY UartAssumption DEF EndOfRound, KeepReading

LEMMA ReceiveInv == ASSUME UartInv, ReceiveStep PROVE UartInv'
<1> USE UartAssumption DEF UartInv, UartTypeOK, BufferInBounds, Counted
<1>1. CASE ReadHeader
  <2>1. Char(Head(line)) \in -128 .. 255 /\ line' \in Seq(Byte)
        /\ arrived' \in 0 .. Len(line')
    BY <1>1, CharRange, TakeByteTypes DEF ReadHeader
  <2>2. rx_len' \in -128 .. 255 /\ status' \in 0 .. 255
    <3> DEFINE c == Char(Head(line))
    <3>1. /\ rx_len' = IF BadHeader(c) THEN 1 ELSE rx_len
          /\ status' = IF BadHeader(c) THEN c ELSE status
      BY <1>1 DEF ReadHeader
    <3>2. BadHeader(c) => c \in 0 .. 255
      BY <2>1, BadHeaderRange
    <3> HIDE DEF c
    <3> QED BY <3>1, <3>2
  <2>3. phase = "wait" /\ i = 0 /\ EndOfRound(1, rx_len')
        /\ UNCHANGED <<buf, split>>
    BY <1>1 DEF ReadHeader
  <2>4. /\ i' = 1
        /\ phase' \in {"wait", "done"} /\ ret' \in -1 .. BUF_MAX_LEN
        /\ phase' = "wait" => 1 < BUF_MAX_LEN - 1
        /\ phase' = "done" => ret' = 1 - 2
    BY <2>2, <2>3, RoundInBounds
  <2> QED BY <2>1, <2>2, <2>3, <2>4
<1>2. CASE ReadStatus
  <2>1. line' \in Seq(Byte) /\ arrived' \in 0 .. Len(line')
    BY <1>2, TakeByteTypes DEF ReadStatus
  <2> QED BY <1>2, <2>1 DEF ReadStatus
<1>3. CASE SplitStatus
  BY <1>3 DEF SplitStatus
<1>4. CASE ReadLength
  <2>1. Char(Head(line)) \in -128 .. 255 /\ line' \in Seq(Byte)
        /\ arrived' \in 0 .. Len(line')
    BY <1>4, CharRange, TakeByteTypes DEF ReadLength
  <2>2. phase = "wait" /\ i = 1 /\ EndOfRound(2, rx_len')
        /\ rx_len' \in -128 .. 255 /\ UNCHANGED <<status, buf, split>>
    BY <1>4, <2>1 DEF ReadLength
  <2>3. /\ i' = 2
        /\ phase' \in {"wait", "done"} /\ ret' \in -1 .. BUF_MAX_LEN
        /\ phase' = "wait" => 2 < BUF_MAX_LEN - 1
        /\ phase' = "done" => ret' = 2 - 2
    BY <2>2, RoundInBounds
  <2> QED BY <2>1, <2>2, <2>3
<1>5. CASE ReadData
  <2>1. Head(line) \in Byte /\ line' \in Seq(Byte)
        /\ arrived' \in 0 .. Len(line')
    BY <1>5, TakeByteTypes DEF ReadData
  <2>2. phase = "wait" /\ i >= 2 /\ EndOfRound(i + 1, rx_len)
        /\ buf' = Append(buf, Head(line)) /\ UNCHANGED <<rx_len, status, split>>
    BY <1>5 DEF ReadData
  <2>3. buf' \in Seq(Byte) /\ Len(buf') = Len(buf) + 1
    BY <2>1, <2>2, AppendProperties
  <2>4. /\ i' = i + 1
        /\ phase' \in {"wait", "done"} /\ ret' \in -1 .. BUF_MAX_LEN
        /\ phase' = "wait" => i + 1 < BUF_MAX_LEN - 1
        /\ phase' = "done" => ret' = (i + 1) - 2
    <3>1. i + 1 \in 1 .. BUF_MAX_LEN - 1 /\ rx_len \in Int
      BY <2>2
    <3> QED BY <2>2, <3>1, RoundInBounds
  <2> QED BY <2>1, <2>2, <2>3, <2>4
<1> QED
  BY <1>1, <1>2, <1>3, <1>4, <1>5 DEF ReceiveStep

-----------------------------------------------------------------------------
(* The driver and the sensor.                                                *)

\* The types of the driver's own state and of the environment's.
BnoTypeOK ==
  /\ at \in Ops \cup {"closed", "init_port", "started", "stopped", "failed"}
  /\ ids_ok \in BOOLEAN
  /\ sample \in [res : {-1, 0}, xyz : Seq(Byte)]
  /\ samples \in 0 .. MAX_SAMPLES

EnvTypeOK ==
  /\ requests \in Seq(Ops)
  /\ reply \in Seq(Byte)
  /\ sensor \in [genuine : BOOLEAN, page : {0, 1}, mode : {"config", "ndof"}]
  /\ faults \in 0 .. MAX_FAULTS

Inv == UartInv /\ BnoTypeOK /\ EnvTypeOK

LEMMA TypeOKParts == TypeOK <=> (UartTypeOK /\ BnoTypeOK /\ EnvTypeOK)
BY DEF TypeOK, BnoTypeOK, EnvTypeOK

\* Whatever the sensor sends is a sequence of bytes.
LEMMA AnswerBytes ==
  /\ \A op \in Reads : \A data \in RegisterBytes(op) :
       <<GoodHeader, Requested(op)>> \o data \in Seq(Byte)
  /\ <<>> \in Seq(Byte) /\ <<FailHeader, AckCode>> \in Seq(Byte)
  /\ <<FailHeader, 7>> \in Seq(Byte)
<1>1. ASSUME NEW op \in Reads, NEW data \in RegisterBytes(op)
      PROVE  <<GoodHeader, Requested(op)>> \o data \in Seq(Byte)
  <2>1. <<GoodHeader, Requested(op)>> \in Seq(Byte)
    BY BnoAssumption DEF GoodHeader, Requested, Byte
  <2>2. data \in Seq(Byte)
    <3>1. CASE op = "linacc"
      <4>1. data \in [1 .. NREGS -> Byte] /\ NREGS \in Nat
        BY <3>1, BnoAssumption DEF RegisterBytes
      <4> QED BY <4>1, SeqDef
    <3>2. CASE op # "linacc"
      <4>1. op \in IdReads
        BY <3>2 DEF Reads
      <4>2. IdValue[op] \in Byte
        BY <4>1 DEF IdReads, IdValue, Byte
      <4>3. data = <<IdValue[op]>> \/ data = <<0>>
        BY <3>2 DEF RegisterBytes
      <4>4. \A v \in Byte : <<v>> \in Seq(Byte)
        OBVIOUS
      <4>5. 0 \in Byte
        BY DEF Byte
      <4> QED BY <4>2, <4>3, <4>4, <4>5
    <3> QED BY <3>1, <3>2
  <2> QED BY <2>1, <2>2, ConcatProperties
<1>2. /\ <<>> \in Seq(Byte) /\ <<FailHeader, AckCode>> \in Seq(Byte)
      /\ <<FailHeader, 7>> \in Seq(Byte)
  BY DEF FailHeader, AckCode, Byte
<1> QED BY <1>1, <1>2

LEMMA SendInv ==
  ASSUME Inv, NEW bytes \in Seq(Byte), requests # <<>>, Send(bytes)
  PROVE  UartInv' /\ BnoTypeOK' /\ requests' \in Seq(Ops) /\ reply' \in Seq(Byte)
<1>1. line' \in Seq(Byte) /\ Len(line') = Len(line) + Len(bytes) /\ Len(bytes) \in Nat
  BY ConcatProperties, LenProperties DEF Inv, UartInv, UartTypeOK, Send
<1>2. arrived \in 0 .. Len(line')
  BY <1>1, LenProperties DEF Inv, UartInv, UartTypeOK
<1>3. UartInv'
  BY <1>1, <1>2 DEF Inv, UartInv, UartTypeOK, BufferInBounds, Counted, Send
<1>4. BnoTypeOK'
  BY DEF Inv, BnoTypeOK, Send, bnoVars
<1>5. requests' \in Seq(Ops)
  BY HeadTailProperties DEF Inv, EnvTypeOK, Send
<1> QED
  BY <1>3, <1>4, <1>5 DEF Send

LEMMA SensorInv ==
  ASSUME Inv, AnswerRead \/ AnswerWrite \/ AnswerError
  PROVE  Inv'
<1>1. CASE AnswerRead
  <2>1. PICK data \in RegisterBytes(Head(requests)) :
          Send(<<GoodHeader, Requested(Head(requests))>> \o data)
    BY <1>1 DEF AnswerRead
  <2>2. requests # <<>> /\ Head(requests) \in Reads /\ UNCHANGED <<sensor, faults>>
    BY <1>1 DEF AnswerRead
  <2>3. <<GoodHeader, Requested(Head(requests))>> \o data \in Seq(Byte)
    BY <2>1, <2>2, AnswerBytes
  <2> QED BY <2>1, <2>2, <2>3, SendInv DEF Inv, EnvTypeOK
<1>2. CASE AnswerWrite
  <2>1. requests # <<>> /\ UNCHANGED faults /\ sensor' = Effect(Head(requests))
    BY <1>2 DEF AnswerWrite
  <2>2. Send(<<>>) \/ Send(<<FailHeader, AckCode>>)
    BY <1>2 DEF AnswerWrite
  <2>3. sensor' \in [genuine : BOOLEAN, page : {0, 1}, mode : {"config", "ndof"}]
    BY <2>1 DEF Effect, Inv, EnvTypeOK
  <2> QED BY <2>1, <2>2, <2>3, AnswerBytes, SendInv DEF Inv, EnvTypeOK
<1>3. CASE AnswerError
  <2>1. requests # <<>> /\ Send(<<FailHeader, 7>>) /\ UNCHANGED sensor
        /\ faults < MAX_FAULTS /\ faults' = faults + 1
    BY <1>3 DEF AnswerError
  <2>2. faults' \in 0 .. MAX_FAULTS
    BY <2>1, BnoAssumption DEF Inv, EnvTypeOK
  <2> QED BY <2>1, <2>2, AnswerBytes, SendInv DEF Inv, EnvTypeOK
<1> QED BY <1>1, <1>2, <1>3

-----------------------------------------------------------------------------
LEMMA InitInv == Init => Inv
<1> SUFFICES ASSUME Init PROVE Inv
  OBVIOUS
<1>1. line \in Seq(Byte)
  BY BnoAssumption DEF Init
<1>2. UartInv
  <2>1. split \in BOOLEAN
    BY Zenon DEF Init, UartInit
  <2>2. arrived \in 0 .. Len(line)
    BY <1>1, LenProperties DEF Init, UartInit
  <2> QED
    BY <1>1, <2>1, <2>2, EmptySeq, UartAssumption
       DEF Init, UartInit, UartInv, UartTypeOK, BufferInBounds, Counted
<1>3. BnoTypeOK
  <2>1. ids_ok \in BOOLEAN
    BY Zenon DEF Init
  <2> QED BY <2>1, EmptySeq, BnoAssumption DEF Init, BnoTypeOK
<1>4. EnvTypeOK
  BY EmptySeq, BnoAssumption DEF Init, EnvTypeOK
<1> QED BY <1>2, <1>3, <1>4 DEF Inv

\* Steps that only flush: the line keeps its type, receive_buf's state stays.
LEMMA FlushInv ==
  ASSUME UartInv, Flush, UNCHANGED <<i, rx_len, status, buf, split>>,
         \/ UNCHANGED <<phase, ret>>
         \/ phase' = "done" /\ ret' = -1 /\ phase = "call"
  PROVE  UartInv'
BY FlushTypes, UartAssumption
   DEF UartInv, UartTypeOK, BufferInBounds, Counted

\* Steps that leave the port alone, but for beginning the next operation.
LEMMA PortInv ==
  ASSUME UartInv,
         UNCHANGED <<line, arrived, i, rx_len, status, buf, ret, split>>,
         phase' = "call" \/ phase' = phase
  PROVE  UartInv'
BY DEF UartInv, UartTypeOK, BufferInBounds, Counted

LEMMA StartStepInv == ASSUME Inv, StartStep PROVE Inv'
<1> USE DEF Ops, Reads, IdReads, Writes
<1>1. /\ phase' = "call"
      /\ at' \in Ops \cup {"closed", "init_port", "started", "stopped", "failed"}
  BY DEF Inv, BnoTypeOK, StartStep, Identify, Reset, Awake, Goto
<1>2. UNCHANGED <<line, arrived, i, rx_len, status, buf, ret, split,
                  sample, samples, envVars>>
  BY DEF StartStep
<1>3. ids_ok' \in BOOLEAN
  <2>1. CASE Identify
    BY <2>1, Zenon DEF Identify, Inv, BnoTypeOK
  <2>2. CASE Reset \/ Awake
    BY <2>2, Zenon DEF Reset, Awake, Inv, BnoTypeOK
  <2> QED BY <2>1, <2>2 DEF StartStep
<1>4. UartInv'
  BY <1>1, <1>2, PortInv DEF Inv
<1>5. BnoTypeOK' /\ EnvTypeOK'
  BY <1>1, <1>2, <1>3 DEF Inv, BnoTypeOK, EnvTypeOK, envVars
<1> QED BY <1>4, <1>5 DEF Inv

LEMMA LinaccReturnInv == ASSUME Inv, LinaccReturn PROVE Inv'
<1>1. phase = "done" /\ at' = "started" /\ phase' = "call"
      /\ UNCHANGED <<line, arrived, i, rx_len, status, buf, ret, split,
                     ids_ok, samples, envVars>>
  BY DEF LinaccReturn, Goto
<1>2. CASE ret < NREGS
  <2>1. sample' = [sample EXCEPT !.res = -1]
    BY <1>2, BnoAssumption DEF LinaccReturn, Inv, UartInv, UartTypeOK
  <2> QED BY <1>1, <2>1, PortInv DEF Inv, BnoTypeOK, EnvTypeOK, envVars
<1>3. CASE ~(ret < NREGS)
  <2>1. ret \in Int /\ NREGS \in Int /\ ret > 0
    BY <1>3, BnoAssumption DEF Inv, UartInv, UartTypeOK
  <2>2. sample' = [res |-> 0, xyz |-> SubSeq(buf, 1, NREGS)]
    BY <1>3, <2>1, BnoAssumption DEF LinaccReturn
  <2>3. buf \in Seq(Byte) /\ NREGS <= Len(buf)
    BY <1>1, <1>3, <2>1 DEF Inv, UartInv, UartTypeOK, Counted
  <2>4. \A k \in 1 .. NREGS : buf[k] \in Byte
    BY <2>1, <2>3, ElementOfSeq, LenProperties
  <2>5. SubSeq(buf, 1, NREGS) \in Seq(Byte)
    BY <2>1, <2>4, SubSeqProperties
  <2> QED BY <1>1, <2>2, <2>5, PortInv DEF Inv, BnoTypeOK, EnvTypeOK, envVars
<1> QED BY <1>2, <1>3

LEMMA DriverInv ==
  ASSUME Inv, Open \/ InitPort \/ SendRequest \/ SendFails \/ NextCall \/ SleepReturn
  PROVE  Inv'
<1> USE DEF Ops, Reads, IdReads, Writes
<1>1. CASE Open \/ InitPort
  <2>1. UartInv'
    BY <1>1, FlushInv DEF Open, InitPort, Inv
  <2> QED BY <1>1, <2>1 DEF Open, InitPort, Inv, BnoTypeOK, EnvTypeOK, envVars
<1>2. CASE SendRequest
  <2>1. UartInv'
    BY <1>2, EmptySeq, UartAssumption
       DEF SendRequest, BeginReceive, Inv, UartInv, UartTypeOK, BufferInBounds, Counted
  <2>2. requests' \in Seq(Ops) /\ reply' \in Seq(Byte)
    BY <1>2, AppendProperties, EmptySeq DEF SendRequest, Inv, EnvTypeOK
  <2> QED BY <1>2, <2>1, <2>2 DEF SendRequest, Inv, BnoTypeOK, EnvTypeOK, bnoVars
<1>3. CASE SendFails
  <2>1. UartInv'
    BY <1>3, FlushInv DEF SendFails, Inv
  <2>2. faults' \in 0 .. MAX_FAULTS /\ reply' \in Seq(Byte)
    BY <1>3, BnoAssumption, EmptySeq DEF SendFails, Inv, EnvTypeOK
  <2> QED BY <1>3, <2>1, <2>2 DEF SendFails, Inv, BnoTypeOK, EnvTypeOK, bnoVars
<1>4. CASE NextCall
  <2>1. UartInv'
    BY <1>4, PortInv DEF NextCall, uartVars, Inv
  <2> QED
    BY <1>4, <2>1, BnoAssumption DEF NextCall, Inv, BnoTypeOK, EnvTypeOK, envVars
<1>5. CASE SleepReturn
  <2>1. UartInv'
    BY <1>5, PortInv DEF SleepReturn, Goto, Inv
  <2> QED
    BY <1>5, <2>1 DEF SleepReturn, Goto, Inv, BnoTypeOK, EnvTypeOK, envVars
<1> QED BY <1>1, <1>2, <1>3, <1>4, <1>5

LEMMA NextInv == ASSUME Inv, [Next]_vars PROVE Inv'
<1>1. CASE Wire
  <2>1. UartInv'
    BY <1>1, LenProperties
       DEF Wire, Arrive, Inv, UartInv, UartTypeOK, BufferInBounds, Counted
  <2> QED BY <1>1, <2>1 DEF Wire, Inv, BnoTypeOK, EnvTypeOK, bnoVars, envVars
<1>2. CASE Receive
  <2>1. UartInv'
    BY <1>2, ReceiveInv DEF Receive, Inv
  <2> QED BY <1>2, <2>1 DEF Receive, Inv, BnoTypeOK, EnvTypeOK, bnoVars, envVars
<1>3. CASE UNCHANGED vars
  <2>1. UartInv'
    BY <1>3, PortInv DEF vars, uartVars, Inv
  <2> QED
    BY <1>3, <2>1 DEF vars, Inv, BnoTypeOK, EnvTypeOK, bnoVars, envVars
<1> QED
  BY <1>1, <1>2, <1>3, SensorInv, StartStepInv, LinaccReturnInv, DriverInv
     DEF Next

THEOREM Invariance == Spec => []Inv
BY InitInv, NextInv, PTL DEF Spec

\* The variables keep their types; in particular the sample handed to
\* bno_thread is made of received bytes only.
THEOREM TypeCorrect == Spec => []TypeOK
BY Invariance, TypeOKParts, PTL DEF Inv, UartInv

\* receive_buf stays inside its buffer whatever bytes arrive
\* (rpi_uart.cpp:140-149).
THEOREM BufferSafe == Spec => []BufferInBounds
BY Invariance, PTL DEF Inv, UartInv

-----------------------------------------------------------------------------
(* Answers that are not left half read.                                      *)

\* What the sensor has sent for the operation at `at`: nothing yet, the data of
\* a read, an acknowledgement of a write, or an error.
Answered ==
  \/ reply = <<>>
  \/ /\ at \in Reads /\ Len(reply) = Requested(at) + 2
     /\ reply[1] = GoodHeader /\ reply[2] = Requested(at)
  \/ /\ Len(reply) = 2 /\ reply[1] = FailHeader /\ reply[2] \in {AckCode, 7}
     /\ reply[2] = AckCode => at \in Writes

\* The line is what receive_buf has not taken of the answer yet, and the buffer
\* the data it has taken.
Rest ==
  /\ Len(line) + i = Len(reply)
  /\ \A k \in 1 .. Len(line) : line[k] = reply[i + k]
  /\ \A k \in 1 .. Len(buf) : buf[k] = reply[k + 2]

\* What the locals of the loop say of the bytes taken.
Round ==
  /\ i = 0 => (rx_len = 0 /\ status = 0)
  /\ i = 1 => status = IF BadHeader(Char(reply[1])) THEN Char(reply[1]) ELSE 0
  /\ i >= 2 => (~BadHeader(Char(reply[1])) /\ rx_len = Char(reply[2]))

Waiting ==
  /\ requests = <<>> \/ (requests = <<at>> /\ reply = <<>>)
  /\ Answered /\ Rest /\ Round

\* Between operations the line is silent; in one, it holds the rest of its answer.
Exchange ==
  ~split =>
    /\ phase = "call" => (requests = <<>> /\ (at # "closed" => line = <<>>))
    /\ phase = "wait" => Waiting
    /\ phase = "done" => (requests = <<>> /\ line = <<>> /\ Answered /\ OwnAnswer)

\* Only an operation leaves the caller.
Calling == at \notin Ops => phase = "call"

LEMMA Chars ==
  /\ ~BadHeader(Char(GoodHeader))
  /\ Char(AckCode) = AckCode /\ Char(7) = 7
  /\ \A op \in Reads : /\ Requested(op) \in 1 .. 255 /\ Requested(op) + 2 < BUF_MAX_LEN
                       /\ Char(Requested(op)) = Requested(op)
BY UartAssumption, BnoAssumption
   DEF Char, BadHeader, GoodHeader, AckCode, Requested, Byte

\* read() takes the next byte of the answer.
LEMMA NextByte ==
  ASSUME UartTypeOK, reply \in Seq(Byte), Rest, TakeByte
  PROVE  /\ i + 1 \in 1 .. Len(reply) /\ Head(line) = reply[i + 1]
         /\ Len(line') + i + 1 = Len(reply)
         /\ \A k \in 1 .. Len(line') : line'[k] = reply[i + 1 + k]
         /\ reply # <<>> /\ (Len(line') = 0 => line' = <<>>)
<1>1. line \in Seq(Byte) /\ line # <<>> /\ Len(line) \in Nat \ {0} /\ i \in Nat
      /\ Len(reply) \in Nat
  BY EmptySeq, LenProperties DEF UartTypeOK, TakeByte
<1>2. line' = Tail(line)
  BY DEF TakeByte
<1>3. /\ Tail(line) \in Seq(Byte) /\ Len(Tail(line)) = Len(line) - 1
      /\ \A k \in 1 .. Len(Tail(line)) : Tail(line)[k] = line[k + 1]
  BY <1>1, HeadTailProperties
<1>4. Head(line) = line[1]
  BY <1>1
<1>5. line[1] = reply[i + 1]
  BY <1>1 DEF Rest
<1>6. ASSUME NEW k \in 1 .. Len(Tail(line)) PROVE Tail(line)[k] = reply[i + 1 + k]
  <2>1. k + 1 \in 1 .. Len(line) /\ Tail(line)[k] = line[k + 1]
    BY <1>1, <1>3
  <2>2. line[k + 1] = reply[i + (k + 1)]
    BY <2>1 DEF Rest
  <2> QED
    BY <1>1, <2>1, <2>2
<1>7. Len(Tail(line)) = 0 => Tail(line) = <<>>
  BY <1>3, EmptySeq
<1>8. reply # <<>>
  BY <1>1, EmptySeq DEF Rest
<1> QED
  BY <1>1, <1>2, <1>3, <1>4, <1>5, <1>6, <1>7, <1>8 DEF Rest

LEMMA AnsweredStays ==
  ASSUME Waiting, reply # <<>>, UNCHANGED <<at, requests, reply>>
  PROVE  Answered' /\ requests' = <<>>
BY DEF Waiting, Answered

LEMMA HeaderExchange ==
  ASSUME Inv, Waiting, Receive, ReadHeader
  PROVE  Waiting' /\ phase' = "wait"
<1> DEFINE c == Char(reply[1])
<1>1. /\ phase = "wait" /\ i = 0 /\ TakeByte /\ UNCHANGED <<buf, split, at, requests, reply>>
      /\ rx_len' = IF BadHeader(Char(Head(line))) THEN 1 ELSE rx_len
      /\ status' = IF BadHeader(Char(Head(line))) THEN Char(Head(line)) ELSE status
      /\ EndOfRound(1, rx_len')
  BY DEF ReadHeader, Receive, bnoVars, envVars
<1>2. /\ Head(line) = reply[1] /\ Len(line') + 1 = Len(reply) /\ reply # <<>>
      /\ \A k \in 1 .. Len(line') : line'[k] = reply[1 + k]
  BY <1>1, NextByte DEF Inv, UartInv, EnvTypeOK, Waiting
<1>3. rx_len = 0 /\ status = 0
  BY <1>1 DEF Waiting, Round
<1>4. rx_len' \in {0, 1} /\ status' = IF BadHeader(c) THEN c ELSE 0
  BY <1>1, <1>2, <1>3
<1>5. phase' = "wait" /\ i' = 1
  BY <1>1, <1>4, UartAssumption DEF EndOfRound, KeepReading
<1>6. Rest'
  BY <1>1, <1>2, <1>5 DEF Rest, Waiting
<1>7. Round'
  BY <1>1, <1>4, <1>5 DEF Round
<1>8. Answered' /\ (requests = <<>>)'
  BY <1>1, <1>2, AnsweredStays
<1> QED
  BY <1>5, <1>6, <1>7, <1>8 DEF Waiting

LEMMA StatusExchange ==
  ASSUME Inv, Waiting, Receive, ReadStatus
  PROVE  phase' = "done" /\ (requests = <<>> /\ line = <<>> /\ Answered /\ OwnAnswer)'
<1>1. /\ i = 1 /\ status > 0 /\ TakeByte /\ phase' = "done"
      /\ ret' = (IF Char(Head(line)) = AckCode THEN 0 ELSE -1)
      /\ UNCHANGED <<split, at, requests, reply, buf>>
  BY DEF ReadStatus, Receive, bnoVars, envVars
<1>2. /\ Head(line) = reply[2] /\ Len(line') + 2 = Len(reply) /\ reply # <<>>
      /\ Len(line') = 0 => line' = <<>>
  BY <1>1, NextByte DEF Inv, UartInv, EnvTypeOK, Waiting
<1>3. BadHeader(Char(reply[1]))
  BY <1>1 DEF Waiting, Round
<1>4. /\ Len(reply) = 2 /\ reply[1] = FailHeader /\ reply[2] \in {AckCode, 7}
  BY <1>2, <1>3, Chars DEF Waiting, Answered
<1>5. line' = <<>>
  <2>1. line' \in Seq(Byte)
    BY <1>1, TakeByteTypes DEF Inv, UartInv
  <2>2. Len(line') \in Nat
    BY <2>1, LenProperties
  <2> QED
    BY <1>2, <1>4, <2>2
<1>6. ret' = (IF reply[2] = AckCode THEN 0 ELSE -1)
  BY <1>1, <1>2, <1>4, Chars DEF AckCode
<1>7. Answered' /\ requests' = <<>>
  BY <1>1, <1>2, AnsweredStays
<1>8. OwnAnswer'
  BY <1>1, <1>2, <1>4, <1>6 DEF OwnAnswer
<1> QED
  BY <1>1, <1>5, <1>7, <1>8

LEMMA LengthExchange ==
  ASSUME Inv, Waiting, Receive, ReadLength
  PROVE  Waiting' /\ phase' = "wait"
<1>1. /\ phase = "wait" /\ i = 1 /\ status <= 0 /\ TakeByte
      /\ rx_len' = Char(Head(line)) /\ EndOfRound(2, rx_len')
      /\ UNCHANGED <<status, buf, split, at, requests, reply>>
  BY DEF ReadLength, Receive, bnoVars, envVars
<1>2. /\ Head(line) = reply[2] /\ Len(line') + 2 = Len(reply) /\ reply # <<>>
      /\ \A k \in 1 .. Len(line') : line'[k] = reply[2 + k]
  <2>1. /\ Head(line) = reply[i + 1] /\ Len(line') + i + 1 = Len(reply) /\ reply # <<>>
        /\ \A k \in 1 .. Len(line') : line'[k] = reply[i + 1 + k]
    BY <1>1, NextByte DEF Inv, UartInv, EnvTypeOK, Waiting
  <2>2. Len(line') \in Nat
    BY <1>1, TakeByteTypes, LenProperties DEF Inv, UartInv
  <2> QED
    BY <1>1, <2>1, <2>2
<1>3. ~BadHeader(Char(reply[1]))
  <2> DEFINE c == Char(reply[1])
  <2>1. status = IF BadHeader(c) THEN c ELSE 0
    BY <1>1 DEF Waiting, Round
  <2>2. BadHeader(c) => c > 0
    BY DEF BadHeader
  <2> HIDE DEF c
  <2>3. ~BadHeader(c)
    <3> SUFFICES ASSUME BadHeader(c) PROVE FALSE
      OBVIOUS
    <3>1. status = c /\ c > 0
      BY <2>1, <2>2
    <3>2. status > 0 /\ status <= 0 /\ status \in Int
      BY <1>1, <3>1 DEF Inv, UartInv, UartTypeOK
    <3> QED
      BY <3>2
  <2> QED
    BY <2>3 DEF c
<1>4. rx_len' \in 1 .. 255
  <2>1. CASE at \in Reads /\ reply[2] = Requested(at)
    BY <1>1, <1>2, <2>1, Chars
  <2>2. CASE reply[2] \in {AckCode, 7}
    <3>1. rx_len' = AckCode \/ rx_len' = 7
      BY <1>1, <1>2, <2>2, Chars, Zenon
    <3> QED
      BY <3>1 DEF AckCode
  <2> QED
    BY <1>2, <2>1, <2>2 DEF Waiting, Answered
<1>5. phase' = "wait" /\ i' = 2
  BY <1>1, <1>4, UartAssumption DEF EndOfRound, KeepReading
<1>6. Rest'
  BY <1>1, <1>2, <1>5 DEF Rest, Waiting
<1>7. Round'
  BY <1>1, <1>2, <1>3, <1>5 DEF Round
<1>8. Answered' /\ (requests = <<>>)'
  BY <1>1, <1>2, AnsweredStays
<1> QED
  BY <1>5, <1>6, <1>7, <1>8 DEF Waiting

LEMMA DataExchange ==
  ASSUME Inv, Waiting, Receive, ReadData
  PROVE  \/ Waiting' /\ phase' = "wait"
         \/ phase' = "done" /\ (requests = <<>> /\ line = <<>> /\ Answered /\ OwnAnswer)'
<1>1. /\ phase = "wait" /\ i >= 2 /\ TakeByte
      /\ buf' = Append(buf, Head(line)) /\ EndOfRound(i + 1, rx_len)
      /\ UNCHANGED <<rx_len, status, split, at, requests, reply>>
  BY DEF ReadData, Receive, bnoVars, envVars
<1>2. /\ Head(line) = reply[i + 1] /\ Len(line') + i + 1 = Len(reply) /\ reply # <<>>
      /\ \A k \in 1 .. Len(line') : line'[k] = reply[i + 1 + k]
      /\ Len(line') = 0 => line' = <<>>
  BY <1>1, NextByte DEF Inv, UartInv, EnvTypeOK, Waiting
<1>3. i \in Nat /\ buf \in Seq(Byte) /\ Len(buf) = i - 2 /\ Head(line) \in Byte
      /\ line' \in Seq(Byte) /\ Len(line') \in Nat
  BY <1>1, TakeByteTypes, LenProperties DEF Inv, UartInv, UartTypeOK, BufferInBounds
<1>4. /\ at \in Reads /\ Len(reply) = Requested(at) + 2
      /\ reply[1] = GoodHeader /\ reply[2] = Requested(at)
  <2>1. Len(reply) > 2
    BY <1>1, <1>2, <1>3
  <2> QED
    BY <1>2, <2>1 DEF Waiting, Answered
<1>10. rx_len = Requested(at) /\ Requested(at) \in 1 .. 255 /\ Requested(at) + 2 < BUF_MAX_LEN
  BY <1>1, <1>4, Chars DEF Waiting, Round
<1>5. PICK n \in 1 .. 255 : /\ n = Requested(at) /\ rx_len = n
                           /\ n + 2 < BUF_MAX_LEN /\ Len(reply) = n + 2
  BY <1>4, <1>10
<1>6. /\ buf' \in Seq(Byte) /\ Len(buf') = i - 1
      /\ \A k \in 1 .. Len(buf') : buf'[k] = reply[k + 2]
  <2>1. /\ buf' \in Seq(Byte) /\ Len(buf') = Len(buf) + 1
        /\ \A k \in 1 .. Len(buf) : buf'[k] = buf[k]
        /\ buf'[Len(buf) + 1] = Head(line)
    BY <1>1, <1>3, AppendProperties
  <2>2. ASSUME NEW k \in 1 .. Len(buf') PROVE buf'[k] = reply[k + 2]
    <3>1. CASE k \in 1 .. Len(buf)
      BY <2>1, <3>1 DEF Waiting, Rest
    <3>2. CASE k = Len(buf) + 1
      <4>1. k + 2 = i + 1
        BY <1>3, <3>2
      <4> QED
        BY <1>2, <2>1, <3>2, <4>1
    <3> QED
      BY <1>3, <2>1, <3>1, <3>2
  <2> QED
    BY <1>3, <2>1, <2>2
<1>7. Answered' /\ (requests = <<>>)'
  BY <1>1, <1>2, AnsweredStays
<1>8. CASE i + 1 < n + 2
  <2>1. phase' = "wait" /\ i' = i + 1
    <3>1. KeepReading(i + 1, rx_len)
      BY <1>3, <1>5, <1>8, UartAssumption DEF KeepReading
    <3> QED
      BY <1>1, <3>1 DEF EndOfRound
  <2>2. Rest'
    BY <1>1, <1>2, <1>3, <1>6, <2>1 DEF Rest
  <2>3. Round'
    BY <1>1, <1>3, <2>1 DEF Round, Waiting
  <2> QED
    BY <1>7, <2>1, <2>2, <2>3 DEF Waiting
<1>9. CASE ~(i + 1 < n + 2)
  <2>1. i + 1 = n + 2 /\ Len(line') = 0
    <3> DEFINE m == Len(line')
    <3>1. m \in Nat /\ i \in Nat /\ n \in Nat
      BY <1>3
    <3>2. m + i + 1 = n + 2
      BY <1>2, <1>5
    <3> HIDE DEF m
    <3>3. i + 1 = n + 2 /\ m = 0
      BY <1>9, <3>1, <3>2
    <3> QED
      BY <3>3 DEF m
  <2>2. phase' = "done" /\ ret' = Requested(at)
    <3>1. ~KeepReading(i + 1, rx_len)
      BY <1>3, <1>5, <1>9 DEF KeepReading
    <3>2. phase' = "done" /\ ret' = (i + 1) - 2
      BY <1>1, <3>1 DEF EndOfRound
    <3> QED
      BY <1>3, <1>5, <2>1, <3>2
  <2>3. buf' = SubSeq(reply, 3, Len(reply))
    <3> DEFINE s == SubSeq(reply, 3, Len(reply))
    <3>1. reply \in Seq(Byte) /\ Len(reply) \in Int
      BY <1>4, <1>5 DEF Inv, EnvTypeOK
    <3>2. \A k \in 3 .. Len(reply) : reply[k] \in Byte
      BY <3>1, ElementOfSeq
    <3>3. s \in Seq(Byte) /\ Len(s) = (IF 3 <= Len(reply) THEN Len(reply) - 3 + 1 ELSE 0)
          /\ \A k \in 1 .. Len(reply) - 3 + 1 : s[k] = reply[3 + k - 1]
      BY <3>1, <3>2, SubSeqProperties
    <3> HIDE DEF s
    <3>4. Len(s) = Len(buf') /\ Len(s) = Len(reply) - 2
      BY <1>3, <1>4, <1>5, <1>6, <2>1, <3>3
    <3>5. \A k \in 1 .. Len(buf') : buf'[k] = s[k]
      BY <1>6, <3>1, <3>3, <3>4
    <3>6. buf' = s
      BY <1>6, <3>3, <3>4, <3>5, SeqEqual
    <3> QED
      BY <3>6 DEF s
  <2>4. OwnAnswer'
    BY <1>1, <1>2, <1>4, <2>2, <2>3 DEF OwnAnswer
  <2> QED
    BY <1>2, <1>7, <2>1, <2>2, <2>4
<1> QED
  BY <1>8, <1>9

LEMMA ReceiveExchange ==
  ASSUME Inv, Exchange, Receive
  PROVE  Exchange'
<1> SUFFICES ASSUME ~split' PROVE Exchange'
  BY DEF Exchange
<1>1. phase = "wait" /\ ~SplitStatus
  BY DEF Receive, ReceiveStep, ReadHeader, ReadStatus, SplitStatus, ReadLength, ReadData
<1>2. UNCHANGED split
  BY <1>1 DEF Receive, ReceiveStep, ReadHeader, ReadStatus, ReadLength, ReadData
<1>3. Waiting
  BY <1>1, <1>2 DEF Exchange
<1>4. \/ Waiting' /\ phase' = "wait"
      \/ phase' = "done" /\ (requests = <<>> /\ line = <<>> /\ Answered /\ OwnAnswer)'
  BY <1>1, <1>3, HeaderExchange, StatusExchange, LengthExchange, DataExchange
     DEF Receive, ReceiveStep
<1> QED
  BY <1>4 DEF Exchange

\* The sensor answers the operation under way, which has got nothing yet.
LEMMA SendExchange ==
  ASSUME Inv, Exchange, ~split, requests # <<>>
  PROVE  /\ phase = "wait" /\ Head(requests) = at /\ Tail(requests) = <<>>
         /\ i = 0 /\ line = <<>> /\ at \in Ops
         /\ \A bytes \in Seq(Byte) : (Send(bytes) /\ Answered') => Exchange'
<1>1. phase = "wait"
  BY DEF Exchange, Inv, UartInv, UartTypeOK
<1>2. Waiting
  BY <1>1 DEF Exchange
<1>3. requests = <<at>> /\ reply = <<>>
  BY <1>2 DEF Waiting
<1>4. Head(requests) = at /\ Tail(requests) = <<>>
  BY <1>3
<1>5. i = 0 /\ line = <<>>
  <2>1. line \in Seq(Byte) /\ Len(line) \in Nat /\ i \in Nat /\ Len(reply) = 0
    BY <1>3, LenProperties, EmptySeq DEF Inv, UartInv, UartTypeOK
  <2>2. Len(line) + i = Len(reply)
    BY <1>2 DEF Waiting, Rest
  <2> DEFINE n == Len(line)
  <2>3. n \in Nat /\ n + i = 0
    BY <2>1, <2>2
  <2> HIDE DEF n
  <2>4. n = 0 /\ i = 0
    BY <2>1, <2>3
  <2> QED
    BY <2>1, <2>4, EmptySeq DEF n
<1>6. at \in Ops
  <2>1. at \in Seq(Ops) \/ requests[1] \in Ops
    BY <1>3, ElementOfSeq DEF Inv, EnvTypeOK
  <2>2. Len(requests) = 1 /\ requests[1] = at
    BY <1>3
  <2>3. requests \in Seq(Ops)
    BY DEF Inv, EnvTypeOK
  <2> QED
    BY <2>2, <2>3, ElementOfSeq
<1>7. ASSUME NEW bytes \in Seq(Byte), Send(bytes), Answered' PROVE Exchange'
  <2>1. /\ reply' = bytes /\ line' = line \o bytes /\ requests' = <<>>
        /\ UNCHANGED <<phase, i, rx_len, status, buf, split, at>>
    BY <1>4, <1>7 DEF Send, bnoVars
  <2>2. line' = bytes
    BY <1>5, <2>1, ConcatEmptySeq
  <2>3. Rest'
    <3>1. Len(bytes) \in Nat /\ Len(buf) = 0
      BY <1>5, LenProperties DEF Inv, UartInv, BufferInBounds
    <3>2. \A k \in 1 .. Len(bytes) : bytes[k] = bytes[0 + k]
      BY <3>1
    <3> QED
      BY <1>5, <2>1, <2>2, <3>1, <3>2 DEF Rest
  <2>4. Round'
    BY <1>2, <1>5, <2>1 DEF Waiting, Round
  <2> QED
    BY <1>1, <1>7, <2>1, <2>3, <2>4 DEF Exchange, Waiting
<1> QED
  BY <1>1, <1>4, <1>5, <1>6, <1>7

\* An answer to a read announces the bytes it holds.
LEMMA DataShape ==
  ASSUME NEW op \in Reads, NEW data \in RegisterBytes(op)
  PROVE  LET bytes == <<GoodHeader, Requested(op)>> \o data IN
         /\ bytes \in Seq(Byte) /\ Len(bytes) = Requested(op) + 2
         /\ bytes[1] = GoodHeader /\ bytes[2] = Requested(op)
         /\ (op # "linacc" /\ bytes[3] # 0) => (sensor.genuine /\ sensor.page = 0)
<1> DEFINE h == <<GoodHeader, Requested(op)>>
<1>1. h \in Seq(Byte) /\ Len(h) = 2 /\ h[1] = GoodHeader /\ h[2] = Requested(op)
  BY BnoAssumption DEF GoodHeader, Requested, Byte
<1>2. /\ data \in Seq(Byte) /\ Len(data) = Requested(op) /\ Requested(op) \in Nat \ {0}
      /\ (op # "linacc" /\ data[1] # 0) => (sensor.genuine /\ sensor.page = 0)
  <2>1. CASE op = "linacc"
    <3>1. data \in [1 .. NREGS -> Byte] /\ NREGS \in Nat \ {0}
      BY <2>1, BnoAssumption DEF RegisterBytes
    <3>2. data \in Seq(Byte)
      BY <3>1, SeqDef
    <3>3. Len(data) = NREGS
      BY <3>1, <3>2
    <3> QED
      BY <2>1, <3>1, <3>2, <3>3 DEF Requested
  <2>2. CASE op # "linacc"
    <3> DEFINE v == IF sensor.genuine /\ sensor.page = 0 THEN IdValue[op] ELSE 0
    <3>1. op \in IdReads
      BY <2>2 DEF Reads
    <3>2. v \in Byte
      BY <3>1 DEF IdReads, IdValue, Byte
    <3>3. data = <<v>>
      BY <2>2 DEF RegisterBytes
    <3>4. v # 0 => (sensor.genuine /\ sensor.page = 0)
      OBVIOUS
    <3> HIDE DEF v
    <3>5. data \in Seq(Byte) /\ Len(data) = 1 /\ data[1] = v
      BY <3>2, <3>3
    <3> QED
      BY <2>2, <3>4, <3>5 DEF Requested
  <2> QED
    BY <2>1, <2>2
<1> DEFINE r == Requested(op)
<1> HIDE DEF h, r
<1>3. /\ h \o data \in Seq(Byte) /\ Len(h \o data) = Len(h) + Len(data)
      /\ \A k \in 1 .. Len(h) + Len(data) :
           (h \o data)[k] = IF k <= Len(h) THEN h[k] ELSE data[k - Len(h)]
  <2>1. h \in Seq(Byte) /\ data \in Seq(Byte)
    BY <1>1, <1>2
  <2> QED
    BY <2>1, ConcatProperties
<1>4. Len(h) = 2 /\ Len(data) = r /\ r \in Nat \ {0}
  BY <1>1, <1>2 DEF r
<1>5. /\ h \o data \in Seq(Byte) /\ Len(h \o data) = 2 + r /\ r \in Nat \ {0} /\ Len(data) = r
      /\ \A k \in 1 .. 2 + r : (h \o data)[k] = IF k <= 2 THEN h[k] ELSE data[k - 2]
  BY <1>3, <1>4
<1>6. (h \o data)[1] = h[1] /\ (h \o data)[2] = h[2] /\ (h \o data)[3] = data[1]
  BY <1>5
<1>7. Len(h \o data) = r + 2
  BY <1>5
<1> QED
  BY <1>1, <1>2, <1>5, <1>6, <1>7 DEF h, r

LEMMA SensorExchange ==
  ASSUME Inv, Exchange, AnswerRead \/ AnswerWrite \/ AnswerError
  PROVE  Exchange'
<1>1. split' = split /\ requests # <<>> /\ at' = at
  BY DEF AnswerRead, AnswerWrite, AnswerError, Send, bnoVars
<1>2. CASE split
  BY <1>1, <1>2 DEF Exchange
<1>3. CASE ~split
  <2>1. /\ Head(requests) = at
        /\ \A bytes \in Seq(Byte) : (Send(bytes) /\ Answered') => Exchange'
    BY <1>1, <1>3, SendExchange
  <2>2. CASE AnswerRead
    <3>1. PICK data \in RegisterBytes(at) : Send(<<GoodHeader, Requested(at)>> \o data)
      BY <2>1, <2>2 DEF AnswerRead
    <3>2. at \in Reads
      BY <2>1, <2>2 DEF AnswerRead
    <3> DEFINE bytes == <<GoodHeader, Requested(at)>> \o data
    <3>3. /\ bytes \in Seq(Byte) /\ Len(bytes) = Requested(at) + 2
          /\ bytes[1] = GoodHeader /\ bytes[2] = Requested(at)
      BY <3>2, DataShape
    <3> HIDE DEF bytes
    <3>4. Send(bytes) /\ reply' = bytes
      BY <3>1 DEF bytes, Send
    <3>5. Answered'
      BY <1>1, <3>2, <3>3, <3>4 DEF Answered, Requested
    <3> QED
      BY <2>1, <3>3, <3>4, <3>5
  <2>3. CASE AnswerWrite
    <3>1. at \in Writes /\ (Send(<<>>) \/ Send(<<FailHeader, AckCode>>))
      BY <2>1, <2>3 DEF AnswerWrite
    <3>2. CASE Send(<<>>)
      <4>1. Answered'
        BY <3>2 DEF Send, Answered
      <4> QED
        BY <2>1, <3>2, <4>1, AnswerBytes
    <3>3. CASE Send(<<FailHeader, AckCode>>)
      <4>1. reply' = <<FailHeader, AckCode>>
        BY <3>3 DEF Send
      <4>2. Answered'
        BY <1>1, <3>1, <4>1 DEF Answered
      <4> QED
        BY <2>1, <3>3, <4>2, AnswerBytes
    <3> QED
      BY <3>1, <3>2, <3>3
  <2>4. CASE AnswerError
    <3>1. Send(<<FailHeader, 7>>) /\ reply' = <<FailHeader, 7>>
      BY <2>4 DEF AnswerError, Send
    <3>2. Answered'
      BY <3>1 DEF Answered, AckCode
    <3> QED
      BY <2>1, <3>1, <3>2, AnswerBytes
  <2> QED
    BY <2>2, <2>3, <2>4
<1> QED
  BY <1>2, <1>3

LEMMA FlushSilent ==
  ASSUME UartTypeOK, Flush, line = <<>> \/ arrived = Len(line)
  PROVE  line' = <<>>
<1>1. arrived \in Int /\ Len(line) \in Int /\ Len(line) < arrived + 1
  BY EmptySeq, LenProperties DEF UartTypeOK
<1>2. line' = SubSeq(line, arrived + 1, Len(line))
  BY DEF Flush
<1> QED
  BY <1>1, <1>2, SubSeqEmpty

LEMMA DriverExchange ==
  ASSUME Inv, Exchange, Calling, Open \/ InitPort \/ SendRequest \/ SendFails
  PROVE  Exchange' /\ Calling'
<1> USE DEF Ops, Reads, IdReads, Writes
<1>1. split' = split
  BY DEF Open, InitPort, SendRequest, SendFails
<1>2. CASE Open \/ InitPort
  <2>1. phase = "call" /\ phase' = "call" /\ requests' = requests
    BY <1>2 DEF Open, InitPort, Calling, envVars
  <2>2. ~split => (requests = <<>> /\ line' = <<>>)
    BY <1>2, <2>1, FlushSilent DEF Open, InitPort, Exchange, Inv, UartInv
  <2> QED
    BY <1>1, <2>1, <2>2 DEF Exchange, Calling
<1>3. CASE SendRequest
  <2>1. /\ phase = "call" /\ at \in Ops /\ at # "closed" /\ phase' = "wait" /\ at' = at
        /\ i' = 0 /\ rx_len' = 0 /\ status' = 0 /\ buf' = <<>> /\ reply' = <<>>
        /\ requests' = Append(requests, at) /\ line' = line
    BY <1>3 DEF SendRequest, BeginReceive, bnoVars
  <2>2. ~split => (line' = <<>> /\ requests' = <<at>>)
    BY <2>1 DEF Exchange
  <2>3. ~split => Waiting'
    BY <2>1, <2>2 DEF Waiting, Answered, Rest, Round
  <2> QED
    BY <1>1, <2>1, <2>3 DEF Exchange, Calling
<1>4. CASE SendFails
  <2>1. /\ phase = "call" /\ at \in Ops /\ at # "closed" /\ phase' = "done" /\ at' = at
        /\ ret' = -1 /\ reply' = <<>> /\ requests' = requests /\ Flush
    BY <1>4 DEF SendFails, bnoVars
  <2>2. ~split => (line' = <<>> /\ requests' = <<>>)
    BY <2>1, FlushSilent DEF Exchange, Inv, UartInv
  <2> QED
    BY <1>1, <2>1, <2>2 DEF Exchange, Calling, Answered, OwnAnswer
<1> QED
  BY <1>2, <1>3, <1>4

LEMMA ReturnExchange ==
  ASSUME Inv, Exchange, Calling, StartStep \/ NextCall \/ LinaccReturn \/ SleepReturn
  PROVE  Exchange' /\ Calling'
<1> USE DEF Ops, Reads, IdReads, Writes
<1>1. /\ UNCHANGED <<line, requests, split>> /\ phase' = "call" /\ at # "closed"
      /\ phase = "done" \/ phase = "call"
  BY DEF StartStep, Identify, Reset, Awake, NextCall, LinaccReturn, SleepReturn, Goto,
         Calling, uartVars, envVars
<1> QED
  BY <1>1 DEF Exchange, Calling

LEMMA NextExchange ==
  ASSUME Inv, Exchange, Calling, [Next]_vars
  PROVE  Exchange' /\ Calling'
<1>1. CASE Wire \/ UNCHANGED vars
  <2>1. UNCHANGED <<line, phase, i, rx_len, status, buf, ret, split, at, requests, reply>>
    BY <1>1 DEF Wire, Arrive, vars, uartVars, bnoVars, envVars
  <2> QED
    BY <2>1 DEF Exchange, Calling, Waiting, Answered, Rest, Round, OwnAnswer
<1>2. CASE Receive
  <2>1. at' = at /\ phase = "wait"
    BY <1>2 DEF Receive, bnoVars, ReceiveStep, ReadHeader, ReadStatus, SplitStatus,
                ReadLength, ReadData
  <2> QED
    BY <1>2, <2>1, ReceiveExchange DEF Calling
<1>3. CASE AnswerRead \/ AnswerWrite \/ AnswerError
  <2>1. UNCHANGED <<at, phase>>
    BY <1>3 DEF AnswerRead, AnswerWrite, AnswerError, Send, bnoVars
  <2> QED
    BY <1>3, <2>1, SensorExchange DEF Calling
<1> QED
  BY <1>1, <1>2, <1>3, DriverExchange, ReturnExchange DEF Next

LEMMA InitExchange == Init => (Exchange /\ Calling)
BY DEF Init, UartInit, Exchange, Calling

THEOREM ExchangeHolds == Spec => [](Exchange /\ Calling)
BY Invariance, InitExchange, NextExchange, PTL DEF Spec

\* As long as no answer was left half read, an operation starts on a silent
\* line, for every buffer, sensor and wire (rpi_uart.cpp:135,
\* bno055_uart.cpp:151).
THEOREM SilentStart == Spec => []NoLeftovers
<1>1. Exchange => NoLeftovers
  BY DEF Exchange, NoLeftovers, Ops, Reads, IdReads, Writes
<1> QED
  BY <1>1, ExchangeHolds, PTL

\* As long as no answer was left half read, what an operation returns is the
\* answer to that operation (rpi_uart.cpp:106-151).
THEOREM AnswersMatch == Spec => []OwnAnswer
<1>1. Exchange => OwnAnswer
  <2>1. phase # "done" => OwnAnswer
    BY DEF OwnAnswer
  <2>2. split => OwnAnswer
    BY DEF OwnAnswer
  <2> QED
    BY <2>1, <2>2 DEF Exchange
<1> QED
  BY <1>1, ExchangeHolds, PTL

-----------------------------------------------------------------------------
(* start().                                                                  *)

Found == sensor.genuine /\ sensor.page = 0

\* From the poll after the reset on, the chip is the right one and on page 0;
\* an acknowledgement of awake() means the mode is set.
Configured ==
  ~split =>
    /\ at \in {"pwr_mode", "page_again", "trigger_clear", "awake", "started", "linacc"} => Found
    /\ at \in {"started", "linacc"} => sensor.mode = "ndof"
    /\ (phase # "call" /\ reply # <<>> /\ at = "poll_chip_id"
          /\ reply[1] = GoodHeader /\ reply[3] # 0) => Found
    /\ (phase # "call" /\ reply # <<>> /\ at = "awake"
          /\ reply[1] = FailHeader /\ reply[2] = AckCode) => sensor.mode = "ndof"

LEMMA Headers == GoodHeader # FailHeader /\ AckCode # 7 /\ AckCode = 1
BY DEF GoodHeader, FailHeader, AckCode

LEMMA SensorConfigures ==
  ASSUME Inv, Exchange, Configured, AnswerRead \/ AnswerWrite \/ AnswerError
  PROVE  Configured'
<1>1. split' = split /\ requests # <<>> /\ UNCHANGED <<at, phase>>
  BY DEF AnswerRead, AnswerWrite, AnswerError, Send, bnoVars
<1>2. CASE split
  BY <1>1, <1>2 DEF Configured
<1>3. CASE ~split
  <2>1. Head(requests) = at /\ at \in Ops
    BY <1>1, <1>3, SendExchange
  <2>2. CASE AnswerRead
    <3>1. at \in Reads /\ UNCHANGED sensor
      BY <2>1, <2>2 DEF AnswerRead
    <3>2. PICK data \in RegisterBytes(at) : Send(<<GoodHeader, Requested(at)>> \o data)
      BY <2>1, <2>2 DEF AnswerRead
    <3>3. /\ reply'[1] = GoodHeader
          /\ (at # "linacc" /\ reply'[3] # 0) => Found
      BY <3>1, <3>2, DataShape DEF Send, Found
    <3> QED
      BY <1>1, <1>3, <3>1, <3>3, Headers DEF Configured, Found
  <2>3. CASE AnswerWrite
    <3>1. at \in Writes /\ sensor' = Effect(at)
      BY <2>1, <2>3 DEF AnswerWrite
    <3>2. sensor \in [genuine : BOOLEAN, page : {0, 1}, mode : {"config", "ndof"}]
      BY DEF Inv, EnvTypeOK
    <3>3. at \in {"pwr_mode", "page_again", "trigger_clear", "awake"} => (Found => Found')
      BY <3>1, <3>2 DEF Effect, Found
    <3>4. at = "awake" => sensor'.mode = "ndof"
      BY <3>1, <3>2 DEF Effect
    <3>5. at \notin {"started", "linacc", "poll_chip_id"}
      BY <3>1 DEF Writes
    <3> QED
      BY <1>1, <1>3, <3>3, <3>4, <3>5 DEF Configured
  <2>4. CASE AnswerError
    <3>1. reply' = <<FailHeader, 7>> /\ UNCHANGED sensor
      BY <2>4 DEF AnswerError, Send
    <3>2. reply'[1] = FailHeader /\ reply'[2] = 7
      BY <3>1
    <3> QED
      BY <1>1, <1>3, <3>1, <3>2, Headers DEF Configured, Found
  <2> QED
    BY <2>2, <2>3, <2>4
<1> QED
  BY <1>2, <1>3

LEMMA StartConfigures ==
  ASSUME Inv, Exchange, Configured, StartStep
  PROVE  Configured'
<1>1. /\ phase = "done" /\ phase' = "call"
      /\ UNCHANGED <<i, buf, ret, split, reply, sensor>>
  BY DEF StartStep, Identify, Reset, Awake, Goto, envVars
<1>2. CASE split
  BY <1>1, <1>2 DEF Configured
<1>3. CASE ~split
  <2>1. Answered /\ OwnAnswer
    BY <1>1, <1>3 DEF Exchange
  <2>2. CASE Identify
    <3>1. at' \notin {"pwr_mode", "page_again", "trigger_clear", "awake", "started", "linacc"}
      BY <2>2 DEF Identify, Goto
    <3> QED
      BY <1>1, <3>1 DEF Configured
  <2>3. CASE at = "poll_chip_id" /\ Reset
    <3>1. CASE ret >= 0 /\ Value = IdValue["poll_chip_id"]
      <4>1. /\ reply # <<>> /\ reply[1] = GoodHeader
            /\ buf = SubSeq(reply, 3, Len(reply)) /\ Len(reply) = 3
        BY <1>1, <1>3, <2>1, <2>3, <3>1, Headers
           DEF Answered, OwnAnswer, Writes, Requested
      <4>2. IdValue["poll_chip_id"] = 160
        BY DEF IdValue, IdReads
      <4>3. buf[1] = 160
        BY <3>1, <4>2 DEF Value
      <4>4. reply \in Seq(Byte)
        BY DEF Inv, EnvTypeOK
      <4>5. buf[1] = reply[3]
        <5>1. \A k \in 3 .. 3 : reply[k] \in Byte
          BY <4>1, <4>4, ElementOfSeq
        <5> QED
          BY <4>1, <5>1, SubSeqProperties
      <4>6. Found
        BY <1>1, <1>3, <2>3, <4>1, <4>3, <4>5 DEF Configured
      <4>7. at' = "pwr_mode"
        BY <2>3, <3>1 DEF Reset, Goto
      <4> QED
        BY <1>1, <4>6, <4>7 DEF Configured, Found
    <3>2. CASE ~(ret >= 0 /\ Value = IdValue["poll_chip_id"])
      <4>1. at' = "poll_chip_id"
        BY <2>3, <3>2 DEF Reset, Goto
      <4> QED
        BY <1>1, <4>1 DEF Configured
    <3> QED
      BY <3>1, <3>2
  <2>4. CASE at # "poll_chip_id" /\ Reset
    <3>1. \/ at' \in {"poll_chip_id", "failed"}
          \/ /\ at \in {"pwr_mode", "page_again", "trigger_clear"}
             /\ at' \in {"page_again", "trigger_clear", "awake"}
      BY <2>4 DEF Reset, Goto
    <3> QED
      BY <1>1, <1>3, <3>1 DEF Configured, Found
  <2>5. CASE Awake
    <3>1. CASE ret # 0
      <4>1. at' = "failed"
        BY <2>5, <3>1 DEF Awake, Goto
      <4> QED
        BY <1>1, <4>1 DEF Configured
    <3>2. CASE ret = 0
      <4>1. at = "awake" /\ at' = "started"
        BY <2>5, <3>2 DEF Awake, Goto
      <4>2. reply # <<>> /\ reply[1] = FailHeader /\ reply[2] = AckCode
        BY <1>1, <1>3, <2>1, <3>2, <4>1 DEF OwnAnswer, Requested
      <4> QED
        BY <1>1, <1>3, <4>1, <4>2 DEF Configured, Found
    <3> QED
      BY <3>1, <3>2
  <2> QED
    BY <2>2, <2>3, <2>4, <2>5 DEF StartStep
<1> QED
  BY <1>2, <1>3

LEMMA NextConfigures ==
  ASSUME Inv, Exchange, Calling, Configured, [Next]_vars
  PROVE  Configured'
<1>1. CASE Wire \/ Receive \/ UNCHANGED vars
  <2>1. /\ UNCHANGED <<at, reply, sensor>>
        /\ split' = split \/ split' = TRUE
        /\ phase' = phase \/ phase = "wait"
    BY <1>1 DEF Wire, Arrive, Receive, ReceiveStep, ReadHeader, ReadStatus, SplitStatus,
                ReadLength, ReadData, vars, uartVars, bnoVars, envVars
  <2> QED
    BY <2>1 DEF Configured, Found
<1>2. CASE Open \/ InitPort
  <2>1. at' \in {"init_port", "page"}
    BY <1>2 DEF Open, InitPort
  <2> QED
    BY <2>1 DEF Configured
<1>3. CASE SendRequest \/ SendFails
  <2>1. reply' = <<>> /\ UNCHANGED <<at, sensor, split>>
    BY <1>3 DEF SendRequest, SendFails, bnoVars
  <2> QED
    BY <2>1 DEF Configured, Found
<1>4. CASE NextCall \/ LinaccReturn \/ SleepReturn
  <2>1. /\ UNCHANGED <<sensor, split>>
        /\ at' \in {"sleep", "stopped"} \/ (at \in {"started", "linacc"}
                                              /\ at' \in {"started", "linacc"})
    BY <1>4 DEF NextCall, LinaccReturn, SleepReturn, Goto, uartVars, envVars
  <2> QED
    BY <2>1 DEF Configured, Found
<1> QED
  BY <1>1, <1>2, <1>3, <1>4, SensorConfigures, StartConfigures DEF Next

\* As long as no answer was left half read, start() succeeds only on a genuine
\* sensor, on page 0 and in NDOF mode, although the reset in the middle undoes
\* page and mode (bno055_uart.cpp:143-207).
THEOREM StartConfiguresSensor == Spec => []StartedConfigured
<1>1. Init => Configured
  BY DEF Init, Configured
<1>2. Configured => StartedConfigured
  BY DEF Configured, StartedConfigured, Found
<1> QED
  BY <1>1, <1>2, Invariance, ExchangeHolds, NextConfigures, PTL DEF Spec
=============================================================================
