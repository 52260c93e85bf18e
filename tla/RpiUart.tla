------------------------------- MODULE RpiUart -------------------------------
(***************************************************************************)
(* The serial port of shared/rpi_uart.cpp: the tty's input queue and the   *)
(* byte-by-byte loop of rpi_uart::receive_buf.                             *)
(*                                                                         *)
(* The port is opened with O_NDELAY, so read() returns at once: with one   *)
(* byte, or with none and c left at 0.  A call that finds no byte is a     *)
(* stuttering step of the loop, except where the code acts on the c it did *)
(* not receive (SplitStatus).                                              *)
(***************************************************************************)
EXTENDS Integers, Sequences

CONSTANTS
  BUF_MAX_LEN,   (* buf_max_len; every caller passes 255                    *)
  SIGNED_CHAR    (* is plain char signed?  No on the ARM board, yes on x86  *)

ASSUME UartAssumption ==
  /\ BUF_MAX_LEN \in Nat /\ BUF_MAX_LEN >= 4
  /\ SIGNED_CHAR \in BOOLEAN

VARIABLES
  line,      (* bytes the device has sent and the program has not read      *)
  arrived,   (* how many of them are in the tty's input queue by now        *)
  phase,     (* "call": about to write a request; "wait": in receive_buf;   *)
             (* "done": receive_buf (or a failed write) has returned ret    *)
  i,         (* receive_buf: bytes of this reply taken so far               *)
  rx_len,    (* receive_buf: the length announced by the second byte        *)
  status,    (* receive_buf: wait_response_header_status                    *)
  buf,       (* receive_buf: the data section stored so far                 *)
  ret,       (* the value last returned                                     *)
  split      (* history: receive_buf gave up between two bytes of a reply   *)

uartVars == <<line, arrived, phase, i, rx_len, status, buf, ret, split>>

Byte == 0 .. 255
GoodHeader == 187   \* 0xbb
FailHeader == 238   \* 0xee
AckCode    == 1     \* 0x01

\* Mutant: plain char taken to be signed.
CharSigned(b) == IF b > 127 THEN b - 256 ELSE b

\* What the loop's `char c` makes of a byte.
Char(b) == IF SIGNED_CHAR /\ b > 127 THEN b - 256 ELSE b

UartInit ==
  /\ arrived = 0
  /\ phase = "call"
  /\ i = 0 /\ rx_len = 0 /\ status = 0
  /\ buf = <<>>
  /\ ret = 0
  /\ split = FALSE

-----------------------------------------------------------------------------
(* The tty.                                                                  *)

\* One more byte reaches the input queue.
Arrive ==
  /\ arrived < Len(line)
  /\ arrived' = arrived + 1
  /\ UNCHANGED <<line, phase, i, rx_len, status, buf, ret, split>>

\* Mutant: the queue is emptied but its count is kept.
FlushLinesOnly ==
  /\ line' = SubSeq(line, arrived + 1, Len(line))
  /\ arrived' = arrived

\* Mutant: the flush does nothing.
NoFlush == UNCHANGED <<line, arrived>>

\* flush_data_buffers: tcflush drops what is queued, not what is on the wire.
Flush ==
  /\ line' = SubSeq(line, arrived + 1, Len(line))
  /\ arrived' = 0

\* read() that returns a byte.
TakeByte ==
  /\ arrived > 0
  /\ line' = Tail(line)
  /\ arrived' = arrived - 1

-----------------------------------------------------------------------------
(* receive_buf.                                                              *)

\* The locals of receive_buf, as its first lines set them.
BeginReceive ==
  /\ phase' = "wait"
  /\ i' = 0 /\ rx_len' = 0 /\ status' = 0
  /\ buf' = <<>>

\* Mutants: no limit on the buffer, one byte too few, one byte too many.
KeepReadingUnbounded(k, n) == k < n + 2
KeepReadingShort(k, n) == k < n + 1 /\ k < BUF_MAX_LEN - 1
KeepReadingLong(k, n) == k <= n + 2 /\ k < BUF_MAX_LEN - 1

\* The condition of the do-while with k bytes taken and length n.
KeepReading(k, n) == k < n + 2 /\ k < BUF_MAX_LEN - 1

\* A byte was taken: either round again, or out of the loop with the count.
EndOfRound(k, n) ==
  /\ i' = k
  /\ IF KeepReading(k, n)
       THEN UNCHANGED <<phase, ret>>
       ELSE phase' = "done" /\ ret' = k - 2

BadHeader(c) == c > 0 /\ c # GoodHeader

ReadHeader ==
  /\ phase = "wait" /\ i = 0
  /\ TakeByte
  /\ LET c == Char(Head(line)) IN
       /\ rx_len' = IF BadHeader(c) THEN 1 ELSE rx_len
       /\ status' = IF BadHeader(c) THEN c ELSE status
  /\ EndOfRound(1, rx_len')
  /\ UNCHANGED <<buf, split>>

\* The byte after a header other than 0xbb decides the result, and is not
\* counted.
ReadStatus ==
  /\ phase = "wait" /\ i = 1 /\ status > 0
  /\ TakeByte
  /\ phase' = "done"
  /\ ret' = IF Char(Head(line)) = AckCode THEN 0 ELSE -1
  /\ UNCHANGED <<i, rx_len, status, buf, split>>

\* The same lines when read() found no byte: c is still 0, so the call fails
\* although its status byte is on the way.
SplitStatus ==
  /\ phase = "wait" /\ i = 1 /\ status > 0
  /\ arrived = 0
  /\ phase' = "done"
  /\ ret' = -1
  /\ split' = TRUE
  /\ UNCHANGED <<line, arrived, i, rx_len, status, buf>>

ReadLength ==
  /\ phase = "wait" /\ i = 1 /\ status <= 0
  /\ TakeByte
  /\ rx_len' = Char(Head(line))
  /\ EndOfRound(2, rx_len')
  /\ UNCHANGED <<status, buf, split>>

ReadData ==
  /\ phase = "wait" /\ i >= 2
  /\ TakeByte
  /\ buf' = Append(buf, Head(line))
  /\ EndOfRound(i + 1, rx_len)
  /\ UNCHANGED <<rx_len, status, split>>

ReceiveStep ==
  \/ ReadHeader
  \/ ReadStatus
  \/ SplitStatus
  \/ ReadLength
  \/ ReadData

UartTypeOK ==
  /\ line \in Seq(Byte)
  /\ arrived \in 0 .. Len(line)
  /\ phase \in {"call", "wait", "done"}
  /\ i \in 0 .. BUF_MAX_LEN
  /\ rx_len \in -128 .. 255
  /\ status \in 0 .. 255
  /\ buf \in Seq(Byte)
  /\ ret \in -1 .. BUF_MAX_LEN
  /\ split \in BOOLEAN

\* receive_buf never stores outside buf: the data bytes go to
\* buf[0 .. i-3] and the terminator to buf[i-2], which must lie below
\* buf_max_len whatever length byte the line delivered.
BufferInBounds ==
  /\ Len(buf) = IF i < 2 THEN 0 ELSE i - 2
  /\ i <= BUF_MAX_LEN - 1
  /\ phase = "wait" => i < BUF_MAX_LEN - 1
=============================================================================
