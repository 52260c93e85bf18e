------------------------------ MODULE UartThread ------------------------------
(***************************************************************************)
(* bno055_uart_interface-python: write_read.py, which reads registers of   *)
(* the sensor over and over, and mod_common/uart.py, the thread that reads *)
(* the serial port and hands what it gets to a callback, which puts it     *)
(* into a queue.  The two threads share the queue, keep_running and the    *)
(* port.                                                                   *)
(*                                                                         *)
(* A byte is the read it answers and its place in the answer.  The         *)
(* interactive loop after the measuring loop is never reached.             *)
(***************************************************************************)
EXTENDS Integers, Sequences

CONSTANTS
  RX_LEN,     (* data bytes asked for: 44 in the code                       *)
  MAX_READS,  (* bound: reads                                               *)
  MAX_ERRORS  (* bound: failures of the serial port                         *)

ASSUME UartThreadAssumption ==
  RX_LEN \in Nat \ {0} /\ MAX_READS \in Nat /\ MAX_ERRORS \in Nat

VARIABLES
  upc,          (* main: "send", "cleared", "wait", "check", "exited",      *)
                (* "raised": ended by an exception                          *)
  rdr,          (* the thread: "test", "readline", "put", "stopped", "died" *)
  keep_running, (* set to stop the thread                                   *)
  is_open,      (* the serial port is open                                  *)
  nread,        (* the number of the read under way (bounded)               *)
  due, wire,    (* external: bytes of answers to come, and arrived          *)
  chunk,        (* resp of run()                                            *)
  queue,        (* uart_msg_queue: chunks                                   *)
  resp_data,    (* the bytes of the answer so far                           *)
  errors        (* failures of the serial port (bounded)                    *)

uartVars == <<upc, rdr, keep_running, is_open, nread, due, wire, chunk, queue,
              resp_data, errors>>

LEN_HDRS == 2

\* The answers the sensor may give: header, length, data; or an error's two.
Answer(n, len) == [i \in 1 .. len |-> <<n, i>>]
Answers(n) == {Answer(n, LEN_HDRS + RX_LEN), Answer(n, LEN_HDRS)}

\* UART_thread(..), whose input is flushed, and obj.start().
UartThreadInit ==
  /\ upc = "send" /\ rdr = "test" /\ keep_running = TRUE /\ is_open = TRUE
  /\ nread = 0 /\ due = <<>> /\ wire = <<>> /\ chunk = <<>> /\ queue = <<>>
  /\ resp_data = <<>> /\ errors = 0

\* external: the next byte of an answer arrives.
ByteArrives ==
  /\ due # <<>>
  /\ wire' = Append(wire, Head(due)) /\ due' = Tail(due)
  /\ UNCHANGED <<upc, rdr, keep_running, is_open, nread, chunk, queue, resp_data, errors>>

-----------------------------------------------------------------------------
(* run(), the thread.                                                        *)

ThreadTest ==
  /\ rdr = "test"
  /\ rdr' = IF keep_running THEN "readline" ELSE "stopped"
  /\ UNCHANGED <<upc, keep_running, is_open, nread, due, wire, chunk, queue, resp_data, errors>>

\* What has arrived, up to a byte that is a newline or until the timeout.
ReadLine ==
  /\ rdr = "readline" /\ is_open
  /\ IF wire = <<>>
       THEN rdr' = "test" /\ UNCHANGED <<wire, chunk>>
       ELSE \E n \in 1 .. Len(wire) :
              /\ chunk' = SubSeq(wire, 1, n) /\ wire' = SubSeq(wire, n + 1, Len(wire))
              /\ rdr' = "put"
  /\ UNCHANGED <<upc, keep_running, is_open, nread, due, queue, resp_data, errors>>

\* The port fails, or was closed under the thread: close_port() and raise.
ReadLineFails ==
  /\ rdr = "readline"
  /\ IF is_open THEN errors < MAX_ERRORS /\ errors' = errors + 1 ELSE UNCHANGED errors
  /\ keep_running' = FALSE /\ is_open' = FALSE
  /\ rdr' = "died"
  /\ UNCHANGED <<upc, nread, due, wire, chunk, queue, resp_data>>

\* data_cb
PutChunk ==
  /\ rdr = "put"
  /\ queue' = Append(queue, chunk) /\ chunk' = <<>>
  /\ rdr' = "test"
  /\ UNCHANGED <<upc, keep_running, is_open, nread, due, wire, resp_data, errors>>

-----------------------------------------------------------------------------
(* write_to_uart_get_response() and read_register(), the main thread.        *)

ClearQ ==
  /\ upc = "send" /\ nread < MAX_READS
  /\ queue' = <<>>
  /\ nread' = nread + 1
  /\ upc' = "cleared"
  /\ UNCHANGED <<rdr, keep_running, is_open, due, wire, chunk, resp_data, errors>>

\* A port that is closed or fails raises an exception nobody catches; a failed
\* write also stops the thread.
WriteRequest ==
  /\ upc = "cleared"
  /\ \/ /\ is_open
        /\ \E a \in Answers(nread) : due' = due \o a
        /\ upc' = "wait" /\ UNCHANGED <<keep_running, errors>>
     \/ /\ is_open /\ errors < MAX_ERRORS
        /\ errors' = errors + 1 /\ keep_running' = FALSE
        /\ upc' = "raised" /\ UNCHANGED due
     \/ /\ ~is_open
        /\ upc' = "raised" /\ UNCHANGED <<due, keep_running, errors>>
  /\ UNCHANGED <<rdr, is_open, nread, wire, chunk, queue, resp_data>>

\* Mutant: the two bytes before the data are not counted.
AwaitsData == Len(resp_data) < RX_LEN

\* len(resp_data)-len_hdrs < rx_len
Awaits == Len(resp_data) - LEN_HDRS < RX_LEN

GetChunk ==
  /\ upc = "wait" /\ Awaits /\ queue # <<>>
  /\ resp_data' = resp_data \o Head(queue) /\ queue' = Tail(queue)
  /\ UNCHANGED <<upc, rdr, keep_running, is_open, nread, due, wire, chunk, errors>>

GotResponse ==
  /\ upc = "wait" /\ ~Awaits
  /\ upc' = "check"
  /\ UNCHANGED <<rdr, keep_running, is_open, nread, due, wire, chunk, queue, resp_data, errors>>

\* The header is checked; printing a wrong one raises an exception, since
\* hexlify takes no list.
CheckResponse ==
  /\ upc = "check"
  /\ upc' = IF resp_data[1] = <<nread, 1>> THEN "send" ELSE "raised"
  /\ resp_data' = <<>>
  /\ UNCHANGED <<rdr, keep_running, is_open, nread, due, wire, chunk, queue, errors>>

\* KeyboardInterrupt, in a read as well: close_port() and sys.exit().
Interrupt ==
  /\ upc \in {"send", "cleared", "wait", "check"}
  /\ keep_running' = FALSE /\ is_open' = FALSE
  /\ resp_data' = <<>> /\ upc' = "exited"
  /\ UNCHANGED <<rdr, nread, due, wire, chunk, queue, errors>>

UartThreadStep == ThreadTest \/ ReadLine \/ ReadLineFails \/ PutChunk

UartThreadNext ==
  \/ ByteArrives \/ UartThreadStep
  \/ ClearQ \/ WriteRequest \/ GetChunk \/ GotResponse \/ CheckResponse \/ Interrupt

UartThreadSpec == UartThreadInit /\ [][UartThreadNext]_uartVars

-----------------------------------------------------------------------------
\* The variables keep their types.
Bytes == (1 .. MAX_READS) \X (1 .. LEN_HDRS + RX_LEN)

UartThreadTypeOK ==
  /\ upc \in {"send", "cleared", "wait", "check", "exited", "raised"}
  /\ rdr \in {"test", "readline", "put", "stopped", "died"}
  /\ keep_running \in BOOLEAN /\ is_open \in BOOLEAN
  /\ nread \in 0 .. MAX_READS /\ errors \in 0 .. MAX_ERRORS
  /\ due \in Seq(Bytes) /\ wire \in Seq(Bytes) /\ chunk \in Seq(Bytes)
  /\ queue \in Seq(Seq(Bytes)) /\ resp_data \in Seq(Bytes)

\* A read is given the answer to its own request, whole and in order, however
\* the thread cuts it into chunks: nothing clears the port or the chunk the
\* thread holds, so a read must not leave a byte of its answer behind.
ReplyIsOwn == upc = "check" => resp_data = Answer(nread, LEN_HDRS + RX_LEN)
=============================================================================
