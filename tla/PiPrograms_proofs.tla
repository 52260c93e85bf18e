--------------------------- MODULE PiPrograms_proofs ---------------------------
(***************************************************************************)
(* Theorems about what runs on the Raspberry Pi, for every value of the    *)
(* constants: of PwmRegisters, UartThread and CsvStore by themselves, and  *)
(* of PiPrograms, in which one of them, the motor program or set_pwm runs. *)
(*                                                                         *)
(* PwmRegisters: RegistersFollow is inductive but for the resolution: that *)
(* a count asked for is within one of its percentage needs a resolution no *)
(* finer than a percentage, which an object that was never constructed     *)
(* need not have.                                                          *)
(*                                                                         *)
(* UartThread: ReplyIsOwn speaks of one place of main() only.  Stream says *)
(* where the bytes of an answer are on their way: what was received, the   *)
(* chunks in the queue, the thread's chunk, the port and the bytes to come *)
(* are consecutive pieces of the one answer of this read.                  *)
(*                                                                         *)
(* CsvStore: what a restart finds depends on how far the last writing came *)
(* (WrittenOut) and on what was left of its last line (CutOff).            *)
(***************************************************************************)
EXTENDS PiPrograms, MotorDriver_proofs, SequenceTheorems, FiniteSetTheorems

-----------------------------------------------------------------------------
(* PwmRegisters.                                                             *)

PwmInv ==
  /\ PwmTypeOK
  /\ ppc = "live" => field.counts \in Counts
  /\ RegistersFollow

-----------------------------------------------------------------------------
\* Division, exact or not.
LEMMA Quotient ==
  ASSUME NEW n \in Nat, NEW d \in Nat \ {0}
  PROVE  /\ n \div d \in Int /\ d * (n \div d) <= n /\ n < d * (n \div d) + d
         /\ n % d = 0 => n = d * (n \div d)
OBVIOUS

\* A truncated quotient is a natural number, and within one of the quotient.
LEMMA TruncatedIs ==
  ASSUME NEW n \in Nat \ {0}, NEW d \in Nat \ {0}, NEW q \in Truncated(n, d)
  PROVE  q \in Nat /\ 0 <= n - q * d /\ n - q * d <= d
<1>1. PICK e \in Int : /\ d * e <= n /\ n < d * e + d
                      /\ \/ q = e
                         \/ q = e - 1 /\ n = d * e
  <2>1. q = n \div d \/ (q = n \div d - 1 /\ n % d = 0)
    BY Zenon DEF Truncated
  <2> QED
    BY <2>1, Quotient
<1>2. e >= 0
  <2> SUFFICES ASSUME e <= -1 PROVE FALSE
    OBVIOUS
  <2>1. d * e <= d * (-1)
    OBVIOUS
  <2> QED
    BY <1>1, <2>1
<1>3. n = d * e => e # 0
  OBVIOUS
<1>4. CASE q = e
  BY <1>1, <1>2, <1>4
<1>5. CASE q = e - 1 /\ n = d * e
  <2>1. q * d = d * e - d
    BY <1>5
  <2> QED
    BY <1>2, <1>3, <1>5, <2>1
<1> QED
  BY <1>1, <1>4, <1>5

Fields == [frequency : Nat \ {0}, counts : Nat \ {0}, dutyCycle : 0 .. PARTS,
           mode : {PWMMODE, MSMODE}]

\* What configPWM1 divides by fits, and so does every count that is computed.
LEMMA DivisorsFit ==
  ASSUME NEW f \in Fields, NEW div \in Divisors(f), NEW r, r.div = div
  PROVE  div \in Nat /\ ClockFits(f, r)
<1>1. PICK rate \in Nat \ {0} : rate = f.frequency * f.counts
  BY DEF Fields
<1>2. div \in Truncated(OSC, rate)
  BY <1>1 DEF Divisors
<1>3. div \in Nat /\ 0 <= OSC - div * rate /\ OSC - div * rate <= rate
  <2>1. OSC \in Nat \ {0}
    BY PwmAssumption
  <2> QED
    BY <1>2, <2>1, TruncatedIs
<1> QED
  BY <1>1, <1>3 DEF ClockFits

LEMMA BitCountsFit ==
  ASSUME NEW f \in Fields, NEW bits \in BitCounts(f), NEW r, r.dat1 = bits
  PROVE  bits \in Nat /\ DutyFits(f, r)
<1>1. PICK duty \in 0 .. PARTS, c \in Nat \ {0}, p \in Nat \ {0} :
        duty = f.dutyCycle /\ c = f.counts /\ p = PARTS
  BY PwmAssumption DEF Fields
<1>2. CASE duty = 0
  <2>1. 0 \div p = 0
    OBVIOUS
  <2>2. bits = 0
    BY <1>1, <1>2, <2>1 DEF BitCounts
  <2> QED
    BY <1>1, <1>2, <2>2 DEF DutyFits
<1>3. CASE duty = p
  <2>1. p \div p = 1
    OBVIOUS
  <2>2. bits = c
    BY <1>1, <1>3, <2>1 DEF BitCounts
  <2> QED
    BY <1>1, <1>3, <2>2 DEF DutyFits
<1>4. CASE duty \notin {0, p}
  <2>1. PICK n \in Nat \ {0} : n = duty * c
    BY <1>1, <1>4
  <2>2. bits \in Truncated(n, p)
    BY <1>1, <1>4, <2>1 DEF BitCounts
  <2>3. bits \in Nat /\ 0 <= n - bits * p /\ n - bits * p <= p
    BY <2>2, TruncatedIs
  <2> QED
    BY <1>1, <2>1, <2>3 DEF DutyFits
<1> QED
  BY <1>1, <1>2, <1>3, <1>4

LEMMA InitInv == PwmInit => PwmInv
<1> SUFFICES ASSUME PwmInit PROVE PwmInv
  OBVIOUS
<1>1. alt5 \in BOOLEAN /\ refused \in BOOLEAN
  BY Zenon DEF PwmInit
<1>2. ppc = "none" /\ field \in Fields
  BY PwmAssumption DEF PwmInit, NoFields, Fields
<1>3. reg \in [clock : BOOLEAN, div : Nat, ctl : {0, PWMMODE, MSMODE}, rng1 : Nat, dat1 : Nat]
  BY DEF PwmInit, ResetRegs
<1> QED
  BY <1>1, <1>2, <1>3 DEF PwmInv, PwmTypeOK, RegistersFollow, Fields

\* configPWM1, called with new members: either every register is written from
\* them, or the program is gone.
LEMMA Configured ==
  ASSUME PwmInv, field' \in Fields, field'.counts \in Counts, alt5', alt5' \in BOOLEAN,
         ConfigPWM1(field')
  PROVE  PwmInv'
<1>1. PICK div \in Divisors(field') :
        \/ div > MAX_DIVISOR /\ reg' = [reg EXCEPT !.clock = FALSE] /\ ppc' = "exited"
           /\ UNCHANGED refused
        \/ /\ div <= MAX_DIVISOR
           /\ \E bits \in BitCounts(field') :
                reg' = [clock |-> TRUE, div |-> div, ctl |-> field'.mode,
                        rng1 |-> field'.counts, dat1 |-> bits]
           /\ ppc' = "live" /\ refused' = FALSE
  BY DEF ConfigPWM1
<1>2. CASE div > MAX_DIVISOR /\ reg' = [reg EXCEPT !.clock = FALSE] /\ ppc' = "exited"
           /\ UNCHANGED refused
  <2>1. PwmTypeOK'
    BY <1>2 DEF PwmInv, PwmTypeOK, Fields
  <2> QED BY <1>2, <2>1 DEF PwmInv, RegistersFollow
<1>3. CASE /\ div <= MAX_DIVISOR
           /\ \E bits \in BitCounts(field') :
                reg' = [clock |-> TRUE, div |-> div, ctl |-> field'.mode,
                        rng1 |-> field'.counts, dat1 |-> bits]
           /\ ppc' = "live" /\ refused' = FALSE
  <2>1. PICK bits \in BitCounts(field') :
          reg' = [clock |-> TRUE, div |-> div, ctl |-> field'.mode,
                  rng1 |-> field'.counts, dat1 |-> bits]
    BY <1>3
  <2>2. div \in Nat /\ ClockFits(field', reg')
    BY <2>1, DivisorsFit
  <2>3. bits \in Nat /\ DutyFits(field', reg')
    BY <2>1, BitCountsFit
  <2>4. PwmTypeOK'
    BY <1>3, <2>1, <2>2, <2>3 DEF PwmTypeOK, Fields
  <2>5. ClockFits(field, reg)' /\ DutyFits(field, reg)'
    BY <2>2, <2>3 DEF ClockFits, DutyFits
  <2> QED BY <1>3, <2>1, <2>4, <2>5 DEF PwmInv, RegistersFollow
<1> QED
  BY <1>1, <1>2, <1>3

\* setDutyCycleForce, called with the members f of which only the mode may be
\* new: a refusal is noted when it is.
LEMMA ForcedKeeps ==
  ASSUME PwmInv, ppc = "live", UNCHANGED <<ppc, alt5>>,
         NEW mo \in {PWMMODE, MSMODE}, NEW n \in {PWMMODE, MSMODE}, NEW duty \in 0 .. PARTS,
         NEW f, f = [field EXCEPT !.mode = n],
         Forced(f, duty, mo)
  PROVE  PwmInv'
<1>1. field \in Fields /\ f \in Fields /\ f.counts = field.counts /\ f.frequency = field.frequency
      /\ f.dutyCycle = field.dutyCycle
  BY DEF PwmInv, PwmTypeOK, Fields
<1>2. CASE Within(duty)
  <2>1. /\ field' = [f EXCEPT !.dutyCycle = duty, !.mode = mo]
        /\ refused' = FALSE
    BY <1>2 DEF Forced
  <2>2. PICK bits \in BitCounts(field') :
          reg' = [reg EXCEPT !.ctl = mo, !.rng1 = f.counts, !.dat1 = bits]
    BY <1>2 DEF Forced
  <2>3. field' \in Fields /\ field'.counts = field.counts /\ field'.frequency = field.frequency
        /\ field'.mode = mo
    BY <1>1, <2>1 DEF Fields
  <2>4. reg'.dat1 = bits /\ reg'.div = reg.div
    BY <2>2 DEF PwmInv, PwmTypeOK
  <2>5. bits \in Nat /\ DutyFits(field', reg')
    BY <2>3, <2>4, BitCountsFit
  <2>6. DutyFits(field, reg)' /\ (ClockFits(field, reg) => ClockFits(field, reg)')
    BY <2>3, <2>4, <2>5 DEF DutyFits, ClockFits
  <2>7. PwmTypeOK'
    BY <1>1, <2>1, <2>2, <2>3, <2>5 DEF PwmInv, PwmTypeOK, Fields
  <2> QED BY <1>1, <2>1, <2>2, <2>3, <2>6, <2>7 DEF PwmInv, RegistersFollow, PwmTypeOK
<1>3. CASE ~Within(duty)
  <2>1. field' = f /\ refused' = (refused \/ f # field) /\ reg' = reg
    BY <1>3 DEF Forced
  <2>2. /\ ClockFits(field, reg) => ClockFits(field, reg)'
        /\ DutyFits(field, reg) => DutyFits(field, reg)'
    BY <1>1, <2>1 DEF ClockFits, DutyFits
  <2>3. refused' \in BOOLEAN /\ (~refused' => ~refused /\ f = field)
    BY <2>1, Zenon DEF PwmInv, PwmTypeOK
  <2>4. PwmTypeOK'
    BY <1>1, <2>1, <2>3 DEF PwmInv, PwmTypeOK, Fields
  <2> QED BY <1>1, <2>1, <2>2, <2>3, <2>4 DEF PwmInv, RegistersFollow
<1> QED
  BY <1>2, <1>3

LEMMA NextInv == PwmInv /\ [PwmNext]_pwmVars => PwmInv'
<1> SUFFICES ASSUME PwmInv, [PwmNext]_pwmVars PROVE PwmInv'
  OBVIOUS
<1>1. CASE PwmConstruct
  <2>1. field' \in Fields /\ field'.counts \in Counts
    BY <1>1, PwmAssumption DEF PwmConstruct, Fields
  <2> QED BY <1>1, <2>1, Configured DEF PwmConstruct
<1>2. CASE SetFrequency
  <2>1. field' \in Fields /\ field'.counts \in Counts
    BY <1>2, PwmAssumption DEF SetFrequency, PwmInv, PwmTypeOK, Fields
  <2>2. alt5' /\ alt5' \in BOOLEAN
    BY <1>2 DEF SetFrequency, PwmInv, PwmTypeOK, RegistersFollow
  <2> QED BY <1>2, <2>1, <2>2, Configured DEF SetFrequency
<1>3. CASE SetCounts
  <2>1. field' \in Fields /\ field'.counts \in Counts
    BY <1>3, PwmAssumption DEF SetCounts, PwmInv, PwmTypeOK, Fields
  <2>2. alt5' /\ alt5' \in BOOLEAN
    BY <1>3 DEF SetCounts, PwmInv, PwmTypeOK, RegistersFollow
  <2> QED BY <1>3, <2>1, <2>2, Configured DEF SetCounts
<1>4. CASE SetDutyCycle
  <2>1. PICK duty \in 0 .. PARTS : field' = [field EXCEPT !.dutyCycle = duty]
    BY <1>4 DEF SetDutyCycle
  <2>2. PICK bits \in BitCounts(field') : reg' = [reg EXCEPT !.dat1 = bits]
    BY <1>4 DEF SetDutyCycle
  <2>3. ppc = "live" /\ UNCHANGED <<ppc, alt5, refused>>
    BY <1>4 DEF SetDutyCycle
  <2>4. field' \in Fields /\ field'.counts = field.counts /\ field'.frequency = field.frequency
        /\ field'.mode = field.mode
    BY <2>1 DEF PwmInv, PwmTypeOK, Fields
  <2>5. reg'.dat1 = bits /\ reg'.div = reg.div
    BY <2>2 DEF PwmInv, PwmTypeOK
  <2>6. bits \in Nat /\ DutyFits(field', reg')
    BY <2>4, <2>5, BitCountsFit
  <2>7. DutyFits(field, reg)' /\ (ClockFits(field, reg) => ClockFits(field, reg)')
    BY <2>4, <2>5, <2>6 DEF DutyFits, ClockFits
  <2>8. PwmTypeOK'
    BY <2>2, <2>3, <2>4, <2>6 DEF PwmInv, PwmTypeOK, Fields
  <2> QED BY <2>2, <2>3, <2>4, <2>7, <2>8 DEF PwmInv, PwmTypeOK, RegistersFollow
<1>5. CASE SetDutyCycleForce
  <2>1. ppc = "live" /\ UNCHANGED <<ppc, alt5>>
    BY <1>5 DEF SetDutyCycleForce
  <2>2. PICK duty \in 0 .. PARTS, mo \in {PWMMODE, MSMODE} : Forced(field, duty, mo)
    BY <1>5 DEF SetDutyCycleForce
  <2>3. field = [field EXCEPT !.mode = field.mode] /\ field.mode \in {PWMMODE, MSMODE}
    BY DEF PwmInv, PwmTypeOK
  <2> QED BY <2>1, <2>2, <2>3, ForcedKeeps
<1>6. CASE SetDutyCycleCount
  <2>1. PICK n \in 0 .. field.counts :
          /\ \E d \in Percents(n, field.counts) : field' = [field EXCEPT !.dutyCycle = d]
          /\ reg' = [reg EXCEPT !.dat1 = n]
    BY <1>6 DEF SetDutyCycleCount
  <2>2. PICK d \in Percents(n, field.counts) : field' = [field EXCEPT !.dutyCycle = d]
    BY <2>1
  <2>3. ppc = "live" /\ UNCHANGED <<ppc, alt5, refused>> /\ field.counts \in Counts
    BY <1>6 DEF SetDutyCycleCount, PwmInv
  <2>4. PICK c \in Nat \ {0}, p \in Nat : c = field.counts /\ p = PARTS /\ c <= p
    <3>1. PARTS \in Nat
      BY PwmAssumption
    <3>2. field.counts <= PARTS
      BY <2>3, PwmAssumption
    <3>3. field.counts \in Nat \ {0}
      BY DEF PwmInv, PwmTypeOK
    <3> QED
      BY <3>1, <3>2, <3>3
  <2>5. /\ d \in 0 .. PARTS /\ -c < d * c - n * p /\ d * c - n * p < c
    BY <2>4 DEF Percents
  <2>6. field' \in Fields /\ field'.counts = c /\ field'.frequency = field.frequency
        /\ field'.mode = field.mode /\ field'.dutyCycle = d
    BY <2>2, <2>4, <2>5 DEF PwmInv, PwmTypeOK, Fields
  <2>7. n \in Nat /\ reg'.dat1 = n /\ reg'.div = reg.div
    BY <2>1, <2>4 DEF PwmInv, PwmTypeOK
  <2>8. PwmTypeOK'
    BY <2>1, <2>3, <2>6, <2>7 DEF PwmInv, PwmTypeOK, Fields
  <2>9. DutyFits(field, reg)'
    <3>1. PICK x \in Int, y \in Int : x = d * c /\ y = n * p
      BY <2>4, <2>5, <2>7
    <3>2. -p <= y - x /\ y - x <= p
      BY <2>4, <2>5, <3>1
    <3>3. reg'.dat1 * PARTS - field'.dutyCycle * field'.counts = y - x
      BY <2>4, <2>6, <2>7, <3>1
    <3> QED
      BY <2>4, <3>2, <3>3 DEF DutyFits
  <2>10. ClockFits(field, reg) => ClockFits(field, reg)'
    BY <2>4, <2>6, <2>7 DEF ClockFits
  <2> QED BY <2>1, <2>3, <2>4, <2>6, <2>8, <2>9, <2>10 DEF PwmInv, PwmTypeOK, RegistersFollow
<1>7. CASE SetMode
  <2>1. ppc = "live" /\ UNCHANGED <<ppc, alt5>>
    BY <1>7 DEF SetMode
  <2>2. PICK mo \in {PWMMODE, MSMODE} : Forced([field EXCEPT !.mode = mo], field.dutyCycle, mo)
    BY <1>7 DEF SetMode
  <2>3. field.dutyCycle \in 0 .. PARTS
    BY DEF PwmInv, PwmTypeOK
  <2> QED BY <2>1, <2>2, <2>3, ForcedKeeps
<1>8. CASE PwmDestroy
  BY <1>8 DEF PwmDestroy, ResetRegs, PwmInv, PwmTypeOK, RegistersFollow
<1>9. CASE UNCHANGED pwmVars
  BY <1>9 DEF pwmVars, PwmInv, PwmTypeOK, RegistersFollow, ClockFits, DutyFits
<1> QED
  BY <1>1, <1>2, <1>3, <1>4, <1>5, <1>6, <1>7, <1>8, <1>9 DEF PwmNext

THEOREM PwmInvariant == PwmSpec => []PwmInv
<1>1. PwmInit => PwmInv
  BY InitInv
<1>2. PwmInv /\ [PwmNext]_pwmVars => PwmInv'
  BY NextInv
<1> QED
  BY <1>1, <1>2, PTL DEF PwmSpec

\* Members and registers keep their types: no setter stores a duty cycle of
\* more than the whole period.
THEOREM PwmTypeCorrect == PwmSpec => []PwmTypeOK
<1>1. PwmInv => PwmTypeOK
  BY DEF PwmInv
<1> QED
  BY <1>1, PwmInvariant, PTL

\* Whatever setters were called in whatever order, for every frequency and every
\* resolution that doubles are finer than, whether or not a percentage comes out
\* even in counts, the registers put out what the getters say to within a count.
THEOREM GettersTellRegisters == PwmSpec => []RegistersFollow
<1>1. PwmInv => RegistersFollow
  BY DEF PwmInv
<1> QED
  BY <1>1, PwmInvariant, PTL

-----------------------------------------------------------------------------
(* UartThread.                                                               *)

(* What is under way of an answer.                                           *)

\* The bytes of the answer to read n in a piece of it that begins after the place `from`.
Piece(n, s, from) == \A j \in 1 .. Len(s) : s[j] = <<n, from + j>>

\* The chunk k of the queue begins after at[k], what is not yet in the queue
\* after the last of these places: nothing is lost, added or out of order.
StreamAt(at) ==
  LET end == at[Len(queue) + 1] IN
  /\ at[1] = Len(resp_data)
  /\ Piece(nread, resp_data, 0)
  /\ \A k \in 1 .. Len(queue) : at[k + 1] = at[k] + Len(queue[k]) /\ Piece(nread, queue[k], at[k])
  /\ Piece(nread, chunk, end)
  /\ Piece(nread, wire, end + Len(chunk))
  /\ Piece(nread, due, end + Len(chunk) + Len(wire))
  /\ end + Len(chunk) + Len(wire) + Len(due) \in {LEN_HDRS, LEN_HDRS + RX_LEN}

Places == 0 .. LEN_HDRS + RX_LEN
Stream == \E at \in [1 .. Len(queue) + 1 -> Places] : StreamAt(at)

Silent == due = <<>> /\ wire = <<>> /\ chunk = <<>> /\ queue = <<>> /\ resp_data = <<>>

StreamInv ==
  /\ rdr = "put" <=> chunk # <<>>
  /\ \A k \in 1 .. Len(queue) : queue[k] # <<>>
  /\ upc \in {"send", "cleared"} => Silent
  /\ upc \in {"wait", "check"} => Stream
  /\ upc = "check" => ~Awaits

-----------------------------------------------------------------------------
(* Types.                                                                    *)

LEMMA Sizes == RX_LEN \in Nat \ {0} /\ MAX_READS \in Nat /\ MAX_ERRORS \in Nat /\ LEN_HDRS = 2
BY UartThreadAssumption DEF LEN_HDRS

LEMMA AnswerType ==
  ASSUME NEW n \in 1 .. MAX_READS, NEW len \in {LEN_HDRS, LEN_HDRS + RX_LEN}
  PROVE  Answer(n, len) \in Seq(Bytes) /\ Len(Answer(n, len)) = len
<1>1. len \in Nat /\ \A j \in 1 .. len : <<n, j>> \in Bytes
  BY Sizes DEF Bytes
<1>2. Answer(n, len) \in [1 .. len -> Bytes]
  BY <1>1 DEF Answer
<1> QED
  BY <1>1, <1>2, SeqDef

\* A piece of a sequence from its beginning, and what is left.
LEMMA Split ==
  ASSUME NEW S, NEW s \in Seq(S), NEW n \in 1 .. Len(s)
  PROVE  /\ SubSeq(s, 1, n) \in Seq(S) /\ Len(SubSeq(s, 1, n)) = n
         /\ \A j \in 1 .. n : SubSeq(s, 1, n)[j] = s[j]
         /\ SubSeq(s, n + 1, Len(s)) \in Seq(S)
         /\ Len(SubSeq(s, n + 1, Len(s))) = Len(s) - n
         /\ \A j \in 1 .. Len(s) - n : SubSeq(s, n + 1, Len(s))[j] = s[n + j]
<1>1. Len(s) \in Nat /\ \A i \in 1 .. Len(s) : s[i] \in S
  BY LenProperties, ElementOfSeq
<1>2. \A i \in 1 .. n : s[i] \in S
  BY <1>1
<1>3. \A i \in n + 1 .. Len(s) : s[i] \in S
  BY <1>1
<1>4. /\ SubSeq(s, 1, n) \in Seq(S)
      /\ Len(SubSeq(s, 1, n)) = IF 1 <= n THEN n - 1 + 1 ELSE 0
      /\ \A j \in 1 .. n - 1 + 1 : SubSeq(s, 1, n)[j] = s[1 + j - 1]
  BY <1>1, <1>2, SubSeqProperties
<1>5. /\ SubSeq(s, n + 1, Len(s)) \in Seq(S)
      /\ Len(SubSeq(s, n + 1, Len(s))) = IF n + 1 <= Len(s) THEN Len(s) - (n + 1) + 1 ELSE 0
      /\ \A j \in 1 .. Len(s) - (n + 1) + 1 : SubSeq(s, n + 1, Len(s))[j] = s[n + 1 + j - 1]
  BY <1>1, <1>3, SubSeqProperties
<1> QED
  BY <1>1, <1>4, <1>5

\* A write is of a read that was counted.
Numbered == upc = "cleared" => nread \in 1 .. MAX_READS

LEMMA UartInitType == UartThreadInit => (UartThreadTypeOK /\ Numbered)
BY Sizes, EmptySeq DEF UartThreadInit, UartThreadTypeOK, Numbered

LEMMA UartNextType ==
  UartThreadTypeOK /\ Numbered /\ [UartThreadNext]_uartVars => UartThreadTypeOK' /\ Numbered'
<1> SUFFICES ASSUME UartThreadTypeOK, Numbered, [UartThreadNext]_uartVars
             PROVE  UartThreadTypeOK' /\ Numbered'
  OBVIOUS
<1> USE Sizes DEF UartThreadTypeOK, Numbered
<1>1. CASE ByteArrives
  BY <1>1, HeadTailProperties, AppendProperties DEF ByteArrives
<1>2. CASE ThreadTest
  BY <1>2 DEF ThreadTest
<1>3. CASE ReadLine
  <2>1. wire' \in Seq(Bytes) /\ chunk' \in Seq(Bytes)
    <3>1. CASE wire = <<>>
      BY <1>3, <3>1 DEF ReadLine
    <3>2. CASE wire # <<>>
      <4>1. PICK n \in 1 .. Len(wire) : chunk' = SubSeq(wire, 1, n) /\ wire' = SubSeq(wire, n + 1, Len(wire))
        BY <1>3, <3>2 DEF ReadLine
      <4> QED
        BY <4>1, Split
    <3> QED
      BY <3>1, <3>2
  <2>2. rdr' \in {"test", "put"}
    BY <1>3 DEF ReadLine
  <2> QED
    BY <1>3, <2>1, <2>2 DEF ReadLine
<1>4. CASE ReadLineFails
  <2>1. errors' = errors \/ (errors < MAX_ERRORS /\ errors' = errors + 1)
    BY <1>4, Zenon DEF ReadLineFails
  <2>2. errors' \in 0 .. MAX_ERRORS
    BY <2>1
  <2> QED
    BY <1>4, <2>2 DEF ReadLineFails
<1>5. CASE PutChunk
  BY <1>5, EmptySeq, AppendProperties DEF PutChunk
<1>6. CASE ClearQ
  BY <1>6, EmptySeq DEF ClearQ
<1>7. CASE WriteRequest
  <2>1. ASSUME \E a \in Answers(nread) : due' = due \o a
        PROVE  due' \in Seq(Bytes)
    <3>1. \A a \in Answers(nread) : due \o a \in Seq(Bytes)
      <4>1. nread \in 1 .. MAX_READS
        BY <1>7 DEF WriteRequest
      <4>2. \A a \in Answers(nread) : a \in Seq(Bytes)
        BY <4>1, AnswerType DEF Answers
      <4> QED
        BY <4>2, ConcatProperties
    <3> QED
      BY <2>1, <3>1
  <2>2. due' = due \/ \E a \in Answers(nread) : due' = due \o a
    BY <1>7, Zenon DEF WriteRequest
  <2>3. due' \in Seq(Bytes)
    BY <2>1, <2>2
  <2>4. errors' = errors \/ (errors < MAX_ERRORS /\ errors' = errors + 1)
    BY <1>7, Zenon DEF WriteRequest
  <2>5. errors' \in 0 .. MAX_ERRORS
    BY <2>4
  <2>6. upc' \in {"wait", "raised"} /\ keep_running' \in BOOLEAN
    BY <1>7, Zenon DEF WriteRequest
  <2> QED
    BY <1>7, <2>3, <2>5, <2>6 DEF WriteRequest
<1>8. CASE GetChunk
  BY <1>8, HeadTailProperties, ConcatProperties DEF GetChunk
<1>9. CASE GotResponse
  BY <1>9 DEF GotResponse
<1>10. CASE CheckResponse
  BY <1>10, EmptySeq DEF CheckResponse
<1>11. CASE Interrupt
  BY <1>11, EmptySeq DEF Interrupt
<1>12. CASE UNCHANGED uartVars
  BY <1>12 DEF uartVars
<1> QED
  BY <1>1, <1>2, <1>3, <1>4, <1>5, <1>6, <1>7, <1>8, <1>9, <1>10, <1>11, <1>12
     DEF UartThreadNext, UartThreadStep

-----------------------------------------------------------------------------
(* The stream.                                                               *)

UartThreadInv == UartThreadTypeOK /\ Numbered /\ StreamInv

\* Pieces that follow on one another make one.
LEMMA Joined ==
  ASSUME NEW S, NEW s \in Seq(S), NEW t \in Seq(S), NEW n, NEW from \in Nat,
         Piece(n, s, from), Piece(n, t, from + Len(s))
  PROVE  Piece(n, s \o t, from) /\ Len(s \o t) = Len(s) + Len(t)
<1>1. Len(s) \in Nat /\ Len(t) \in Nat
  BY LenProperties
<1>2. /\ Len(s \o t) = Len(s) + Len(t)
      /\ \A i \in 1 .. Len(s) + Len(t) : (s \o t)[i] = IF i <= Len(s) THEN s[i] ELSE t[i - Len(s)]
  BY ConcatProperties
<1>3. ASSUME NEW j \in 1 .. Len(s \o t) PROVE (s \o t)[j] = <<n, from + j>>
  <2>0. j \in Nat /\ j \in 1 .. Len(s) + Len(t)
    BY <1>1, <1>2
  <2>1. CASE j <= Len(s)
    BY <1>1, <1>2, <2>0, <2>1 DEF Piece
  <2>2. CASE j > Len(s)
    <3>1. j - Len(s) \in 1 .. Len(t) /\ (s \o t)[j] = t[j - Len(s)]
      BY <1>1, <1>2, <2>0, <2>2
    <3>2. from + Len(s) + (j - Len(s)) = from + j
      BY <1>1, <2>0
    <3> QED
      BY <3>1, <3>2 DEF Piece
  <2>3. j <= Len(s) \/ j > Len(s)
    BY <1>1, <2>0
  <2> QED
    BY <2>1, <2>2, <2>3
<1> QED
  BY <1>2, <1>3 DEF Piece

\* A piece divides.
LEMMA Cleave ==
  ASSUME NEW S, NEW s \in Seq(S), NEW k \in 1 .. Len(s), NEW n, NEW from \in Nat,
         Piece(n, s, from)
  PROVE  /\ Piece(n, SubSeq(s, 1, k), from)
         /\ Piece(n, SubSeq(s, k + 1, Len(s)), from + k)
<1>1. Len(s) \in Nat /\ k \in Nat
  BY LenProperties
<1>2. ASSUME NEW j \in 1 .. Len(SubSeq(s, k + 1, Len(s)))
      PROVE  SubSeq(s, k + 1, Len(s))[j] = <<n, from + k + j>>
  <2>0. Len(SubSeq(s, k + 1, Len(s))) = Len(s) - k
    BY Split
  <2>1. j \in 1 .. Len(s) - k /\ SubSeq(s, k + 1, Len(s))[j] = s[k + j]
    BY <2>0, Split
  <2>2. k + j \in 1 .. Len(s) /\ from + (k + j) = from + k + j
    BY <1>1, <2>1
  <2> QED
    BY <2>1, <2>2 DEF Piece
<1>3. ASSUME NEW j \in 1 .. Len(SubSeq(s, 1, k)) PROVE SubSeq(s, 1, k)[j] = <<n, from + j>>
  <2>0. Len(SubSeq(s, 1, k)) = k
    BY Split
  <2>1. j \in 1 .. k /\ SubSeq(s, 1, k)[j] = s[j]
    BY <2>0, Split
  <2> QED
    BY <1>1, <2>1 DEF Piece
<1> QED
  BY <1>2, <1>3 DEF Piece

\* Its first byte is a piece as well, and so are the others.
LEMMA CleaveHead ==
  ASSUME NEW S, NEW s \in Seq(S), s # <<>>, NEW n, NEW from \in Nat, Piece(n, s, from)
  PROVE  /\ Head(s) = <<n, from + 1>>
         /\ Piece(n, Tail(s), from + 1)
         /\ Len(Tail(s)) = Len(s) - 1 /\ Len(s) \in Nat \ {0}
<1>1. Len(s) \in Nat \ {0} /\ Head(s) = s[1]
  BY EmptySeq
<1>2. Tail(s) \in Seq(S) /\ Len(Tail(s)) = Len(s) - 1 /\ \A i \in 1 .. Len(Tail(s)) : Tail(s)[i] = s[i + 1]
  BY HeadTailProperties
<1>3. ASSUME NEW j \in 1 .. Len(Tail(s)) PROVE Tail(s)[j] = <<n, from + 1 + j>>
  <2>1. j + 1 \in 1 .. Len(s) /\ from + (j + 1) = from + 1 + j
    BY <1>1, <1>2
  <2> QED
    BY <1>2, <2>1 DEF Piece
<1> QED
  BY <1>1, <1>2, <1>3 DEF Piece

LEMMA EmptyPiece == ASSUME NEW n, NEW from PROVE Piece(n, <<>>, from)
BY DEF Piece

LEMMA StreamTypes ==
  ASSUME UartThreadTypeOK
  PROVE  /\ Len(due) \in Nat /\ Len(wire) \in Nat /\ Len(chunk) \in Nat
         /\ Len(queue) \in Nat /\ Len(resp_data) \in Nat
         /\ \A k \in 1 .. Len(queue) : queue[k] \in Seq(Bytes) /\ Len(queue[k]) \in Nat
BY LenProperties, ElementOfSeq DEF UartThreadTypeOK

LEMMA ArrivesStream ==
  ASSUME UartThreadInv, Stream, ByteArrives
  PROVE  Stream'
<1>a. /\ UNCHANGED <<upc, rdr, nread, chunk, queue, resp_data>> /\ due # <<>>
      /\ wire' = Append(wire, Head(due)) /\ due' = Tail(due)
  BY DEF ByteArrives
<1>b. UartThreadTypeOK
  BY DEF UartThreadInv
<1>c. Len(due) \in Nat /\ Len(wire) \in Nat /\ Len(chunk) \in Nat /\ Len(queue) \in Nat
  BY <1>b, StreamTypes
<1>1. PICK at \in [1 .. Len(queue) + 1 -> Places] : StreamAt(at)
  BY DEF Stream
<1> DEFINE end == at[Len(queue) + 1]
           from == end + Len(chunk)
<1>2. end \in Nat /\ from \in Nat /\ from + Len(wire) \in Nat
  BY <1>c, Sizes DEF Places
<1> HIDE DEF from
<1>3. due \in Seq(Bytes) /\ wire \in Seq(Bytes) /\ Head(due) \in Bytes
  BY <1>a, <1>b, HeadTailProperties DEF UartThreadTypeOK
<1>4. /\ Head(due) = <<nread, from + Len(wire) + 1>>
      /\ Piece(nread, Tail(due), from + Len(wire) + 1)
      /\ Len(Tail(due)) = Len(due) - 1 /\ Len(due) \in Nat \ {0}
  BY <1>1, <1>2, <1>3, <1>a, CleaveHead DEF StreamAt, from
<1>5. /\ Len(wire') = Len(wire) + 1
      /\ \A j \in 1 .. Len(wire) : wire'[j] = wire[j]
      /\ wire'[Len(wire) + 1] = Head(due)
  BY <1>3, <1>a, AppendProperties
<1>6. Piece(nread', wire', from)
  <2>1. ASSUME NEW j \in 1 .. Len(wire') PROVE wire'[j] = <<nread, from + j>>
    <3>1. CASE j \in 1 .. Len(wire)
      BY <1>1, <1>5, <3>1 DEF StreamAt, Piece, from
    <3>2. CASE j = Len(wire) + 1
      <4>1. from + j = from + Len(wire) + 1
        BY <1>2, <1>c, <3>2
      <4> QED
        BY <1>4, <1>5, <3>2, <4>1
    <3>3. j \in 1 .. Len(wire) \/ j = Len(wire) + 1
      BY <1>5, <1>c
    <3> QED
      BY <3>1, <3>2, <3>3
  <2> QED
    BY <2>1, <1>a DEF Piece
<1>7. from + Len(wire') = from + Len(wire) + 1 /\ Len(due') = Len(due) - 1
  BY <1>2, <1>4, <1>5, <1>a, <1>c
<1>8. from + Len(wire') + Len(due') = from + Len(wire) + Len(due)
  <2>1. Len(wire') = Len(wire) + 1
    BY <1>5
  <2> QED
    BY <1>2, <1>7, <1>c, <2>1
<1>9. StreamAt(at)'
  BY <1>1, <1>4, <1>6, <1>7, <1>8, <1>a DEF StreamAt, from
<1> QED
  BY <1>9, <1>a DEF Stream

LEMMA ReadLineStream ==
  ASSUME UartThreadInv, Stream, ReadLine
  PROVE  Stream'
<1>a. UNCHANGED <<upc, nread, due, queue, resp_data>> /\ rdr = "readline"
  BY DEF ReadLine
<1>b. UartThreadTypeOK /\ chunk = <<>>
  BY <1>a DEF UartThreadInv, StreamInv
<1>c. Len(due) \in Nat /\ Len(wire) \in Nat /\ Len(chunk) = 0 /\ Len(queue) \in Nat
  BY <1>b, StreamTypes
<1>1. PICK at \in [1 .. Len(queue) + 1 -> Places] : StreamAt(at)
  BY DEF Stream
<1> DEFINE end == at[Len(queue) + 1]
<1>2. end \in Nat
  BY <1>c, Sizes DEF Places
<1> HIDE DEF end
<1>3. /\ Piece(nread, wire, end) /\ Piece(nread, due, end + Len(wire))
      /\ end + Len(wire) + Len(due) \in {LEN_HDRS, LEN_HDRS + RX_LEN}
  <2>1. end + Len(chunk) = end
    BY <1>2, <1>c
  <2> QED
    BY <1>1, <2>1 DEF StreamAt, end
<1>4. CASE wire = <<>>
  <2>1. UNCHANGED <<wire, chunk>>
    BY <1>4 DEF ReadLine
  <2>2. StreamAt(at)'
    BY <1>1, <1>a, <2>1 DEF StreamAt, Piece
  <2> QED
    BY <1>a, <2>2 DEF Stream
<1>5. CASE wire # <<>>
  <2>1. PICK n \in 1 .. Len(wire) :
          chunk' = SubSeq(wire, 1, n) /\ wire' = SubSeq(wire, n + 1, Len(wire))
    BY <1>5 DEF ReadLine
  <2>2. wire \in Seq(Bytes)
    BY <1>b DEF UartThreadTypeOK
  <2>3. Len(chunk') = n /\ Len(wire') = Len(wire) - n
    BY <2>1, <2>2, Split
  <2>4. Piece(nread, chunk', end) /\ Piece(nread, wire', end + Len(chunk'))
    BY <1>2, <1>3, <2>1, <2>2, <2>3, Cleave
  <2>5. end + Len(chunk') + Len(wire') = end + Len(wire)
    BY <1>2, <1>c, <2>3
  <2>6. StreamAt(at)'
    BY <1>1, <1>3, <1>a, <2>4, <2>5 DEF StreamAt, end
  <2> QED
    BY <1>a, <2>6 DEF Stream
<1> QED
  BY <1>4, <1>5

LEMMA PutStream ==
  ASSUME UartThreadInv, Stream, PutChunk
  PROVE  Stream'
<1>a. /\ UNCHANGED <<upc, nread, due, wire, resp_data>>
      /\ queue' = Append(queue, chunk) /\ chunk' = <<>>
  BY DEF PutChunk
<1>b. UartThreadTypeOK
  BY DEF UartThreadInv
<1>c. Len(due) \in Nat /\ Len(wire) \in Nat /\ Len(chunk) \in Nat /\ Len(queue) \in Nat
  BY <1>b, StreamTypes
<1>d. /\ Len(queue') = Len(queue) + 1
      /\ \A k \in 1 .. Len(queue) : queue'[k] = queue[k]
      /\ queue'[Len(queue) + 1] = chunk
  BY <1>a, <1>b, AppendProperties DEF UartThreadTypeOK
<1>1. PICK at \in [1 .. Len(queue) + 1 -> Places] : StreamAt(at)
  BY DEF Stream
<1> DEFINE end == at[Len(queue) + 1]
<1>n. PICK new : new = [k \in 1 .. Len(queue) + 2 |->
                          IF k = Len(queue) + 2 THEN end + Len(chunk) ELSE at[k]]
  OBVIOUS
<1>2. end \in Nat /\ new[Len(queue) + 2] = end + Len(chunk) /\ new[Len(queue) + 1] = end
      /\ \A k \in 1 .. Len(queue) + 1 : new[k] = at[k]
  BY <1>c, <1>n, Sizes DEF Places
<1>3. new \in [1 .. Len(queue') + 1 -> Places]
  <2>1. end + Len(chunk) + Len(wire) + Len(due) \in {LEN_HDRS, LEN_HDRS + RX_LEN}
    BY <1>1 DEF StreamAt
  <2> HIDE DEF end
  <2>2. end + Len(chunk) \in Places
    BY <1>2, <1>c, <2>1, Sizes DEF Places
  <2>3. Len(queue') + 1 = Len(queue) + 2
    BY <1>c, <1>d
  <2>4. \A k \in 1 .. Len(queue) + 2 : new[k] \in Places
    BY <1>1, <1>2, <1>c, <1>n, <2>2
  <2> QED
    BY <1>n, <2>3, <2>4
<1> HIDE DEF end
<1>4. /\ Piece(nread, chunk, end) /\ Piece(nread, wire, end + Len(chunk))
      /\ Piece(nread, due, end + Len(chunk) + Len(wire))
      /\ end + Len(chunk) + Len(wire) + Len(due) \in {LEN_HDRS, LEN_HDRS + RX_LEN}
  BY <1>1 DEF StreamAt, end
<1>5. ASSUME NEW k \in 1 .. Len(queue')
      PROVE  new[k + 1] = new[k] + Len(queue'[k]) /\ Piece(nread, queue'[k], new[k])
  <2>1. CASE k \in 1 .. Len(queue)
    <3>1. at[k + 1] = at[k] + Len(queue[k]) /\ Piece(nread, queue[k], at[k])
      BY <1>1, <2>1 DEF StreamAt
    <3>2. k \in 1 .. Len(queue) + 1 /\ k + 1 \in 1 .. Len(queue) + 1
      BY <1>c, <2>1
    <3> QED
      BY <1>2, <1>d, <2>1, <3>1, <3>2
  <2>2. CASE k = Len(queue) + 1
    <3>1. k + 1 = Len(queue) + 2
      BY <1>c, <2>2
    <3> QED
      BY <1>2, <1>4, <1>d, <2>2, <3>1
  <2> QED
    BY <1>c, <1>d, <2>1, <2>2
<1>6. new[Len(queue') + 1] = end + Len(chunk) /\ Len(chunk') = 0
  <2>1. Len(queue') + 1 = Len(queue) + 2
    BY <1>c, <1>d
  <2> QED
    BY <1>2, <1>a, <2>1
<1>7. end + Len(chunk) + Len(chunk') = end + Len(chunk)
  BY <1>2, <1>6, <1>c
<1>8. new[1] = Len(resp_data) /\ Piece(nread, resp_data, 0)
  <2>1. 1 \in 1 .. Len(queue) + 1
    BY <1>c
  <2> QED
    BY <1>1, <1>2, <2>1 DEF StreamAt
<1>9. StreamAt(new)'
  BY <1>4, <1>5, <1>6, <1>7, <1>8, <1>a, EmptyPiece DEF StreamAt
<1> QED
  BY <1>3, <1>9 DEF Stream

LEMMA GetStream ==
  ASSUME UartThreadInv, Stream, GetChunk
  PROVE  Stream'
<1>a. /\ UNCHANGED <<upc, nread, due, wire, chunk>> /\ queue # <<>>
      /\ resp_data' = resp_data \o Head(queue) /\ queue' = Tail(queue)
  BY DEF GetChunk
<1>b. UartThreadTypeOK
  BY DEF UartThreadInv
<1>c. Len(queue) \in Nat \ {0} /\ queue \in Seq(Seq(Bytes)) /\ resp_data \in Seq(Bytes)
      /\ queue[1] \in Seq(Bytes)
  BY <1>a, <1>b, EmptySeq, ElementOfSeq DEF UartThreadTypeOK
<1>d. Head(queue) = queue[1]
  BY <1>c
<1>e. Len(queue') = Len(queue) - 1 /\ \A k \in 1 .. Len(queue') : queue'[k] = queue[k + 1]
  BY <1>a, <1>c, HeadTailProperties
<1>1. PICK at \in [1 .. Len(queue) + 1 -> Places] : StreamAt(at)
  BY DEF Stream
<1>n. PICK new : new = [k \in 1 .. Len(queue') + 1 |-> at[k + 1]]
  OBVIOUS
<1>2. new \in [1 .. Len(queue') + 1 -> Places]
  <2>1. Len(queue') + 1 = Len(queue) /\ Len(queue) \in Nat
    BY <1>c, <1>e
  <2>2. \A k \in 1 .. Len(queue) : k + 1 \in 1 .. Len(queue) + 1
    BY <2>1
  <2>3. \A k \in 1 .. Len(queue) : at[k + 1] \in Places
    BY <1>1, <2>2
  <2> QED
    BY <1>n, <2>1, <2>3
<1>3. new[1] = at[2] /\ new[Len(queue') + 1] = at[Len(queue) + 1]
  BY <1>c, <1>e, <1>n
<1>4. at[1] = Len(resp_data) /\ at[1 + 1] = at[1] + Len(queue[1]) /\ Piece(nread, queue[1], at[1])
  <2>1. 1 \in 1 .. Len(queue)
    BY <1>c
  <2> QED
    BY <1>1, <2>1 DEF StreamAt
<1>5. Piece(nread, resp_data', 0) /\ Len(resp_data') = at[2]
  <2>1. Piece(nread, resp_data, 0) /\ 0 + Len(resp_data) = Len(resp_data)
    BY <1>1, <1>c, LenProperties DEF StreamAt
  <2>2. /\ Piece(nread, resp_data \o queue[1], 0)
        /\ Len(resp_data \o queue[1]) = Len(resp_data) + Len(queue[1])
    BY <1>4, <1>c, <2>1, Joined
  <2> QED
    BY <1>4, <1>a, <1>d, <2>2
<1>6. ASSUME NEW k \in 1 .. Len(queue')
      PROVE  new[k + 1] = new[k] + Len(queue'[k]) /\ Piece(nread, queue'[k], new[k])
  <2>1. k + 1 \in 1 .. Len(queue) /\ k \in 1 .. Len(queue') + 1 /\ k + 1 \in 1 .. Len(queue') + 1
    BY <1>c, <1>e
  <2>2. at[k + 1 + 1] = at[k + 1] + Len(queue[k + 1]) /\ Piece(nread, queue[k + 1], at[k + 1])
    BY <1>1, <2>1 DEF StreamAt
  <2> QED
    BY <1>e, <1>n, <2>1, <2>2
<1>7. StreamAt(new)'
  BY <1>1, <1>3, <1>5, <1>6, <1>a DEF StreamAt
<1> QED
  BY <1>2, <1>7 DEF Stream

\* An answer that is not too short is whole, and nothing comes after it.
LEMMA Whole ==
  ASSUME UartThreadInv, Stream, ~Awaits
  PROVE  /\ resp_data = Answer(nread, LEN_HDRS + RX_LEN)
         /\ due = <<>> /\ wire = <<>> /\ chunk = <<>> /\ queue = <<>>
<1>b. UartThreadTypeOK
  BY DEF UartThreadInv
<1>c. /\ Len(due) \in Nat /\ Len(wire) \in Nat /\ Len(chunk) \in Nat
      /\ Len(queue) \in Nat /\ Len(resp_data) \in Nat
      /\ \A k \in 1 .. Len(queue) : Len(queue[k]) \in Nat
  BY <1>b, StreamTypes
<1>1. PICK at \in [1 .. Len(queue) + 1 -> Places] : StreamAt(at)
  BY DEF Stream
<1> DEFINE end == at[Len(queue) + 1]
<1>2. end \in Places /\ end \in Nat
  BY <1>c, Sizes DEF Places
<1>3. /\ at[1] = Len(resp_data)
      /\ end + Len(chunk) + Len(wire) + Len(due) \in {LEN_HDRS, LEN_HDRS + RX_LEN}
      /\ \A k \in 1 .. Len(queue) : at[k + 1] = at[k] + Len(queue[k])
  BY <1>1 DEF StreamAt
<1>4. Len(resp_data) >= LEN_HDRS + RX_LEN
  BY <1>c, Sizes DEF Awaits
<1>5. Len(queue) = 0
  <2> SUFFICES ASSUME Len(queue) # 0 PROVE FALSE
    OBVIOUS
  <2>1. 1 \in 1 .. Len(queue) /\ 2 \in 1 .. Len(queue) + 1
    BY <1>c
  <2>2. queue[1] # <<>> /\ queue[1] \in Seq(Bytes)
    BY <1>b, <2>1, ElementOfSeq DEF UartThreadInv, StreamInv, UartThreadTypeOK
  <2>3. Len(queue[1]) \in Nat \ {0}
    BY <2>2, EmptySeq
  <2>4. at[2] = Len(resp_data) + Len(queue[1]) /\ at[2] \in Places
    <3>1. at[1 + 1] = at[1] + Len(queue[1])
      BY <1>3, <2>1
    <3> QED
      BY <1>3, <2>1, <3>1
  <2> QED
    BY <1>4, <1>c, <2>3, <2>4, Sizes DEF Places
<1>6. end = Len(resp_data)
  BY <1>3, <1>5
<1> HIDE DEF end
<1>7. Len(resp_data) = LEN_HDRS + RX_LEN /\ Len(chunk) = 0 /\ Len(wire) = 0 /\ Len(due) = 0
  BY <1>2, <1>3, <1>4, <1>6, <1>c, Sizes
<1>8. resp_data = Answer(nread, LEN_HDRS + RX_LEN)
  <2>1. resp_data = [j \in 1 .. Len(resp_data) |-> resp_data[j]]
    BY <1>b, LenProperties DEF UartThreadTypeOK
  <2>2. \A j \in 1 .. Len(resp_data) : resp_data[j] = <<nread, j>>
    BY <1>1, <1>c DEF StreamAt, Piece
  <2> QED
    BY <1>7, <2>1, <2>2 DEF Answer
<1> QED
  BY <1>5, <1>7, <1>8, <1>b, EmptySeq DEF UartThreadTypeOK

\* A request begins a stream: its answer is to come.
LEMMA RequestStream ==
  ASSUME UartThreadInv, upc = "cleared", WriteRequest, upc' = "wait"
  PROVE  Stream'
<1>1. PICK a \in Answers(nread) : due' = due \o a
  BY Zenon DEF WriteRequest
<1>2. UNCHANGED <<nread, wire, chunk, queue, resp_data>> /\ Silent
  BY DEF WriteRequest, UartThreadInv, StreamInv
<1>3. PICK len \in {LEN_HDRS, LEN_HDRS + RX_LEN} : a = Answer(nread, len)
  BY DEF Answers
<1>4. a \in Seq(Bytes) /\ Len(a) = len
  BY <1>3, AnswerType DEF UartThreadInv, Numbered
<1>5. due' = a
  BY <1>1, <1>2, <1>4, ConcatEmptySeq DEF Silent
<1>6. Piece(nread, a, 0)
  <2>1. \A j \in 1 .. len : a[j] = <<nread, j>> /\ 0 + j = j
    BY <1>3, Sizes DEF Answer
  <2> QED
    BY <1>4, <2>1 DEF Piece
<1>7. PICK at : at = [k \in 1 .. 1 |-> 0]
  OBVIOUS
<1>8. Len(queue) = 0 /\ Len(chunk) = 0 /\ Len(wire) = 0 /\ Len(resp_data) = 0
  BY <1>2 DEF Silent
<1>9. at \in [1 .. Len(queue') + 1 -> Places] /\ at[1] = 0 /\ at[Len(queue') + 1] = 0
  BY <1>2, <1>7, <1>8, Sizes DEF Places
<1>10. StreamAt(at)'
  <2>1. 0 + Len(chunk') = 0 /\ 0 + Len(chunk') + Len(wire') = 0 /\ Len(resp_data') = 0 /\ Len(queue') = 0
    BY <1>2, <1>8
  <2>2. 0 + Len(chunk') + Len(wire') + Len(due') = len
    BY <1>3, <1>4, <1>5, <2>1, Sizes
  <2> QED
    BY <1>2, <1>5, <1>6, <1>9, <2>1, <2>2, EmptyPiece DEF StreamAt, Silent
<1> QED
  BY <1>9, <1>10 DEF Stream

LEMMA StreamStays ==
  ASSUME Stream, UNCHANGED <<nread, due, wire, chunk, queue, resp_data>>
  PROVE  Stream'
BY DEF Stream, StreamAt, Piece

LEMMA UartNextStream ==
  ASSUME UartThreadInv, [UartThreadNext]_uartVars
  PROVE  StreamInv'
<1> USE DEF UartThreadInv, StreamInv
<1>b. UartThreadTypeOK
  OBVIOUS
<1>1. CASE ByteArrives
  <2>1. UNCHANGED <<upc, rdr, chunk, queue, resp_data, nread>> /\ due # <<>>
    BY <1>1 DEF ByteArrives
  <2>2. upc \in {"wait", "check"} => Stream'
    BY <1>1, ArrivesStream
  <2> QED
    BY <2>1, <2>2 DEF Silent, Awaits
<1>2. CASE ThreadTest
  <2>1. UNCHANGED <<upc, nread, due, wire, chunk, queue, resp_data>> /\ rdr # "put" /\ rdr' # "put"
    BY <1>2 DEF ThreadTest
  <2> QED
    BY <2>1, StreamStays DEF Silent, Awaits
<1>3. CASE ReadLine
  <2>1. UNCHANGED <<upc, nread, due, queue, resp_data>> /\ rdr # "put"
    BY <1>3 DEF ReadLine
  <2>2. upc \in {"wait", "check"} => Stream'
    BY <1>3, ReadLineStream
  <2>3. CASE wire = <<>>
    <3>1. rdr' # "put" /\ UNCHANGED <<wire, chunk>>
      BY <1>3, <2>3 DEF ReadLine
    <3> QED
      BY <2>1, <2>2, <3>1 DEF Silent, Awaits
  <2>4. CASE wire # <<>>
    <3>1. PICK n \in 1 .. Len(wire) : chunk' = SubSeq(wire, 1, n)
      BY <1>3, <2>4 DEF ReadLine
    <3>2. wire \in Seq(Bytes)
      BY <1>b DEF UartThreadTypeOK
    <3>3. Len(chunk') = n /\ n # 0
      BY <3>1, <3>2, Split
    <3>4. rdr' = "put" /\ chunk' # <<>>
      BY <1>3, <2>4, <3>3, EmptySeq DEF ReadLine
    <3> QED
      BY <2>1, <2>2, <2>4, <3>4 DEF Silent, Awaits
  <2> QED
    BY <2>3, <2>4
<1>4. CASE ReadLineFails
  <2>1. UNCHANGED <<upc, nread, due, wire, chunk, queue, resp_data>> /\ rdr # "put" /\ rdr' # "put"
    BY <1>4 DEF ReadLineFails
  <2> QED
    BY <2>1, StreamStays DEF Silent, Awaits
<1>5. CASE PutChunk
  <2>1. /\ UNCHANGED <<upc, nread, resp_data>> /\ rdr = "put" /\ rdr' # "put"
        /\ chunk' = <<>> /\ queue' = Append(queue, chunk)
    BY <1>5 DEF PutChunk
  <2>2. upc \in {"wait", "check"} => Stream'
    BY <1>5, PutStream
  <2>3. upc \notin {"send", "cleared"}
    BY <2>1 DEF Silent
  <2>4. \A k \in 1 .. Len(queue') : queue'[k] # <<>>
    <3>1. Len(queue) \in Nat /\ queue \in Seq(Seq(Bytes)) /\ chunk \in Seq(Bytes)
      BY <1>b, StreamTypes DEF UartThreadTypeOK
    <3>2. /\ Len(queue') = Len(queue) + 1 /\ queue'[Len(queue) + 1] = chunk
          /\ \A k \in 1 .. Len(queue) : queue'[k] = queue[k]
      BY <2>1, <3>1, AppendProperties
    <3>3. \A k \in 1 .. Len(queue') : k \in 1 .. Len(queue) \/ k = Len(queue) + 1
      BY <3>1, <3>2
    <3> QED
      BY <2>1, <3>2, <3>3
  <2> QED
    BY <2>1, <2>2, <2>3, <2>4 DEF Awaits
<1>6. CASE ClearQ
  <2>1. /\ UNCHANGED <<rdr, due, wire, chunk, resp_data>> /\ queue' = <<>>
        /\ upc = "send" /\ upc' = "cleared"
    BY <1>6 DEF ClearQ
  <2>2. \A k \in 1 .. Len(queue') : queue'[k] # <<>>
    BY <2>1
  <2> QED
    BY <2>1, <2>2 DEF Silent
<1>7. CASE WriteRequest
  <2>1. UNCHANGED <<rdr, wire, chunk, queue, resp_data>> /\ upc = "cleared"
    BY <1>7 DEF WriteRequest
  <2>2. upc' \in {"wait", "raised"}
    BY <1>7, Zenon DEF WriteRequest
  <2>3. upc' = "wait" => Stream'
    BY <1>7, <2>1, RequestStream
  <2> QED
    BY <2>1, <2>2, <2>3
<1>8. CASE GetChunk
  <2>1. UNCHANGED <<upc, rdr, chunk>> /\ upc = "wait" /\ queue # <<>> /\ queue' = Tail(queue)
    BY <1>8 DEF GetChunk
  <2>2. Stream'
    BY <1>8, <2>1, GetStream
  <2>3. \A k \in 1 .. Len(queue') : queue'[k] # <<>>
    <3>1. /\ Len(queue) \in Nat /\ Len(queue') = Len(queue) - 1
          /\ \A k \in 1 .. Len(queue') : queue'[k] = queue[k + 1]
      BY <1>b, <2>1, StreamTypes, HeadTailProperties DEF UartThreadTypeOK
    <3>2. \A k \in 1 .. Len(queue') : k + 1 \in 1 .. Len(queue)
      BY <3>1
    <3> QED
      BY <3>1, <3>2
  <2> QED
    BY <2>1, <2>2, <2>3
<1>9. CASE GotResponse
  <2>1. /\ UNCHANGED <<rdr, nread, due, wire, chunk, queue, resp_data>> /\ ~Awaits
        /\ upc = "wait" /\ upc' = "check"
    BY <1>9 DEF GotResponse
  <2>2. Stream'
    BY <2>1, StreamStays
  <2> QED
    BY <2>1, <2>2 DEF Awaits
<1>10. CASE CheckResponse
  <2>1. /\ UNCHANGED <<rdr, due, wire, chunk, queue>> /\ resp_data' = <<>>
        /\ upc = "check" /\ upc' \in {"send", "raised"}
    BY <1>10 DEF CheckResponse
  <2>2. due = <<>> /\ wire = <<>> /\ chunk = <<>> /\ queue = <<>>
    BY <2>1, Whole
  <2> QED
    BY <2>1, <2>2 DEF Silent
<1>11. CASE Interrupt
  <2>1. UNCHANGED <<rdr, chunk, queue>> /\ upc' = "exited"
    BY <1>11 DEF Interrupt
  <2> QED
    BY <2>1
<1>12. CASE UNCHANGED uartVars
  BY <1>12, StreamStays DEF uartVars, Silent, Awaits
<1> QED
  BY <1>1, <1>2, <1>3, <1>4, <1>5, <1>6, <1>7, <1>8, <1>9, <1>10, <1>11, <1>12
     DEF UartThreadNext, UartThreadStep

LEMMA UartInitStream == UartThreadInit => StreamInv
BY DEF UartThreadInit, StreamInv, Silent

LEMMA UartThreadInductive == UartThreadInv /\ [UartThreadNext]_uartVars => UartThreadInv'
BY UartNextType, UartNextStream DEF UartThreadInv

LEMMA UartThreadInitInv == UartThreadInit => UartThreadInv
BY UartInitType, UartInitStream DEF UartThreadInv

\* The strengthened invariant of the two threads and their port.
THEOREM UartThreadInvariance == UartThreadSpec => []UartThreadInv
BY UartThreadInitInv, UartThreadInductive, PTL DEF UartThreadSpec

\* The variables of the two Python threads keep their types (write_read.py,
\* mod_common/uart.py).
THEOREM UartThreadTypeCorrect == UartThreadSpec => []UartThreadTypeOK
<1>1. UartThreadInv => UartThreadTypeOK
  BY DEF UartThreadInv
<1> QED
  BY <1>1, UartThreadInvariance, PTL

\* For every length of an answer and however the thread cuts it into chunks, a
\* read is given the whole answer to its own request (write_read.py:30-60).
THEOREM ReadsOwnReply == UartThreadSpec => []ReplyIsOwn
<1>1. UartThreadInv => ReplyIsOwn
  BY Whole DEF UartThreadInv, StreamInv, ReplyIsOwn
<1> QED
  BY <1>1, UartThreadInvariance, PTL

-----------------------------------------------------------------------------
(* csv_reader.                                                               *)

Map(map) == DOMAIN map \subseteq AnyKey /\ \A k \in DOMAIN map : map[k] \in AnyVal

\* The file holds pairs of the map last written: in a writing those that are
\* not left, after one all of them, unless it was torn.
WrittenOut ==
  IF wpc = "pairs" THEN file \cup left = Pairs(saved)
                   ELSE left = {} /\ (~torn => file = Pairs(saved))

\* A line that lost its end is the only one of its key.
CutOff ==
  \/ cutline = {}
  \/ \E k \in DOMAIN saved \cap Keys :
       /\ cutline = {<<k, PREFIX>>}
       /\ \A q \in file : q[1] # k

CsvInv ==
  /\ CsvTypeOK
  /\ Map(m_map) /\ Map(saved)
  /\ file \subseteq Pairs(saved)
  /\ WrittenOut /\ CutOff
  /\ wpc = "pairs" \/ ~torn => cutline = {}
  /\ wpc = "pairs" => ~torn

LEMMA PairsOf ==
  ASSUME NEW map, Map(map)
  PROVE  /\ \A p \in Pairs(map) : p \in AnyKey \X AnyVal /\ p = <<p[1], p[2]>>
                                /\ p[1] \in DOMAIN map /\ p[2] = map[p[1]]
         /\ \A k \in DOMAIN map : <<k, map[k]>> \in Pairs(map)
BY DEF Pairs, Map

LEMMA EmptyMap == Map(NoMap) /\ Pairs(NoMap) = {}
BY DEF Map, Pairs, NoMap

LEMMA Values == EMPTY \in AnyVal /\ PREFIX \in AnyVal /\ Keys \subseteq AnyKey
BY CsvAssumption DEF AnyVal, AnyKey

\* What parse_csv_file() makes of the lines of a file is a map of just these
\* lines, if no key is there twice.
LEMMA MapOfPairs ==
  ASSUME NEW R, \A p \in R : p = <<p[1], p[2]>>, \A p, q \in R : p[1] = q[1] => p = q
  PROVE  /\ Pairs(MapOf(R)) = R
         /\ DOMAIN MapOf(R) = {p[1] : p \in R}
         /\ \A p \in R : MapOf(R)[p[1]] = p[2]
<1>1. DOMAIN MapOf(R) = {p[1] : p \in R}
  BY DEF MapOf
<1>2. ASSUME NEW p \in R PROVE MapOf(R)[p[1]] = p[2]
  <2>1. MapOf(R)[p[1]] = (CHOOSE q \in R : q[1] = p[1])[2]
    BY DEF MapOf
  <2>2. (CHOOSE q \in R : q[1] = p[1]) = p
    BY Zenon
  <2> QED
    BY <2>1, <2>2
<1>3. ASSUME NEW p \in R PROVE p \in Pairs(MapOf(R))
  BY <1>1, <1>2 DEF Pairs
<1>4. ASSUME NEW p \in Pairs(MapOf(R)) PROVE p \in R
  <2>1. PICK k \in DOMAIN MapOf(R) : p = <<k, MapOf(R)[k]>>
    BY DEF Pairs
  <2>2. PICK q \in R : k = q[1]
    BY <1>1, <2>1
  <2> QED
    BY <1>2, <2>1, <2>2
<1> QED
  BY <1>1, <1>2, <1>3, <1>4

LEMMA BeginInv ==
  ASSUME CsvInv, wpc = "ready", NEW map, Map(map), Begin(map)
  PROVE  CsvInv'
<1>1. CASE wpc' = "pairs"
  <2>1. /\ left' = Pairs(map) /\ file' = {} /\ cutline' = {} /\ saved' = map
        /\ torn' = FALSE /\ m_map' = map
    BY <1>1 DEF Begin, CsvInv, CsvTypeOK
  <2> QED
    BY <1>1, <2>1, PairsOf DEF CsvInv, CsvTypeOK, WrittenOut, CutOff, Map
<1>2. CASE wpc' # "pairs"
  <2>1. UNCHANGED <<wpc, left, file, cutline, saved, torn>> /\ m_map' = map
    BY <1>2 DEF Begin
  <2> QED
    BY <2>1 DEF CsvInv, CsvTypeOK, WrittenOut, CutOff, Map, Pairs
<1> QED
  BY <1>1, <1>2

LEMMA DiesInv == CsvInv /\ CsvDies => CsvInv'
<1> SUFFICES ASSUME CsvInv, CsvDies PROVE CsvInv'
  OBVIOUS
<1>1. /\ wpc' = "down" /\ m_map' = NoMap /\ left' = {} /\ saved' = saved
      /\ torn' = (torn \/ wpc # "ready")
  BY DEF CsvDies
<1>2. Map(m_map') /\ Map(saved')
  BY <1>1, EmptyMap DEF CsvInv, Map
<1>3. CASE wpc = "ready"
  <2>1. UNCHANGED <<file, cutline>> /\ torn' = torn
    BY <1>1, <1>3 DEF CsvDies, CsvInv, CsvTypeOK
  <2> QED
    BY <1>1, <1>2, <1>3, <2>1 DEF CsvInv, CsvTypeOK, WrittenOut, CutOff, Map, Pairs
<1>4. CASE wpc = "pairs"
  <2>1. /\ file' \subseteq file /\ torn'
        /\ cutline' \in {{}} \cup {{<<p[1], PREFIX>>} :
             p \in {q \in file \ file' : q[1] \in Keys /\ q[2] \notin {EMPTY, PREFIX}}}
    BY <1>1, <1>4 DEF CsvDies
  <2>2. CutOff'
    <3>1. CASE cutline' = {}
      BY <3>1 DEF CutOff
    <3>2. CASE cutline' # {}
      <4>1. PICK p \in file \ file' : p[1] \in Keys /\ cutline' = {<<p[1], PREFIX>>}
        BY <2>1, <3>2
      <4>2. file \subseteq Pairs(saved) /\ p[1] \in DOMAIN saved
        BY <4>1, PairsOf DEF CsvInv
      <4>3. \A q \in file' : q[1] # p[1]
        BY <2>1, <4>1, <4>2, PairsOf DEF CsvInv
      <4> QED
        BY <1>1, <4>1, <4>2, <4>3 DEF CutOff
    <3> QED
      BY <3>1, <3>2
  <2> QED
    <3>1. torn' \in BOOLEAN /\ torn' = TRUE
      BY <1>1, <1>4 DEF CsvInv, CsvTypeOK
    <3>2. WrittenOut'
      BY <1>1, <3>1 DEF WrittenOut
    <3>3. CsvTypeOK'
      BY <1>1, <1>2, <2>1, <3>1 DEF CsvInv, CsvTypeOK, Map
    <3>4. file' \subseteq Pairs(saved')
      BY <1>1, <2>1 DEF CsvInv
    <3> QED
      BY <1>1, <1>2, <2>2, <3>1, <3>2, <3>3, <3>4 DEF CsvInv
<1>5. wpc # "down"
  BY DEF CsvDies
<1> QED
  BY <1>3, <1>4, <1>5 DEF CsvInv, CsvTypeOK

\* What RestartReadsBack says of the step.
ReadBack ==
  LET good == Read(Pairs(saved)) IN
  /\ ~torn => Pairs(m_map') = good
  /\ torn => /\ DOMAIN m_map' \subseteq DOMAIN saved
             /\ Cardinality(Pairs(m_map') \ good) <= 1

LEMMA ParseInv ==
  ASSUME CsvInv, ParseCsvFile
  PROVE  /\ CsvInv'
         /\ ReadBack
<1> DEFINE R == Read(file) \cup cutline
           good == Read(Pairs(saved))
<1>1. wpc = "down" /\ wpc' = "ready" /\ m_map' = MapOf(R)
      /\ UNCHANGED <<left, file, cutline, ops, saved, torn>>
  BY DEF ParseCsvFile
<1>2. \A p \in file : p = <<p[1], p[2]>> /\ p[1] \in DOMAIN saved /\ p[2] = saved[p[1]]
                      /\ p[2] \in AnyVal
  BY PairsOf DEF CsvInv, Map
<1>3. \A p \in Read(file) : /\ p = <<p[1], p[2]>> /\ p[1] \in DOMAIN saved /\ p[1] \in Keys
                            /\ p[2] = Cut(saved[p[1]]) /\ p[2] \in AnyVal
                            /\ \E q \in file : q[1] = p[1]
  BY <1>2, Values DEF Read, Cut
<1>4. \A p \in cutline : /\ p = <<p[1], p[2]>> /\ p[1] \in DOMAIN saved /\ p[1] \in Keys
                         /\ p[2] \in AnyVal /\ \A q \in file : q[1] # p[1]
                         /\ cutline = {p}
  BY Values DEF CsvInv, CutOff
<1>5. \A p \in R : p = <<p[1], p[2]>> /\ p[1] \in DOMAIN saved /\ p[1] \in Keys /\ p[2] \in AnyVal
  BY <1>3, <1>4
<1>6. ASSUME NEW p \in R, NEW q \in R, p[1] = q[1] PROVE p = q
  <2>1. CASE p \in Read(file) /\ q \in Read(file)
    BY <1>3, <1>6, <2>1
  <2>2. CASE p \in cutline /\ q \in cutline
    BY <1>4, <2>2
  <2>3. CASE p \in cutline /\ q \in Read(file)
    BY <1>3, <1>4, <1>6, <2>3
  <2>4. CASE p \in Read(file) /\ q \in cutline
    BY <1>3, <1>4, <1>6, <2>4
  <2> QED
    BY <2>1, <2>2, <2>3, <2>4
<1>7. /\ Pairs(m_map') = R /\ DOMAIN m_map' = {p[1] : p \in R}
      /\ \A p \in R : m_map'[p[1]] = p[2]
  <2> HIDE DEF R
  <2> QED
    BY <1>1, <1>5, <1>6, MapOfPairs
<1>8. Map(m_map') /\ DOMAIN m_map' \subseteq DOMAIN saved
  <2> HIDE DEF R
  <2> QED
    BY <1>5, <1>7, Values DEF Map
<1>9. CsvInv'
  BY <1>1, <1>8 DEF CsvInv, CsvTypeOK, WrittenOut, CutOff, Map, Pairs
<1>10. ~torn => Pairs(m_map') = good
  BY <1>1, <1>7 DEF CsvInv, WrittenOut
<1>11. Read(file) \subseteq good
  BY DEF CsvInv, Read
<1>12. Cardinality(Pairs(m_map') \ good) <= 1
  <2>1. CASE Pairs(m_map') \ good = {}
    BY <2>1, FS_EmptySet
  <2>2. CASE Pairs(m_map') \ good # {}
    <3>1. PICK p \in Pairs(m_map') \ good : TRUE
      BY <2>2
    <3>2. Pairs(m_map') \ good = {p}
      BY <1>4, <1>7, <1>11, <3>1
    <3>3. Cardinality({p}) = 1
      BY FS_Singleton
    <3> QED
      BY <3>2, <3>3
  <2> QED
    BY <2>1, <2>2
<1> QED
  BY <1>8, <1>9, <1>10, <1>12 DEF ReadBack

LEMMA CsvNextInv == CsvInv /\ [CsvNext]_csvVars => CsvInv'
<1> SUFFICES ASSUME CsvInv, [CsvNext]_csvVars PROVE CsvInv'
  OBVIOUS
<1>1. CASE ParseCsvFile
  BY <1>1, ParseInv
<1>2. CASE AddKeyValuePair
  <2>1. PICK k \in AnyKey, v \in AnyVal :
          Begin([j \in DOMAIN m_map \cup {k} |-> IF j = k THEN v ELSE m_map[j]])
    BY <1>2 DEF AddKeyValuePair
  <2>2. Map([j \in DOMAIN m_map \cup {k} |-> IF j = k THEN v ELSE m_map[j]])
    BY DEF CsvInv, Map
  <2> QED
    BY <1>2, <2>1, <2>2, BeginInv DEF AddKeyValuePair
<1>3. CASE RemoveKey
  <2>1. PICK k \in DOMAIN m_map : Begin(Restrict(m_map, DOMAIN m_map \ {k}))
    BY <1>3 DEF RemoveKey
  <2>2. Map(Restrict(m_map, DOMAIN m_map \ {k}))
    BY DEF CsvInv, Map, Restrict
  <2> QED
    BY <1>3, <2>1, <2>2, BeginInv DEF RemoveKey
<1>4. CASE GetKeyValue
  <2>1. Map(m_map')
    BY <1>4, Values DEF GetKeyValue, CsvInv, Map
  <2>2. UNCHANGED <<wpc, left, file, cutline, saved, torn>>
    BY <1>4 DEF GetKeyValue
  <2> QED
    BY <2>1, <2>2 DEF CsvInv, CsvTypeOK, WrittenOut, CutOff, Map, Pairs
<1>5. CASE RemoveCsvFile
  BY <1>5, EmptyMap DEF RemoveCsvFile, CsvInv, CsvTypeOK, WrittenOut, CutOff, Map
<1>6. CASE WritePair
  <2>1. PICK p \in left : file' = file \cup {p} /\ left' = left \ {p}
    BY <1>6 DEF WritePair
  <2>2. UNCHANGED <<wpc, m_map, cutline, saved, torn>> /\ wpc = "pairs"
    BY <1>6 DEF WritePair
  <2>3. file' \cup left' = file \cup left
    BY <2>1
  <2> QED
    BY <2>1, <2>2, <2>3 DEF CsvInv, CsvTypeOK, WrittenOut, CutOff, Map, Pairs
<1>7. CASE WriteEnds
  BY <1>7 DEF WriteEnds, CsvInv, CsvTypeOK, WrittenOut, CutOff, Map, Pairs
<1>8. CASE WriteFails
  BY <1>8 DEF WriteFails, CsvInv, CsvTypeOK, WrittenOut, CutOff, Map, Pairs
<1>9. CASE CsvDies
  BY <1>9, DiesInv
<1>10. CASE UNCHANGED csvVars
  BY <1>10 DEF csvVars, CsvInv, CsvTypeOK, WrittenOut, CutOff, Map, Pairs
<1> QED
  BY <1>1, <1>2, <1>3, <1>4, <1>5, <1>6, <1>7, <1>8, <1>9, <1>10 DEF CsvNext

LEMMA CsvInitInv == CsvInit => CsvInv
<1> SUFFICES ASSUME CsvInit PROVE CsvInv
  OBVIOUS
<1>1. /\ wpc = "down" /\ m_map = NoMap /\ saved = NoMap /\ left = {} /\ file = {} /\ cutline = {}
      /\ torn = FALSE
  BY DEF CsvInit
<1>2. Map(m_map) /\ Map(saved) /\ Pairs(saved) = {}
  BY <1>1, EmptyMap
<1>3. CsvTypeOK /\ WrittenOut /\ CutOff
  BY <1>1, <1>2 DEF CsvTypeOK, WrittenOut, CutOff, Map
<1> QED
  BY <1>1, <1>2, <1>3 DEF CsvInv

\* The strengthened invariant of a process of csv_reader and its file.
THEOREM CsvInvariance == CsvSpec => []CsvInv
BY CsvInitInv, CsvNextInv, PTL DEF CsvSpec

\* For every set of keys and values, a process that starts finds the map as it
\* was last written, and after a torn writing at most one pair that is not of
\* it (csv_reader.cpp:50-108).
THEOREM RestartsFindTheMap == CsvSpec => RestartReadsBack
<1>1. CsvInv /\ [CsvNext]_csvVars => [ParseCsvFile => ReadBack]_csvVars
  BY ParseInv, Zenon
<1> QED
  BY <1>1, CsvInvariance, PTL DEF CsvSpec, RestartReadsBack, ReadBack

-----------------------------------------------------------------------------
(* The programs together.  set_pwm runs through the same places as main()    *)
(* without stopping at "optimize", and what DriverInv says of them holds of  *)
(* it, too; it has no sampling thread that could abort the construction.     *)

PiInv ==
  /\ DriverInv /\ PwmInv /\ CsvInv /\ UartThreadInv
  /\ program = "set_pwm" => mpc \in {"new", "gone"}

\* A step of set_pwm that only goes on to the next place, with the shell and
\* the candidate as they may be there.
LEMMA SetPwmGoesOn ==
  ASSUME DriverInv, NEW to \in {"on", "set", "measure", "off"}, pc' = to,
         pc \notin {"handler", "exit"}, mpc # "aborted",
         UNCHANGED <<threadVars, evals, taken, pin, signalled, overlap>>,
         cand' \in SETTINGS \cup {0},
         shell' \in [{"main", "handler"} -> Lines], shell'.handler = shell.handler,
         fails' \in 0 .. MAX_FAILS, fails' = 0 => Commands'
  PROVE  DriverInv'
<1>1. DriverTyped /\ ShellsTyped /\ Ending /\ ThreadTypeOK
  BY TypesSplit DEF DriverInv
<1>2. DriverTyped' /\ ShellsTyped'
  BY <1>1 DEF DriverTyped, ShellsTyped
<1>3. ThreadTypeOK'
  BY <1>1, Zenon DEF ThreadTypeOK, threadVars, readerVars, mainVars
<1>4. ShellsTyped' => (TypeOK' <=> (ThreadTypeOK' /\ DriverTyped'))
  BY TypesSplit, PTL
<1>5. mpc' = mpc /\ overlap' = overlap
  BY DEF threadVars, mainVars
<1>6. Ending'
  BY <1>1, <1>5 DEF Ending, Pclosed
<1> QED
  BY <1>2, <1>3, <1>4, <1>6 DEF DriverInv

LEMMA SetPwmMainKeeps ==
  ASSUME DriverInv, mpc \in {"new", "gone"}, SetPwmMain
  PROVE  DriverInv' /\ mpc' \in {"new", "gone"}
<1>0. DriverTyped /\ ShellsTyped /\ Ending /\ ThreadTypeOK /\ TypeOK
  BY TypesSplit DEF DriverInv
<1>00. /\ cand \in SETTINGS \cup {0} /\ fails \in 0 .. MAX_FAILS
       /\ shell \in [{"main", "handler"} -> Lines]
  BY <1>0 DEF DriverTyped, ShellsTyped
<1>1. CASE SetPwmOn
  <2>1. /\ pc = "boot" /\ pc' = "on" /\ Popen("main", OnLine) /\ cand' = cand
        /\ UNCHANGED <<threadVars, evals, taken, pin, signalled, overlap>>
    BY <1>1 DEF SetPwmOn
  <2>2. /\ shell' \in [{"main", "handler"} -> Lines] /\ fails' \in 0 .. MAX_FAILS
        /\ fails' = 0 => fails = 0 /\ shell' = [shell EXCEPT !.main = OnLine]
    BY <1>0, <2>1, PopenTyped, LinesAre
  <2>3. shell'.handler = shell.handler
    BY <1>00, <2>1 DEF Popen
  <2>4. fails' = 0 => Commands'
    BY <1>00, <2>1, <2>2 DEF Commands, Pclosed
  <2> QED
    BY <1>00, <2>1, <2>2, <2>3, <2>4, SetPwmGoesOn DEF threadVars, mainVars
<1>2. CASE SetPwmRangeDuty
  <2>1. PICK d \in SETTINGS : cand' = d /\ Popen("main", SetLine(d))
    BY <1>2 DEF SetPwmRangeDuty
  <2>2. /\ pc = "on" /\ pc' = "set" /\ shell.main = <<>>
        /\ UNCHANGED <<threadVars, evals, taken, pin, signalled, overlap>>
    BY <1>2 DEF SetPwmRangeDuty, Pclosed
  <2>3. /\ shell' \in [{"main", "handler"} -> Lines] /\ fails' \in 0 .. MAX_FAILS
        /\ fails' = 0 => fails = 0 /\ shell' = [shell EXCEPT !.main = SetLine(d)]
    BY <1>0, <2>1, PopenTyped, LinesAre
  <2>4. shell'.handler = shell.handler
    BY <1>00, <2>1 DEF Popen
  <2>5. fails' = 0 => pin.pwm = TRUE
    BY <2>2, <2>3, LinesDiffer DEF DriverInv, Commands
  <2>6. fails' = 0 => Commands'
    BY <1>00, <2>1, <2>2, <2>3, <2>5 DEF Commands, Pclosed
  <2> QED
    BY <1>00, <2>1, <2>2, <2>3, <2>4, <2>6, SetPwmGoesOn DEF threadVars, mainVars
<1>3. CASE SetPwmSleeps
  <2>1. /\ pc = "set" /\ pc' = "measure" /\ shell.main = <<>>
        /\ UNCHANGED <<threadVars, cand, evals, taken, shell, pin, fails, signalled, overlap>>
    BY <1>3 DEF SetPwmSleeps, Pclosed
  <2>2. SetLine(cand) # <<>> /\ DutyLine(cand) # <<>>
    BY DEF SetLine, DutyLine
  <2>3. fails' = 0 => Commands'
    BY <2>1, <2>2 DEF DriverInv, Commands, Pclosed, Own
  <2> QED
    BY <1>00, <2>1, <2>3, SetPwmGoesOn DEF threadVars, mainVars
<1>4. CASE SetPwmOff
  <2>1. /\ pc = "measure" /\ pc' = "off" /\ Popen("main", OffLine) /\ cand' = cand
        /\ UNCHANGED <<threadVars, evals, taken, pin, signalled, overlap>>
    BY <1>4 DEF SetPwmOff
  <2>2. /\ shell' \in [{"main", "handler"} -> Lines] /\ fails' \in 0 .. MAX_FAILS
        /\ fails' = 0 => fails = 0 /\ shell' = [shell EXCEPT !.main = OffLine]
    BY <1>0, <2>1, PopenTyped, LinesAre
  <2>3. shell'.handler = shell.handler
    BY <1>00, <2>1 DEF Popen
  <2>4. fails' = 0 => Commands'
    BY <1>00, <2>1, <2>2 DEF Commands, Pclosed
  <2> QED
    BY <1>00, <2>1, <2>2, <2>3, <2>4, SetPwmGoesOn DEF threadVars, mainVars
<1>5. CASE SetPwmReturns
  <2>1. /\ pc = "off" /\ shell.main = <<>> /\ pc' = "exit" /\ mpc' = "gone"
        /\ UNCHANGED <<mutex, is_running, readerVars, mk, xyz, got, silent>>
        /\ UNCHANGED <<cand, evals, taken, shell, pin, fails, signalled, overlap>>
    BY <1>5 DEF SetPwmReturns, Pclosed
  <2>2. DriverTyped' /\ ShellsTyped'
    BY <1>0, <2>1 DEF DriverTyped, ShellsTyped
  <2>3. ThreadTypeOK'
    BY <1>0, <2>1, Zenon DEF ThreadTypeOK, readerVars
  <2>4. ShellsTyped' => (TypeOK' <=> (ThreadTypeOK' /\ DriverTyped'))
    BY TypesSplit, PTL
  <2>5. Ending'
    BY <1>0, <2>1 DEF Ending, Pclosed
  <2>6. fails' = 0 => Commands'
    BY <2>1, LinesDiffer DEF DriverInv, Commands, Pclosed, IsLow
  <2> QED
    BY <2>1, <2>2, <2>3, <2>4, <2>5, <2>6 DEF DriverInv
<1>6. CASE HandlerExit
  <2>1. DriverInv'
    BY <1>6, NextDriver DEF Next, Main
  <2>2. mpc = "new"
    BY <1>0, <1>6 DEF HandlerExit, Ending
  <2>3. mpc' = "gone"
    BY <1>6, <2>2, Zenon DEF HandlerExit
  <2> QED
    BY <2>1, <2>3
<1> QED
  BY <1>1, <1>2, <1>3, <1>4, <1>5, <1>6 DEF SetPwmMain

LEMMA SetPwmKeeps ==
  ASSUME DriverInv, mpc \in {"new", "gone"}, SetPwmNext
  PROVE  DriverInv' /\ mpc' \in {"new", "gone"}
<1>1. CASE SetPwmMain
  BY <1>1, SetPwmMainKeeps
<1>2. CASE Shell \/ Sigint
  <2>1. DriverInv'
    BY <1>2, NextDriver DEF Next
  <2>2. UNCHANGED threadVars
    BY <1>2, Zenon DEF Shell, ShellStep, Sigint
  <2> QED
    BY <2>1, <2>2 DEF threadVars, mainVars
<1> QED
  BY <1>1, <1>2 DEF SetPwmNext

LEMMA DriverStays == DriverInv /\ UNCHANGED vars => DriverInv'
BY NextDriver

LEMMA ToolsStay ==
  /\ PwmInv /\ UNCHANGED pwmVars => PwmInv'
  /\ CsvInv /\ UNCHANGED csvVars => CsvInv'
  /\ UartThreadInv /\ UNCHANGED uartVars => UartThreadInv'
BY NextInv, CsvNextInv, UartThreadInductive

LEMMA PiInitInv == PiInit => PiInv
<1> SUFFICES ASSUME PiInit PROVE PiInv
  OBVIOUS
<1>1. Init /\ PwmInit /\ CsvInit /\ UartThreadInit
  BY DEF PiInit
<1>2. mpc = "new"
  BY <1>1 DEF Init, ThreadInit
<1> QED
  BY <1>1, <1>2, InitDriver, InitInv, CsvInitInv, UartThreadInitInv DEF PiInv

LEMMA PiNextInv == PiInv /\ [PiNext]_piVars => PiInv'
<1> SUFFICES ASSUME PiInv, [PiNext]_piVars PROVE PiInv'
  OBVIOUS
<1>1. program' = program
  BY DEF PiNext, piVars
<1> USE DEF PiInv
<1>2. CASE program = "motor" /\ Next /\ UNCHANGED ToolsVars
  <2>1. UNCHANGED pwmVars /\ UNCHANGED csvVars /\ UNCHANGED uartVars
    BY <1>2 DEF ToolsVars
  <2> QED
    BY <1>1, <1>2, <2>1, NextDriver, ToolsStay
<1>3. CASE program = "set_pwm" /\ SetPwmNext /\ UNCHANGED ToolsVars
  <2>1. UNCHANGED pwmVars /\ UNCHANGED csvVars /\ UNCHANGED uartVars
    BY <1>3 DEF ToolsVars
  <2> QED
    BY <1>1, <1>3, <2>1, SetPwmKeeps, ToolsStay
<1>4. CASE program = "rpiPWM1" /\ PwmNext /\ UNCHANGED <<vars, csvVars, uartVars>>
  BY <1>1, <1>4, NextInv, DriverStays, ToolsStay
<1>5. CASE program = "csv_reader" /\ CsvNext /\ UNCHANGED <<vars, pwmVars, uartVars>>
  BY <1>1, <1>5, CsvNextInv, DriverStays, ToolsStay
<1>6. CASE program = "write_read" /\ UartThreadNext /\ UNCHANGED <<vars, pwmVars, csvVars>>
  BY <1>1, <1>6, UartThreadInductive, DriverStays, ToolsStay
<1>7. CASE UNCHANGED piVars
  <2>1. UNCHANGED vars /\ UNCHANGED pwmVars /\ UNCHANGED csvVars /\ UNCHANGED uartVars
    BY <1>7 DEF piVars, ToolsVars
  <2>2. mpc' = mpc
    BY <2>1 DEF vars, threadVars, mainVars
  <2> QED
    BY <1>1, <2>1, <2>2, DriverStays, ToolsStay
<1> QED
  BY <1>2, <1>3, <1>4, <1>5, <1>6, <1>7 DEF PiNext

\* The invariants of the parts hold of whichever program runs.
THEOREM PiInvariance == PiSpec => []PiInv
BY PiInitInv, PiNextInv, PTL DEF PiSpec

\* The variables of the programs keep their types.
THEOREM PiTypeCorrect == PiSpec => []PiTypeOK
<1>1. PiInv => PiTypeOK
  BY DEF PiInv, PiTypeOK, DriverInv, PwmInv, CsvInv, UartThreadInv
<1> QED
  BY <1>1, PiInvariance, PTL

\* The motor program and set_pwm: a setting is measured, or held for the time
\* asked for, once its commands are done (main.cpp:195-197, set_pwm.cpp), and
\* the process that ends leaves the pin low.
THEOREM PiOwnSetting == PiSpec => []OwnSetting
<1>1. PiInv => OwnSetting
  BY DEF PiInv, DriverInv, Commands, OwnSetting, Own
<1> QED
  BY <1>1, PiInvariance, PTL

THEOREM PiEndsLow == PiSpec => []LowAtQuietEnd
<1>1. PiInv => LowAtQuietEnd
  BY DEF PiInv, DriverInv, Commands, Ending, LowAtQuietEnd, IsLow
<1> QED
  BY <1>1, PiInvariance, PTL

\* The registers and the answers, under whichever program runs.
THEOREM PiRegistersFollow == PiSpec => []RegistersFollow
<1>1. PiInv => RegistersFollow
  BY DEF PiInv, PwmInv
<1> QED
  BY <1>1, PiInvariance, PTL

THEOREM PiReadsOwnReply == PiSpec => []ReplyIsOwn
<1>1. PiInv => ReplyIsOwn
  BY Whole DEF PiInv, UartThreadInv, StreamInv, ReplyIsOwn
<1> QED
  BY <1>1, PiInvariance, PTL

\* A process of csv_reader finds the map as it was last written, whatever runs
\* and dies in between.
THEOREM PiRestartsFindTheMap == PiSpec => RestartReadsBack
<1>1. PiInv /\ [PiNext]_piVars => [ParseCsvFile => ReadBack]_csvVars
  <2> SUFFICES ASSUME PiInv, [PiNext]_piVars, ParseCsvFile PROVE ReadBack
    OBVIOUS
  <2> QED
    BY ParseInv DEF PiInv
<1> QED
  BY <1>1, PiInvariance, PTL DEF PiSpec, RestartReadsBack, ReadBack
=============================================================================
