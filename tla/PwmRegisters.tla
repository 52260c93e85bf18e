----------------------------- MODULE PwmRegisters -----------------------------
(***************************************************************************)
(* shared/rpiPWM1.cpp: an object that keeps frequency, resolution, duty    *)
(* cycle and mode of PWM channel 1 and writes them to the peripheral's     *)
(* registers, some together and some one at a time.                        *)
(*                                                                         *)
(* A percentage is one of PARTS parts of the period, finer than a count as *)
(* doubles are, and what the code computes from one in doubles and then    *)
(* truncates is any value that the rounding may leave.                     *)
(***************************************************************************)
EXTENDS Integers

CONSTANTS
  OSC,        (* the oscillator: 19200000                                   *)
  MAX_DIVISOR,(* 4095                                                       *)
  PARTS,      (* the whole period                                           *)
  MARGIN,     (* parts in 1e-5 %, from either end of which a duty is invalid *)
  Hertz,      (* what setFrequency may be given                             *)
  Counts,     (* what setCounts may be given; 0 would divide by zero        *)
  MAX_COUNTS  (* 2^24: up to there counts * 1.0f is exact                   *)

ASSUME PwmAssumption ==
  /\ OSC \in Nat \ {0} /\ MAX_DIVISOR \in Nat /\ MAX_COUNTS \in Nat
  /\ PARTS \in Nat \ {0} /\ MARGIN \in 1 .. PARTS
  /\ Hertz \subseteq 1 .. OSC /\ Counts \subseteq 1 .. MAX_COUNTS
  /\ \A c \in Counts : c <= PARTS

VARIABLES
  ppc,       (* "none", "live", "exited": by exit(-1), "gone": destroyed    *)
  field,     (* the members frequency, counts, dutyCycle, mode              *)
  reg,       (* the registers: clock, DIV, CTL (0: off), RNG1, DAT1         *)
  alt5,      (* is GPIO18 the PWM output?                                   *)
  refused    (* history: setDutyCycleForce refused setMode's duty cycle     *)

pwmVars == <<ppc, field, reg, alt5, refused>>

PWMMODE == 1
MSMODE  == 2

\* The registers after a reset of the board.
ResetRegs == [clock |-> FALSE, div |-> 0, ctl |-> 0, rng1 |-> 32, dat1 |-> 0]
NoFields  == [frequency |-> 1, counts |-> 1, dutyCycle |-> 0, mode |-> PWMMODE]

PwmInit ==
  ppc = "none" /\ field = NoFields /\ reg = ResetRegs /\ alt5 = FALSE /\ refused = FALSE

-----------------------------------------------------------------------------
\* What (int) may make of a quotient: the integer below, and where the quotient is
\* an integer and its rounding falls short of it, one less.
Truncated(n, d) == IF n % d = 0 THEN {n \div d - 1, n \div d} ELSE {n \div d}

\* (int)(19200000.0f / (1.0/countDuration))
Divisors(f) == Truncated(OSC, f.frequency * f.counts)

\* (int)((dutyCycle/100.0) * counts), of which nothing and 100 % are exact.
BitCounts(f) ==
  IF f.dutyCycle \in {0, PARTS} THEN {(f.dutyCycle \div PARTS) * f.counts}
  ELSE Truncated(f.dutyCycle * f.counts, PARTS)

\* ((n * 1.0)/counts) * 100.0, on either side of the exact percentage.
Percents(n, counts) ==
  {d \in 0 .. PARTS : -counts < d * counts - n * PARTS /\ d * counts - n * PARTS < counts}

\* The check of setDutyCycle and setDutyCycleForce: neither 0 nor all of it.
Within(duty) == MARGIN <= duty /\ duty <= PARTS - MARGIN

\* configPWM1(): the clock is stopped first, and stays so if the divisor does
\* not fit; otherwise every register is written.
ConfigPWM1(f) ==
  \E div \in Divisors(f) :
    \/ /\ div > MAX_DIVISOR
       /\ reg' = [reg EXCEPT !.clock = FALSE] /\ ppc' = "exited" /\ UNCHANGED refused
    \/ /\ div <= MAX_DIVISOR
       /\ \E bits \in BitCounts(f) :
            reg' = [clock |-> TRUE, div |-> div, ctl |-> f.mode, rng1 |-> f.counts,
                    dat1 |-> bits]
       /\ ppc' = "live" /\ refused' = FALSE

\* Both constructors; the default one is for 1 kHz, 256 counts and half.
PwmConstruct ==
  /\ ppc = "none"
  /\ \E hz \in Hertz, c \in Counts, duty \in 0 .. PARTS, m \in {PWMMODE, MSMODE} :
       Within(duty) /\ field' = [frequency |-> hz, counts |-> c, dutyCycle |-> duty, mode |-> m]
  /\ alt5' = TRUE
  /\ ConfigPWM1(field')

SetFrequency ==
  /\ ppc = "live"
  /\ \E hz \in Hertz : field' = [field EXCEPT !.frequency = hz]
  /\ ConfigPWM1(field')
  /\ UNCHANGED alt5

\* Mutant: the peripheral is started again, but on its old clock.
SetCountsKeepsClock ==
  /\ ppc = "live"
  /\ \E c \in Counts : field' = [field EXCEPT !.counts = c]
  /\ \E bits \in BitCounts(field') : reg' = [reg EXCEPT !.rng1 = field'.counts, !.dat1 = bits]
  /\ UNCHANGED <<ppc, alt5, refused>>

SetCounts ==
  /\ ppc = "live"
  /\ \E c \in Counts : field' = [field EXCEPT !.counts = c]
  /\ ConfigPWM1(field')
  /\ UNCHANGED alt5

\* While the peripheral runs; an invalid duty cycle changes nothing.
SetDutyCycle ==
  /\ ppc = "live"
  /\ \E duty \in 0 .. PARTS :
       /\ Within(duty)
       /\ field' = [field EXCEPT !.dutyCycle = duty]
  /\ \E bits \in BitCounts(field') : reg' = [reg EXCEPT !.dat1 = bits]
  /\ UNCHANGED <<ppc, alt5, refused>>

\* setDutyCycleForce(duty, m), of a valid mode: stop, RNG1, DAT1, start.
Forced(f, duty, m) ==
  IF Within(duty)
    THEN /\ field' = [f EXCEPT !.dutyCycle = duty, !.mode = m]
         /\ \E bits \in BitCounts(field') :
              reg' = [reg EXCEPT !.ctl = m, !.rng1 = f.counts, !.dat1 = bits]
         /\ refused' = FALSE
    ELSE field' = f /\ refused' = (refused \/ f # field) /\ UNCHANGED reg

SetDutyCycleForce ==
  /\ ppc = "live"
  /\ \E duty \in 0 .. PARTS, m \in {PWMMODE, MSMODE} : Forced(field, duty, m)
  /\ UNCHANGED <<ppc, alt5>>

\* Counts from none to all of them, which setDutyCycleForce would refuse.
SetDutyCycleCount ==
  /\ ppc = "live"
  /\ \E n \in 0 .. field.counts :
       /\ \E d \in Percents(n, field.counts) : field' = [field EXCEPT !.dutyCycle = d]
       /\ reg' = [reg EXCEPT !.dat1 = n]
  /\ UNCHANGED <<ppc, alt5, refused>>

\* The member is set before setDutyCycleForce decides, and its answer dropped.
SetMode ==
  /\ ppc = "live"
  /\ \E m \in {PWMMODE, MSMODE} :
       Forced([field EXCEPT !.mode = m], field.dutyCycle, m)
  /\ UNCHANGED <<ppc, alt5>>

\* The destructor: the registers as after a reset, the clock on.
PwmDestroy ==
  /\ ppc = "live"
  /\ ppc' = "gone"
  /\ reg' = [ResetRegs EXCEPT !.clock = TRUE]
  /\ alt5' = FALSE
  /\ UNCHANGED <<field, refused>>

PwmNext ==
  \/ PwmConstruct \/ SetFrequency \/ SetCounts \/ SetDutyCycle \/ SetDutyCycleForce
  \/ SetDutyCycleCount \/ SetMode \/ PwmDestroy

PwmSpec == PwmInit /\ [][PwmNext]_pwmVars

-----------------------------------------------------------------------------
PwmTypeOK ==
  /\ ppc \in {"none", "live", "exited", "gone"}
  /\ field \in [frequency : Nat \ {0}, counts : Nat \ {0}, dutyCycle : 0 .. PARTS,
                mode : {PWMMODE, MSMODE}]
  /\ reg \in [clock : BOOLEAN, div : Nat, ctl : {0, PWMMODE, MSMODE}, rng1 : Nat, dat1 : Nat]
  /\ alt5 \in BOOLEAN /\ refused \in BOOLEAN

\* The clock is the slowest that is not too slow for so many counts so often, or
\* where the division comes out even, the next faster one.
ClockFits(f, r) ==
  LET rate == f.frequency * f.counts
  IN  0 <= OSC - r.div * rate /\ OSC - r.div * rate <= rate

\* The count is within one of the percentage.
DutyFits(f, r) ==
  LET off == r.dat1 * PARTS - f.dutyCycle * f.counts
  IN  -PARTS <= off /\ off <= PARTS

\* Whatever setters were called in whatever order, the running peripheral puts
\* out what the getters say, as closely as the code can have it: the counts of a
\* period as told, on a clock that fits, and a duty within one count of the
\* percentage told.  More cannot be asked: a count becomes a percentage, the
\* percentage is truncated to a count, and 29 of 100 comes back as 28.  The mode
\* is the one told, unless setMode came when a duty it refuses was set, which it
\* does not report.  Once the object is gone, the pin is an input, without duty.
RegistersFollow ==
  /\ ppc = "live" =>
       /\ alt5 /\ reg.clock /\ reg.div <= MAX_DIVISOR /\ reg.rng1 = field.counts
       /\ ClockFits(field, reg) /\ DutyFits(field, reg)
       /\ ~refused => reg.ctl = field.mode
  /\ ppc = "gone" => ~alt5 /\ reg.ctl = 0 /\ reg.dat1 = 0
=============================================================================
