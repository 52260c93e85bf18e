---------------------------- MODULE SampleRegister ----------------------------
(***************************************************************************)
(* What bno_thread promises its user: one register holding the three axes  *)
(* of one reading, replaced as a whole by the reader thread and copied as  *)
(* a whole by the getters.                                                 *)
(*                                                                         *)
(* A value is the number of the sensor reading it comes from and how often *)
(* it has been divided by 100.  A successful reading is divided once.  A   *)
(* failed one leaves the old value and divides it again, because           *)
(* bno055_uart::get_linear_acceleration divides before it looks at the     *)
(* result: the register then holds no acceleration the sensor ever saw.    *)
(***************************************************************************)
EXTENDS Integers

CONSTANTS
  MAX_READING,  (* bound: readings told apart                               *)
  MAX_DIV       (* bound: divisions told apart                              *)

VARIABLES
  reg,  (* the value published                                              *)
  got   (* the value the last getter call returned, on each of the axes     *)

Axes == 1 .. 3   \* x, y, z in the order the code handles them

Value == [reading : 0 .. MAX_READING, div : 0 .. MAX_DIV]

\* A counter that stays at its bound.
Bump(n, max) == IF n < max THEN n + 1 ELSE max

Zero == [reading |-> 0, div |-> 0]

Fresh(v)   == [reading |-> Bump(v.reading, MAX_READING), div |-> 1]
Decayed(v) == [v EXCEPT !.div = Bump(v.div, MAX_DIV)]

Init == reg = Zero /\ got = [k \in Axes |-> Zero]

Publish == reg' \in {Fresh(reg), Decayed(reg)} /\ UNCHANGED got

Fetch == got' = [k \in Axes |-> reg] /\ UNCHANGED reg

Next == Publish \/ Fetch

Spec == Init /\ [][Next]_<<reg, got>>
=============================================================================
