---------------------------- MODULE MCBno055Uart ----------------------------
(* Small instances of Bno055Uart: two registers per reading instead of six,
   data bytes that can be mistaken for a header or a length,
   and a line that may hold the rest of an earlier run's answer. *)
EXTENDS Bno055Uart

MCDataBytes  == {0, 187}
MCStaleLines == {<<>>, <<187, 2, 0>>}
=============================================================================
