---------------------------- MODULE MCInterrupts ----------------------------
(***************************************************************************)
(* Interrupts with the clock, the keyboard, the real-time clock, one more  *)
(* input of the slave and input 14, whose vector is that of int 0x2E.      *)
(***************************************************************************)
EXTENDS Interrupts
=============================================================================
