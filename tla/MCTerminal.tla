----------------------------- MODULE MCTerminal -----------------------------
(***************************************************************************)
(* The terminal under the kernel's printing and logging, on a screen of 3  *)
(* rows and 3 columns.  MaxRows lets the screen scroll twice; a fault may  *)
(* come in the handler of another.                                         *)
(***************************************************************************)
EXTENDS KernelLog
=============================================================================
