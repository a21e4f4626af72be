------------------------------- MODULE Powers -------------------------------
(***************************************************************************)
(* The powers of a number, as a function: Power(b)[k] is b^k, which the    *)
(* built-in ^ says too, but not to a prover.                               *)
(***************************************************************************)
EXTENDS Integers

Power(b) == LET power[k \in Nat] == IF k = 0 THEN 1 ELSE b * power[k - 1] IN power
=============================================================================
