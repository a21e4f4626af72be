------------------------------ MODULE Numbers ------------------------------
(***************************************************************************)
(* The number routines side by side: one call after another, of a division *)
(* or of printf, by the one thread.                                        *)
(***************************************************************************)
EXTENDS Division, Printing

numbersVars == <<divisionVars, printVars>>

NumbersInit == DivisionInit /\ PrintingInit

NumbersStep ==
  \/ DivisionStep /\ UNCHANGED printVars
  \/ PrintingStep /\ UNCHANGED divisionVars

NumbersNext ==
  \/ printing.pc = "idle" /\ DivisionNext /\ UNCHANGED printVars
  \/ division.pc = "idle" /\ PrintingNext /\ UNCHANGED divisionVars

(* The processor carries on with a call it has begun. *)
NumbersSpec == NumbersInit /\ [][NumbersNext]_numbersVars /\ WF_numbersVars(NumbersStep)
-----------------------------------------------------------------------------
(* Types; in particular no number needs more than bf has. *)
NumbersTypeOK == DivisionTypeOK /\ PrintingTypeOK

(* Every call returns, for every operand, but for a division by 0, which   *)
(* stops the kernel: the loops that scale a number up to the size of a     *)
(* word do not run past it.                                                *)
CallEnds ==
  /\ division.pc # "idle" ~> division.pc \in {"idle", "fault"}
  /\ printing.pc # "idle" ~> printing.pc = "idle"
=============================================================================
