---------------------------- MODULE MCLineInput -----------------------------
(***************************************************************************)
(* LineInput with one letter, two shift keys, which have no character,     *)
(* Backspace and Enter.  The screen has 2 rows of 4 columns, the line room *)
(* for 4 characters: with the prompt it fills a row and goes on to the     *)
(* next.                                                                   *)
(***************************************************************************)
EXTENDS LineInput

MCKeys == {"a", "left shift", "right shift", "backspace", "enter"}
MCShifts == {"left shift", "right shift"}

Map(letter) ==
  [key \in MCKeys |-> CASE key = "a"         -> letter
                        [] key = "backspace" -> "BS"
                        [] key = "enter"     -> "LF"
                        [] OTHER             -> "NUL"]
MCMap == Map("a")
MCMapShift == Map("A")
=============================================================================
