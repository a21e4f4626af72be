------------------------------ MODULE Keyboard ------------------------------
(***************************************************************************)
(* The keyboard (c/keyboard.c): the handler of interrupt 0x21, which keeps *)
(* the shift state and the last key pressed, and get_scancode, by which    *)
(* the rest of the kernel takes that key.  The handler may run between the *)
(* two statements of get_scancode.                                         *)
(*                                                                         *)
(* A scancode is known by its key and by whether it says that the key went *)
(* down or up.  The codes of a key that goes up are negative as a char.    *)
(***************************************************************************)
EXTENDS Integers, Sequences

CONSTANTS
  Keys,                \* the keys with a code above 0
  Shifts,              \* those with codes 42 and 54
  NoKey,               \* 0 in current_scancode
  keyboard_map,        \* the character of a key,
  keyboard_map_shift,  \* and with shift
  MaxKeys              \* bound: key presses

ASSUME KeyboardAssumption ==
  /\ NoKey \notin Keys
  /\ Shifts \subseteq Keys
  /\ DOMAIN keyboard_map = Keys /\ DOMAIN keyboard_map_shift = Keys
  /\ MaxKeys \in Nat

VARIABLES
  current_scancode,  \* the key pressed last and not taken
  is_shift,
  held,              \* external: the shift keys that are down
  presses,           \* history: how many keys have been pressed
  mailed             \* history: which of the presses set current_scancode

keyboardVars == <<current_scancode, is_shift, held, presses, mailed>>
-----------------------------------------------------------------------------
(* The kernel as loaded; interrupts come before initalize_keyboard does. *)
KeyboardInit ==
  /\ current_scancode = NoKey
  /\ is_shift = FALSE
  /\ held = {}
  /\ presses = 0
  /\ mailed = 0

initalize_keyboard ==
  /\ current_scancode' = NoKey
  /\ is_shift' = FALSE
  /\ UNCHANGED <<held, presses, mailed>>

ShiftAfter_OneOfTwo(key, down) ==
  IF down THEN is_shift \/ key \in Shifts
  ELSE is_shift /\ key # CHOOSE k \in Shifts : TRUE

(* is_shift after the code of a key. *)
ShiftAfter(key, down) == IF key \in Shifts THEN down ELSE is_shift

(* The handler when the controller holds a code (status bit 0); otherwise  *)
(* it does nothing.                                                        *)
keyboard_interrupt_handler(key, down) ==
  /\ is_shift' = ShiftAfter(key, down)
  /\ current_scancode' = IF down THEN key ELSE current_scancode
  /\ mailed' = IF down THEN presses + 1 ELSE mailed

(* A key goes down, or repeats while it is down. *)
Press(key) ==
  /\ presses < MaxKeys
  /\ presses' = presses + 1
  /\ held' = held \union (Shifts \intersect {key})
  /\ keyboard_interrupt_handler(key, TRUE)

(* A shift key goes up; what the others send then changes nothing. *)
Release(key) ==
  /\ key \in held
  /\ held' = held \ {key}
  /\ keyboard_interrupt_handler(key, FALSE)
  /\ UNCHANGED presses

ClearScancode_Forgets == UNCHANGED current_scancode

(* The second statement of get_scancode; the first reads the variable. *)
ClearScancode == current_scancode' = NoKey

get_character(key) == IF is_shift THEN keyboard_map_shift[key] ELSE keyboard_map[key]
-----------------------------------------------------------------------------
KeyboardTypeOK ==
  /\ current_scancode \in Keys \union {NoKey}
  /\ is_shift \in BOOLEAN
  /\ held \subseteq Shifts
  /\ presses \in 0 .. MaxKeys /\ mailed \in 0 .. presses

(* Shift never sticks: the characters are shifted only while a shift key   *)
(* is down, whichever of the two and in whatever order they move.          *)
ShiftIsHeld == is_shift => held # {}
=============================================================================
