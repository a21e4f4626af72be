----------------------------- MODULE LineInput ------------------------------
(***************************************************************************)
(* The kernel reading a line (get_string of libc/stdio.c): it polls the    *)
(* keyboard, echoes on the terminal and edits the line, while the keyboard *)
(* interrupt may come between any two of its steps.  The caller, like      *)
(* run_command_line, prints a prompt and reads a line, again and again.    *)
(***************************************************************************)
EXTENDS Keyboard, Terminal

CONSTANTS
  Enter,      \* the key with code 0x1C
  NUL,        \* the character of a key that has none
  Backspace,  \* the character '\b'
  Prompt,     \* the prompt, of one character
  size        \* get_string's argument: 256

ASSUME LineInputAssumption ==
  /\ Enter \in Keys /\ Enter \notin Shifts
  /\ \A key \in Keys \ {Enter} :
       {keyboard_map[key], keyboard_map_shift[key]} \subseteq Glyphs \union {NUL, Backspace}
  /\ \A key \in Shifts : keyboard_map[key] = NUL /\ keyboard_map_shift[key] = NUL
  /\ NUL \notin Glyphs /\ Backspace \notin Glyphs /\ NUL # Backspace
  /\ Prompt \in Glyphs
  /\ size \in Nat \ {0}

VARIABLES
  pc,        \* the next step of the kernel
  scancode,  \* get_string's local
  string,    \* the characters string[0] to string[x - 1]
  promptRow, \* history: rows of text when the prompt was printed
  taken,     \* history: which presses get_scancode returned
  paced,     \* history: in this call, each key found the one before dealt with
  ideal      \* history: the line as typed

vars == <<keyboardVars, terminalVars, pc, scancode, string, promptRow, taken,
          paced, ideal>>

LineInit ==
  /\ KeyboardInit
  /\ initalize_terminal
  /\ pc = "boot"
  /\ scancode = NoKey
  /\ string = <<>>
  /\ promptRow = 1
  /\ taken = <<>>
  /\ paced = TRUE
  /\ ideal = <<>>

Front(line) == SubSeq(line, 1, Len(line) - 1)

(* What a character does to a line, for a line editor that misses nothing. *)
Edited(line, c) ==
  CASE c = NUL                -> line
    [] c = Backspace          -> IF line = <<>> THEN line ELSE Front(line)
    [] Len(line) = size - 1   -> line
    [] OTHER                  -> Append(line, c)

(* What the user typed by a key: what it stands for now. *)
Typed(key) == (IF is_shift THEN keyboard_map_shift ELSE keyboard_map)[key]

(* Every key has reached the line: none waits in current_scancode, none is *)
(* being handled, and none that comes now would be cleared unread.         *)
Dealt ==
  /\ current_scancode = NoKey
  /\ pc # "clear"
  /\ pc = "test" => scancode = NoKey
-----------------------------------------------------------------------------
(* The keyboard interrupts the kernel. *)
Type(key) ==
  /\ Press(key)
  /\ paced' = (paced /\ Dealt)
  /\ ideal' = IF key = Enter THEN ideal ELSE Edited(ideal, Typed(key))
  /\ UNCHANGED <<terminalVars, pc, scancode, string, promptRow, taken>>

LetGo(key) ==
  /\ Release(key)
  /\ paced' = (paced /\ Dealt)
  /\ UNCHANGED <<terminalVars, pc, scancode, string, promptRow, taken, ideal>>
-----------------------------------------------------------------------------
(* kernel_main; a key pressed before is forgotten, and a shift key held    *)
(* then counts as up.                                                      *)
InitKeyboard ==
  /\ pc = "boot"
  /\ initalize_keyboard
  /\ pc' = "caller"
  /\ UNCHANGED <<terminalVars, scancode, string, promptRow, taken, paced, ideal>>

(* The caller prints its prompt and calls get_string. *)
CallGetString ==
  /\ pc = "caller" /\ Len(text) < MaxRows
  /\ term_put_char(Prompt)
  /\ pc' = "read"
  /\ string' = <<>>
  /\ promptRow' = Len(text)
  /\ paced' = (current_scancode = NoKey)
  /\ ideal' = <<>>
  /\ UNCHANGED <<keyboardVars, scancode, taken>>

(* get_scancode: its first statement, *)
ReadScancode ==
  /\ pc = "read"
  /\ scancode' = current_scancode
  /\ taken' = IF current_scancode = NoKey THEN taken ELSE Append(taken, mailed)
  /\ pc' = "clear"
  /\ UNCHANGED <<keyboardVars, terminalVars, string, promptRow, paced, ideal>>

(* and its second. *)
TakeScancode ==
  /\ pc = "clear"
  /\ ClearScancode
  /\ pc' = "test"
  /\ UNCHANGED <<is_shift, held, presses, mailed, terminalVars>>
  /\ UNCHANGED <<scancode, string, promptRow, taken, paced, ideal>>

Ends_OneMore == scancode = Enter \/ Len(string) = size
Ends_WhenFull == Len(string) = size - 1

(* get_string's loop ends. *)
Ends == scancode = Enter \/ Len(string) = size - 1

Finish ==
  /\ pc = "test" /\ Ends
  /\ term_put_char(Newline)
  /\ pc' = "caller"
  /\ UNCHANGED <<keyboardVars, scancode, string, promptRow, taken, paced, ideal>>

(* user_char, when there is one to act on *)
Types(c) ==
  /\ pc = "test" /\ ~Ends
  /\ scancode # NoKey
  /\ c = get_character(scancode)
  /\ pc' = "read"
  /\ UNCHANGED <<keyboardVars, scancode, promptRow, taken, paced, ideal>>

(* Nothing typed, a key without a character, or nothing to erase. *)
Ignore ==
  /\ pc = "test" /\ ~Ends
  /\ scancode # NoKey => \/ get_character(scancode) = NUL
                         \/ get_character(scancode) = Backspace /\ string = <<>>
  /\ pc' = "read"
  /\ UNCHANGED <<keyboardVars, terminalVars, scancode, string, promptRow, taken, paced, ideal>>

(* The line after '\b'. *)
Shortened == Front(string)

EraseChar ==
  /\ Types(Backspace) /\ string # <<>>
  /\ term_clear_last_char
  /\ string' = Shortened

PutChar ==
  \E c \in Glyphs :
    /\ Types(c)
    /\ term_put_char(c)
    /\ string' = Append(string, c)

KernelStep ==
  \/ InitKeyboard \/ CallGetString
  \/ ReadScancode \/ TakeScancode \/ Finish \/ Ignore \/ EraseChar \/ PutChar

LineNext == KernelStep \/ \E key \in Keys : Type(key) \/ LetGo(key)

(* The kernel has one thread: it runs whenever no interrupt is handled.    *)
LineSpec == LineInit /\ [][LineNext]_vars /\ WF_vars(KernelStep)
-----------------------------------------------------------------------------
(* Types; in particular the line leaves room for its final 0. *)
LineTypeOK ==
  /\ KeyboardTypeOK /\ TerminalTypeOK
  /\ pc \in {"boot", "caller", "read", "clear", "test"}
  /\ scancode \in Keys \union {NoKey}
  /\ string \in Seq(Glyphs) /\ Len(string) <= size - 1
  /\ promptRow \in 1 .. Len(text)
  /\ taken \in Seq(1 .. presses)
  /\ paced \in BOOLEAN

(* Keys reach the line once each and in the order pressed, whatever the    *)
(* interrupt loses between the two statements of get_scancode.             *)
TakenInOrder ==
  \A i, j \in 1 .. Len(taken) : i < j => taken[i] < taken[j]

(* While the typist waits for each key to be taken, the line is what was   *)
(* typed: every key, shifted as it was when pressed, erasures applied, cut *)
(* at size - 1 characters.  And whether shifted or not is never decided by *)
(* a shift that has stuck.                                                 *)
PacedLineIsExact ==
  /\ paced /\ Dealt /\ pc \in {"read", "test"} => string = ideal
  /\ ShiftIsHeld

(* What the user sees is what the line holds, while the line has not left  *)
(* the row of the prompt: the echo and the erasures of the terminal, with  *)
(* conditions of its own on the column, follow those of the line.          *)
EchoIsLine ==
  pc \in {"read", "clear", "test"} /\ Len(text) = promptRow =>
    /\ term_current_column = Len(string) + 1
    /\ term_buffer[<<term_current_row, 0>>] = Prompt
    /\ \A i \in 1 .. Len(string) : term_buffer[<<term_current_row, i>>] = string[i]

(* If nothing more is typed, an Enter that get_string has not read yet     *)
(* completes the line.                                                     *)
EnterEndsLine ==
  pc = "read" /\ current_scancode = Enter /\ presses = MaxKeys ~> pc = "caller"
=============================================================================
