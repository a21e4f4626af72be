-------------------------- MODULE LineInputProofs --------------------------
(***************************************************************************)
(* What becomes of the keys typed while a line is read, for every          *)
(* keyboard, every size of screen and of line, and every moment at which   *)
(* the keyboard interrupts.                                                *)
(***************************************************************************)
EXTENDS LineInput, TerminalProofs, SequenceTheorems

Reading == {"read", "clear", "test"}

(* The kernel's own state.  The row is empty when the prompt is printed.   *)
KernelInv ==
  /\ TerminalInv
  /\ is_debug_output = FALSE
  /\ pc \in {"boot", "caller"} \union Reading
  /\ scancode \in Keys \union {NoKey}
  /\ string \in Seq(Glyphs) /\ Len(string) <= size - 1
  /\ promptRow \in 1 .. Len(text)
  /\ pc \notin Reading => Row = <<>>

(* The row of the prompt holds the prompt and the line. *)
RowIsLine ==
  pc \in Reading /\ Len(text) = promptRow =>
    /\ Len(Row) = Len(string) + 1
    /\ Row[1] = Prompt
    /\ \A i \in 1 .. Len(string) : Row[i + 1] = string[i]

(* Presses are numbered as they come.  A key in current_scancode has not   *)
(* been taken, unless get_scancode is about to clear it.                   *)
MailInv ==
  /\ KeyboardTypeOK /\ ShiftIsHeld
  /\ taken \in Seq(1 .. presses)
  /\ current_scancode # NoKey => mailed >= 1
  /\ \A n \in 1 .. Len(taken) :
       /\ taken[n] <= mailed
       /\ current_scancode # NoKey /\ pc # "clear" => taken[n] < mailed
  /\ TakenInOrder

(* The line when a key that waits has been dealt with. *)
After(key) ==
  IF key \in {NoKey, Enter} THEN string ELSE Edited(string, Typed(key))

(* One key at most is on its way to the line: in current_scancode, in      *)
(* get_string's local, or for a moment in both.                            *)
PacedInv ==
  /\ paced \in BOOLEAN
  /\ paced => CASE pc = "read"  -> ideal = After(current_scancode)
                [] pc = "clear" -> scancode = current_scancode /\ ideal = After(scancode)
                [] pc = "test"  -> /\ scancode = NoKey \/ current_scancode = NoKey
                                   /\ ideal = After(IF scancode = NoKey THEN current_scancode
                                                                        ELSE scancode)
                [] OTHER        -> TRUE

LineInv == KernelInv /\ RowIsLine /\ MailInv /\ PacedInv
-----------------------------------------------------------------------------
(* The terminal's state after a character printed for the line. *)
LEMMA Printed ==
  ASSUME KernelInv, NEW c \in Characters, term_put_char(c)
  PROVE  /\ TerminalInv' /\ is_debug_output' = FALSE
         /\ text \in Seq(Seq(Glyphs)) /\ text # <<>>
         /\ text' = TextWith(c)
<1>1. PutOnScreen(c) /\ is_debug_output' = is_debug_output
  BY DEF KernelInv, term_put_char
<1>2. TerminalInv /\ is_debug_output = FALSE
  BY DEF KernelInv
<1>3. TerminalInv'
  BY <1>1, <1>2, PutOnScreenPreservesInv
<1>4. text \in Seq(Seq(Glyphs)) /\ text # <<>>
  BY <1>2 DEF TerminalInv, TerminalTypeOK
<1> QED BY <1>1, <1>2, <1>3, <1>4 DEF PutOnScreen

(* Characters of the keyboard. *)
LEMMA KeyCharacter ==
  ASSUME NEW key \in Keys, key # Enter
  PROVE  /\ Typed(key) \in Glyphs \union {NUL, Backspace}
         /\ get_character(key) = Typed(key)
BY LineInputAssumption DEF Typed, get_character

LEMMA InitEstablishesLineInv == LineInit => LineInv
<1> SUFFICES ASSUME LineInit PROVE LineInv
  OBVIOUS
<1> USE DEF LineInit
<1>1. TerminalInv
  BY InitEstablishesInv
<1>2. KernelInv
  <2>1. text = <<<<>>>> /\ is_debug_output = FALSE /\ Row = <<>> /\ Len(text) = 1
    BY DEF initalize_terminal, Row
  <2>2. string = <<>> /\ string \in Seq(Glyphs) /\ Len(string) <= size - 1
    BY LineInputAssumption, EmptySeq
  <2> QED BY <1>1, <2>1, <2>2 DEF KernelInv, Reading
<1>3. RowIsLine
  BY DEF RowIsLine, Reading
<1>4. MailInv
  <2>1. taken = <<>> /\ taken \in Seq(1 .. presses) /\ Len(taken) = 0
    BY EmptySeq
  <2>2. KeyboardTypeOK /\ ShiftIsHeld
    <3>1. /\ current_scancode = NoKey /\ is_shift = FALSE /\ held = {}
          /\ presses = 0 /\ mailed = 0
      BY DEF KeyboardInit
    <3>2. presses \in 0 .. MaxKeys /\ mailed \in 0 .. presses
      BY <3>1, KeyboardAssumption
    <3> QED BY <3>1, <3>2 DEF KeyboardTypeOK, ShiftIsHeld
  <2> QED BY <2>1, <2>2 DEF MailInv, TakenInOrder, KeyboardInit
<1>5. PacedInv
  BY DEF PacedInv
<1> QED BY <1>2, <1>3, <1>4, <1>5 DEF LineInv
-----------------------------------------------------------------------------
(* The keyboard's interrupts. *)
LEMMA TypeKeepsLineInv ==
  ASSUME LineInv, NEW key \in Keys, Type(key)
  PROVE  LineInv'
<1> USE DEF LineInv
<1>1. /\ UNCHANGED <<terminalVars, pc, scancode, string, promptRow, taken>>
      /\ presses' = presses + 1 /\ mailed' = presses + 1
      /\ current_scancode' = key /\ key # NoKey
      /\ is_shift' = ShiftAfter(key, TRUE)
      /\ held' = held \union (Shifts \intersect {key})
      /\ presses < MaxKeys
  BY KeyboardAssumption DEF Type, Press, keyboard_interrupt_handler
<1>2. KernelInv' /\ RowIsLine'
  BY <1>1
  DEF KernelInv, RowIsLine, TerminalInv, TerminalTypeOK, ScreenShowsText, Gone, Row, Cell,
      terminalVars
<1>3. MailInv'
  <2>0. /\ presses \in 0 .. MaxKeys /\ held \subseteq Shifts /\ is_shift \in BOOLEAN
        /\ MaxKeys \in Nat /\ (is_shift => held # {})
    BY KeyboardAssumption DEF MailInv, KeyboardTypeOK, ShiftIsHeld
  <2>a. is_shift' \in BOOLEAN /\ held' \subseteq Shifts /\ (is_shift' => held' # {})
    BY <1>1, <2>0 DEF ShiftAfter
  <2>b. presses' \in 0 .. MaxKeys /\ mailed' \in 0 .. presses'
    BY <1>1, <2>0
  <2>1. KeyboardTypeOK' /\ ShiftIsHeld'
    BY <1>1, <2>a, <2>b DEF KeyboardTypeOK, ShiftIsHeld
  <2>2. presses \in Nat /\ mailed \in 0 .. presses
    BY KeyboardAssumption DEF MailInv, KeyboardTypeOK
  <2>3. /\ taken' = taken /\ taken \in Seq(1 .. presses) /\ Len(taken) \in Nat
        /\ 1 .. presses \subseteq 1 .. presses'
    BY <1>1, <2>2 DEF MailInv
  <2>4. taken' \in Seq(1 .. presses')
    BY <2>3, SeqMonotonic, Zenon
  <2>5. \A n \in 1 .. Len(taken) : taken[n] <= mailed /\ taken[n] \in 1 .. presses
    BY <2>3, ElementOfSeq DEF MailInv
  <2> QED BY <1>1, <2>1, <2>2, <2>3, <2>4, <2>5 DEF MailInv, TakenInOrder
<1>4. PacedInv'
  <2>1. paced' = (paced /\ Dealt) /\ paced \in BOOLEAN
    BY DEF Type, PacedInv
  <2>2. CASE ~(paced /\ Dealt)
    BY <2>1, <2>2 DEF PacedInv
  <2>3. CASE paced /\ Dealt /\ pc \notin Reading
    BY <1>1, <2>1, <2>3 DEF PacedInv, Reading
  <2>4. CASE paced /\ Dealt /\ pc \in Reading
    <3>1. ideal = string
      BY <2>4 DEF PacedInv, Reading, Dealt, After
    <3>2. ideal' = After(key)'
      <4>1. CASE key = Enter
        BY <1>1, <3>1, <4>1 DEF Type, After
      <4>2. CASE key # Enter
        <5>1. Typed(key)' = Typed(key)
          BY <1>1, LineInputAssumption DEF Typed, ShiftAfter
        <5>2. ideal' = Edited(string, Typed(key))
          BY <3>1, <4>2 DEF Type
        <5>3. After(key)' = Edited(string', Typed(key)')
          BY <1>1, <4>2 DEF After, Edited, Front
        <5> QED BY <1>1, <5>1, <5>2, <5>3
      <4> QED BY <4>1, <4>2
    <3>3. pc = "read" \/ (pc = "test" /\ scancode = NoKey)
      BY <2>4 DEF Dealt, Reading
    <3> QED BY <1>1, <2>1, <3>2, <3>3 DEF PacedInv, After
  <2> QED BY <2>1, <2>2, <2>3, <2>4
<1> QED BY <1>2, <1>3, <1>4

LEMMA LetGoKeepsLineInv ==
  ASSUME LineInv, NEW key \in Keys, LetGo(key)
  PROVE  LineInv'
<1> USE DEF LineInv
<1>1. /\ UNCHANGED <<terminalVars, pc, scancode, string, promptRow, taken, ideal>>
      /\ UNCHANGED <<presses, mailed, current_scancode>>
      /\ is_shift' = ShiftAfter(key, FALSE)
      /\ key \in held /\ held' = held \ {key}
  BY DEF LetGo, Release, keyboard_interrupt_handler
<1>2. KernelInv' /\ RowIsLine'
  BY <1>1
  DEF KernelInv, RowIsLine, TerminalInv, TerminalTypeOK, ScreenShowsText, Gone, Row, Cell,
      terminalVars
<1>3. MailInv'
  <2>1. KeyboardTypeOK' /\ ShiftIsHeld'
    BY <1>1 DEF MailInv, KeyboardTypeOK, ShiftIsHeld, ShiftAfter
  <2> QED BY <1>1, <2>1 DEF MailInv, TakenInOrder
<1>4. PacedInv'
  <2>1. paced' = (paced /\ Dealt) /\ paced \in BOOLEAN
    BY DEF LetGo, PacedInv
  <2>2. CASE ~(paced /\ Dealt)
    BY <2>1, <2>2 DEF PacedInv
  <2>3. CASE paced /\ Dealt
    BY <1>1, <2>1, <2>3 DEF PacedInv, Dealt, After
  <2> QED BY <2>1, <2>2, <2>3
<1> QED BY <1>2, <1>3, <1>4
-----------------------------------------------------------------------------
(* The kernel. *)
LEMMA InitKeyboardKeepsLineInv ==
  ASSUME LineInv, InitKeyboard
  PROVE  LineInv'
<1> USE DEF LineInv
<1>1. /\ UNCHANGED <<terminalVars, scancode, string, promptRow, taken, paced, ideal>>
      /\ UNCHANGED <<held, presses, mailed>>
      /\ current_scancode' = NoKey /\ is_shift' = FALSE
      /\ pc = "boot" /\ pc' = "caller"
  BY DEF InitKeyboard, initalize_keyboard
<1>2. KernelInv' /\ RowIsLine'
  BY <1>1
  DEF KernelInv, RowIsLine, Reading, TerminalInv, TerminalTypeOK, ScreenShowsText, Gone, Row,
      Cell, terminalVars
<1>3. MailInv'
  BY <1>1 DEF MailInv, TakenInOrder, KeyboardTypeOK, ShiftIsHeld
<1>4. PacedInv'
  BY <1>1 DEF PacedInv
<1> QED BY <1>2, <1>3, <1>4

LEMMA CallGetStringKeepsLineInv ==
  ASSUME LineInv, CallGetString
  PROVE  LineInv'
<1> USE DEF LineInv
<1>1. /\ UNCHANGED <<keyboardVars, scancode, taken>>
      /\ pc = "caller" /\ pc' = "read"
      /\ string' = <<>> /\ promptRow' = Len(text) /\ ideal' = <<>>
      /\ paced' = (current_scancode = NoKey)
      /\ term_put_char(Prompt) /\ Prompt \in Glyphs /\ Prompt \in Characters
      /\ Prompt # Newline
  BY LineInputAssumption, TerminalAssumption DEF CallGetString, Characters
<1>2. /\ TerminalInv' /\ is_debug_output' = FALSE
      /\ text \in Seq(Seq(Glyphs)) /\ text # <<>>
      /\ text' = TextWith(Prompt)
  BY <1>1, Printed
<1>3. Row = <<>> /\ Len(Row) = 0 /\ VGA_WIDTH \in Nat /\ 2 <= VGA_WIDTH
  BY <1>1, TerminalAssumption DEF KernelInv, Reading
<1>4. Len(text') = Len(text) /\ Row' = <<Prompt>> /\ Len(text) \in Nat /\ 1 <= Len(text)
  <2>1. /\ TextWith(Prompt)[Len(text)] = Append(Row, Prompt)
        /\ Len(TextWith(Prompt)) = Len(text)
    <3>1. ~(Prompt = Newline \/ Len(Row) + 1 = VGA_WIDTH)
      BY <1>1, <1>3
    <3> QED BY <1>1, <1>2, <3>1, TextAfter
  <2>2. Len(text) \in Nat /\ 1 <= Len(text)
    BY <1>2, EmptySeq
  <2> QED BY <1>2, <1>3, <2>1, <2>2 DEF Row
<1>5. string' \in Seq(Glyphs) /\ Len(string') = 0 /\ Len(string') <= size - 1
  BY <1>1, LineInputAssumption
<1>6. KernelInv'
  BY <1>1, <1>2, <1>4, <1>5 DEF KernelInv, Reading
<1>7. RowIsLine'
  BY <1>1, <1>4, <1>5 DEF RowIsLine
<1>8. MailInv'
  BY <1>1 DEF MailInv, TakenInOrder, KeyboardTypeOK, ShiftIsHeld, keyboardVars
<1>9. PacedInv'
  BY <1>1 DEF PacedInv, After, keyboardVars
<1> QED BY <1>6, <1>7, <1>8, <1>9

LEMMA ReadScancodeKeepsLineInv ==
  ASSUME LineInv, ReadScancode
  PROVE  LineInv'
<1> USE DEF LineInv
<1>1. /\ UNCHANGED <<keyboardVars, terminalVars, string, promptRow, paced, ideal>>
      /\ pc = "read" /\ pc' = "clear" /\ scancode' = current_scancode
      /\ taken' = IF current_scancode = NoKey THEN taken ELSE Append(taken, mailed)
  BY DEF ReadScancode
<1>2. KernelInv' /\ RowIsLine'
  <2>1. current_scancode \in Keys \union {NoKey}
    BY DEF MailInv, KeyboardTypeOK
  <2> QED BY <1>1, <2>1
      DEF KernelInv, RowIsLine, Reading, TerminalInv, TerminalTypeOK, ScreenShowsText, Gone,
          Row, Cell, terminalVars
<1>3. MailInv'
  <2>1. KeyboardTypeOK' /\ ShiftIsHeld' /\ (current_scancode' # NoKey => mailed' >= 1)
    BY <1>1 DEF MailInv, KeyboardTypeOK, ShiftIsHeld, keyboardVars
  <2>2. CASE current_scancode = NoKey
    BY <1>1, <2>1, <2>2 DEF MailInv, TakenInOrder, keyboardVars
  <2>3. CASE current_scancode # NoKey
    <3>1. /\ taken \in Seq(1 .. presses) /\ mailed \in 1 .. presses
          /\ \A n \in 1 .. Len(taken) : taken[n] < mailed
      BY <1>1, <2>3 DEF MailInv, KeyboardTypeOK
    <3>2. /\ taken' \in Seq(1 .. presses)
          /\ Len(taken') = Len(taken) + 1
          /\ \A n \in 1 .. Len(taken) : taken'[n] = taken[n]
          /\ taken'[Len(taken) + 1] = mailed
      BY <1>1, <2>3, <3>1, AppendProperties
    <3>3. Len(taken) \in Nat
      BY <3>1, LenProperties
    <3>4. \A n \in 1 .. Len(taken') : n \in 1 .. Len(taken) \/ n = Len(taken) + 1
      BY <3>2, <3>3
    <3>5. \A n \in 1 .. Len(taken') : taken'[n] <= mailed
      <4>1. mailed <= mailed /\ \A n \in 1 .. Len(taken) : taken[n] <= mailed
        BY <3>1 DEF MailInv
      <4> QED BY <3>2, <3>4, <4>1
    <3>6. TakenInOrder'
      <4> SUFFICES ASSUME NEW i \in 1 .. Len(taken'), NEW j \in 1 .. Len(taken'), i < j
                   PROVE  taken'[i] < taken'[j]
        BY DEF TakenInOrder
      <4>1. i \in 1 .. Len(taken)
        BY <3>2, <3>3
      <4>2. CASE j \in 1 .. Len(taken)
        BY <3>2, <4>1, <4>2 DEF MailInv, TakenInOrder
      <4>3. CASE j = Len(taken) + 1
        BY <3>1, <3>2, <4>1, <4>3
      <4> QED BY <3>4, <4>2, <4>3
    <3> QED BY <1>1, <2>1, <3>2, <3>5, <3>6 DEF MailInv, keyboardVars
  <2> QED BY <2>2, <2>3
<1>4. PacedInv'
  BY <1>1 DEF PacedInv, After, Edited, Front, Typed, keyboardVars
<1> QED BY <1>2, <1>3, <1>4

LEMMA TakeScancodeKeepsLineInv ==
  ASSUME LineInv, TakeScancode
  PROVE  LineInv'
<1> USE DEF LineInv
<1>1. /\ UNCHANGED <<is_shift, held, presses, mailed, terminalVars>>
      /\ UNCHANGED <<scancode, string, promptRow, taken, paced, ideal>>
      /\ pc = "clear" /\ pc' = "test" /\ current_scancode' = NoKey
  BY DEF TakeScancode, ClearScancode
<1>2. KernelInv' /\ RowIsLine'
  BY <1>1
  DEF KernelInv, RowIsLine, Reading, TerminalInv, TerminalTypeOK, ScreenShowsText, Gone, Row,
      Cell, terminalVars
<1>3. MailInv'
  BY <1>1 DEF MailInv, TakenInOrder, KeyboardTypeOK, ShiftIsHeld
<1>4. PacedInv'
  <2>1. CASE scancode = NoKey
    BY <1>1, <2>1 DEF PacedInv, After
  <2>2. CASE scancode # NoKey
    BY <1>1, <2>2 DEF PacedInv, After, Edited, Front, Typed
  <2> QED BY <2>1, <2>2
<1> QED BY <1>2, <1>3, <1>4

LEMMA FinishKeepsLineInv ==
  ASSUME LineInv, Finish
  PROVE  LineInv'
<1> USE DEF LineInv
<1>1. /\ UNCHANGED <<keyboardVars, scancode, string, promptRow, taken, paced, ideal>>
      /\ pc = "test" /\ pc' = "caller"
      /\ term_put_char(Newline) /\ Newline \in Characters
  BY DEF Finish, Characters
<1>2. /\ TerminalInv' /\ is_debug_output' = FALSE
      /\ text \in Seq(Seq(Glyphs)) /\ text # <<>>
      /\ text' = TextWith(Newline)
  BY <1>1, Printed
<1>3. Len(text') = Len(text) + 1 /\ Row' = <<>> /\ Len(text) \in Nat
  <2>1. Len(TextWith(Newline)) = Len(text) + 1 /\ TextWith(Newline)[Len(text) + 1] = <<>>
    BY <1>1, <1>2, TextAfter
  <2> QED BY <1>2, <2>1, LenProperties DEF Row
<1>4. KernelInv' /\ RowIsLine'
  BY <1>1, <1>2, <1>3 DEF KernelInv, RowIsLine, Reading
<1>5. MailInv'
  BY <1>1 DEF MailInv, TakenInOrder, KeyboardTypeOK, ShiftIsHeld, keyboardVars
<1>6. PacedInv'
  BY <1>1 DEF PacedInv
<1> QED BY <1>4, <1>5, <1>6

(* A key that get_string acts on: what the line has become if paced. *)
LEMMA ActsOnKey ==
  ASSUME LineInv, pc = "test", ~Ends, scancode # NoKey
  PROVE  /\ scancode \in Keys /\ scancode # Enter
         /\ get_character(scancode) = Typed(scancode)
         /\ Len(string) < size - 1
         /\ paced => current_scancode = NoKey /\ ideal = Edited(string, Typed(scancode))
<1>1. scancode \in Keys /\ scancode # Enter /\ Len(string) # size - 1
  BY DEF LineInv, KernelInv, Ends
<1>2. Len(string) <= size - 1 /\ string \in Seq(Glyphs) /\ size \in Nat
  BY LineInputAssumption DEF LineInv, KernelInv
<1>3. Len(string) < size - 1
  BY <1>1, <1>2, LenProperties
<1>4. paced => current_scancode = NoKey /\ ideal = After(scancode)
  BY DEF LineInv, PacedInv
<1> QED BY <1>1, <1>3, <1>4, KeyCharacter DEF After

LEMMA IgnoreKeepsLineInv ==
  ASSUME LineInv, Ignore
  PROVE  LineInv'
<1> USE DEF LineInv
<1>1. /\ UNCHANGED <<keyboardVars, terminalVars, scancode, string, promptRow, taken, paced, ideal>>
      /\ pc = "test" /\ ~Ends /\ pc' = "read"
      /\ scancode # NoKey => \/ get_character(scancode) = NUL
                             \/ get_character(scancode) = Backspace /\ string = <<>>
  BY DEF Ignore
<1>2. KernelInv' /\ RowIsLine'
  BY <1>1
  DEF KernelInv, RowIsLine, Reading, TerminalInv, TerminalTypeOK, ScreenShowsText, Gone, Row,
      Cell, terminalVars
<1>3. MailInv'
  BY <1>1 DEF MailInv, TakenInOrder, KeyboardTypeOK, ShiftIsHeld, keyboardVars
<1>4. PacedInv'
  <2>1. paced => ideal = After(current_scancode)
    <3>1. CASE scancode = NoKey
      BY <1>1, <3>1 DEF PacedInv
    <3>2. CASE scancode # NoKey
      BY <1>1, <3>2, ActsOnKey, LineInputAssumption DEF After, Edited
    <3> QED BY <3>1, <3>2
  <2> QED BY <1>1, <2>1 DEF PacedInv, After, Edited, Front, Typed, keyboardVars
<1> QED BY <1>2, <1>3, <1>4

LEMMA EraseCharKeepsLineInv ==
  ASSUME LineInv, EraseChar
  PROVE  LineInv'
<1> USE DEF LineInv
<1>1. /\ UNCHANGED <<keyboardVars, scancode, promptRow, taken, paced, ideal>>
      /\ pc = "test" /\ ~Ends /\ pc' = "read"
      /\ scancode # NoKey /\ get_character(scancode) = Backspace
      /\ string # <<>> /\ string' = Front(string)
      /\ term_clear_last_char
  BY DEF EraseChar, Types, Shortened
<1>2. TerminalInv' /\ text' = TextWithoutLast /\ is_debug_output' = FALSE
  BY <1>1, ClearPreservesInv DEF KernelInv, term_clear_last_char
<1>3. /\ string' \in Seq(Glyphs)
      /\ Len(string') = Len(string) - 1 /\ Len(string) \in Nat /\ 1 <= Len(string)
      /\ \A i \in 1 .. Len(string') : string'[i] = string[i]
  <2>1. string \in Seq(Glyphs) /\ Len(string) \in Nat /\ Len(string) # 0
    BY <1>1, EmptySeq, LenProperties DEF KernelInv
  <2>2. \A i \in 1 .. Len(string) - 1 : string[i] \in Glyphs
    BY <2>1, ElementOfSeq
  <2> DEFINE n == Len(string) - 1
  <2>3. 1 \in Int /\ n \in Int /\ 0 <= n
    BY <2>1
  <2>4. /\ SubSeq(string, 1, n) \in Seq(Glyphs)
        /\ Len(SubSeq(string, 1, n)) = IF 1 <= n THEN n - 1 + 1 ELSE 0
        /\ \A i \in 1 .. n - 1 + 1 : SubSeq(string, 1, n)[i] = string[1 + i - 1]
    BY <2>2, <2>3, SubSeqProperties
  <2>5. string' = SubSeq(string, 1, n)
    BY <1>1 DEF Front
  <2>6. Len(string') = n
    <3>1. Len(string') = IF 1 <= n THEN n - 1 + 1 ELSE 0
      BY <2>4, <2>5
    <3> HIDE DEF n
    <3> QED BY <2>3, <3>1
  <2>7. \A i \in 1 .. n : string'[i] = string[i]
    <3>1. \A i \in 1 .. n : i \in 1 .. n - 1 + 1 /\ 1 + i - 1 = i
      BY <2>3
    <3> QED BY <2>4, <2>5, <3>1
  <2> QED BY <2>1, <2>4, <2>5, <2>6, <2>7
<1>4. text \in Seq(Seq(Glyphs)) /\ text # <<>> /\ Len(text) \in Nat /\ 1 <= Len(text)
  BY EmptySeq DEF KernelInv, TerminalInv, TerminalTypeOK
<1>5. Len(text') = Len(text)
  <2>1. CASE Len(Row) < 2
    BY <1>2, <2>1 DEF TextWithoutLast
  <2>2. CASE ~(Len(Row) < 2)
    <3>1. Len(Row) \in Nat
      BY <1>4, ElementOfSeq, LenProperties DEF Row
    <3> QED BY <1>2, <1>4, <2>2, <3>1, ShortenedRow
  <2> QED BY <2>1, <2>2
<1>6. KernelInv'
  <2>1. size \in Nat /\ Len(string) <= size - 1
    BY LineInputAssumption DEF KernelInv
  <2>2. Len(string') <= size - 1
    BY <1>3, <2>1
  <2> QED BY <1>1, <1>2, <1>3, <1>5, <2>2 DEF KernelInv, Reading
<1>7. RowIsLine'
  <2> SUFFICES ASSUME Len(text) = promptRow
               PROVE  /\ Len(Row') = Len(string') + 1
                      /\ Row'[1] = Prompt
                      /\ \A i \in 1 .. Len(string') : Row'[i + 1] = string'[i]
    BY <1>1, <1>5 DEF RowIsLine
  <2>1. /\ Len(Row) = Len(string) + 1 /\ Row[1] = Prompt
        /\ \A i \in 1 .. Len(string) : Row[i + 1] = string[i]
    BY <1>1 DEF RowIsLine, Reading
  <2>2. /\ Len(Row') = Len(Row) - 1
        /\ \A j \in 1 .. Len(Row) - 1 : Row'[j] = Row[j]
    <3>1. 2 <= Len(Row)
      BY <1>3, <2>1
    <3>2. /\ Len(TextWithoutLast[Len(text)]) = Len(Row) - 1
          /\ \A j \in 1 .. Len(Row) - 1 : TextWithoutLast[Len(text)][j] = Row[j]
      BY <1>4, <3>1, ShortenedRow
    <3>3. Row' = TextWithoutLast[Len(text)]
      BY <1>2, <1>5 DEF Row
    <3> QED BY <3>2, <3>3
  <2> HIDE DEF LineInv
  <2>3. \A i \in 1 .. Len(string') : Row'[i + 1] = string'[i]
    BY <1>3, <2>1, <2>2
  <2> QED BY <1>3, <2>1, <2>2, <2>3
<1>8. MailInv'
  BY <1>1 DEF MailInv, TakenInOrder, KeyboardTypeOK, ShiftIsHeld, keyboardVars
<1>9. PacedInv'
  <2>1. paced => current_scancode = NoKey /\ ideal = Front(string)
    BY <1>1, ActsOnKey, LineInputAssumption DEF Edited
  <2> QED BY <1>1, <2>1 DEF PacedInv, After, keyboardVars
<1> QED BY <1>6, <1>7, <1>8, <1>9

LEMMA PutCharKeepsLineInv ==
  ASSUME LineInv, PutChar
  PROVE  LineInv'
<1> USE DEF LineInv
<1>1. PICK c \in Glyphs :
        /\ UNCHANGED <<keyboardVars, scancode, promptRow, taken, paced, ideal>>
        /\ pc = "test" /\ ~Ends /\ pc' = "read"
        /\ scancode # NoKey /\ c = get_character(scancode)
        /\ term_put_char(c) /\ string' = Append(string, c)
  BY DEF PutChar, Types
<1>2. c \in Characters /\ c # Newline
  BY TerminalAssumption DEF Characters
<1>3. /\ TerminalInv' /\ is_debug_output' = FALSE
      /\ text \in Seq(Seq(Glyphs)) /\ text # <<>>
      /\ text' = TextWith(c)
  BY <1>1, <1>2, Printed
<1>4. Len(string) < size - 1 /\ size \in Nat
  BY <1>1, ActsOnKey, LineInputAssumption
<1>5. /\ string' \in Seq(Glyphs)
      /\ Len(string') = Len(string) + 1 /\ Len(string) \in Nat
      /\ \A i \in 1 .. Len(string) : string'[i] = string[i]
      /\ string'[Len(string) + 1] = c
  <2>1. string \in Seq(Glyphs) /\ Len(string) \in Nat
    BY LenProperties DEF KernelInv
  <2> QED BY <1>1, <2>1, AppendProperties
<1>6. /\ TextWith(c)[Len(text)] = Append(Row, c)
      /\ \/ Len(TextWith(c)) = Len(text) + 1
         \/ Len(TextWith(c)) = Len(text)
      /\ Len(text) \in Nat /\ Len(text) >= 1
  <2>1. /\ TextWith(c)[Len(text)] = IF c = Newline THEN Row ELSE Append(Row, c)
        /\ IF c = Newline \/ Len(Row) + 1 = VGA_WIDTH
             THEN Len(TextWith(c)) = Len(text) + 1
             ELSE Len(TextWith(c)) = Len(text)
    BY <1>2, <1>3, TextAfter
  <2>2. Len(text) \in Nat /\ Len(text) # 0
    BY <1>3, EmptySeq
  <2> QED BY <1>2, <2>1, <2>2
<1>7. KernelInv'
  BY <1>1, <1>3, <1>4, <1>5, <1>6 DEF KernelInv, Reading
<1>8. RowIsLine'
  <2> SUFFICES ASSUME Len(text') = promptRow
               PROVE  /\ Len(Row') = Len(string') + 1
                      /\ Row'[1] = Prompt
                      /\ \A i \in 1 .. Len(string') : Row'[i + 1] = string'[i]
    BY <1>1 DEF RowIsLine
  <2>1. Len(text') = Len(text) /\ Row' = Append(Row, c)
    <3>1. promptRow <= Len(text)
      BY <1>6 DEF KernelInv
    <3> QED BY <1>3, <1>6, <3>1 DEF Row
  <2>2. /\ Len(Row) = Len(string) + 1 /\ Row[1] = Prompt
        /\ \A i \in 1 .. Len(string) : Row[i + 1] = string[i]
    BY <1>1, <2>1 DEF RowIsLine, Reading
  <2>3. /\ Len(Row') = Len(Row) + 1
        /\ \A j \in 1 .. Len(Row) : Row'[j] = Row[j]
        /\ Row'[Len(Row) + 1] = c
    <3>1. Row \in Seq(Glyphs)
      BY <1>3, <1>6, ElementOfSeq DEF Row
    <3> QED BY <2>1, <3>1, AppendProperties
  <2> HIDE DEF LineInv
  <2>4. \A i \in 1 .. Len(string') : i \in 1 .. Len(string) \/ i = Len(string) + 1
    BY <1>5
  <2>5. \A i \in 1 .. Len(string') : Row'[i + 1] = string'[i]
    BY <1>5, <2>2, <2>3, <2>4
  <2> QED BY <1>5, <2>2, <2>3, <2>5
<1>9. MailInv'
  BY <1>1 DEF MailInv, TakenInOrder, KeyboardTypeOK, ShiftIsHeld, keyboardVars
<1>10. PacedInv'
  <2>1. paced => current_scancode = NoKey /\ ideal = Append(string, c)
    BY <1>1, <1>4, ActsOnKey, LineInputAssumption DEF Edited
  <2> QED BY <1>1, <2>1 DEF PacedInv, After, keyboardVars
<1> QED BY <1>7, <1>8, <1>9, <1>10
-----------------------------------------------------------------------------
(* LineInv is an invariant of reading lines under interrupts. *)
THEOREM LineInvariant == LineSpec => []LineInv
<1>1. LineInv /\ [LineNext]_vars => LineInv'
  <2> SUFFICES ASSUME LineInv, [LineNext]_vars PROVE LineInv'
    OBVIOUS
  <2>1. CASE UNCHANGED vars
    BY <2>1
    DEF vars, keyboardVars, terminalVars, LineInv, KernelInv, RowIsLine, MailInv, PacedInv,
        TerminalInv, TerminalTypeOK, ScreenShowsText, Gone, Row, Cell, KeyboardTypeOK,
        ShiftIsHeld, TakenInOrder, After, Edited, Front, Typed
  <2>2. ASSUME NEW key \in Keys, Type(key) \/ LetGo(key) PROVE LineInv'
    BY <2>2, TypeKeepsLineInv, LetGoKeepsLineInv
  <2>3. CASE KernelStep
    BY <2>3, InitKeyboardKeepsLineInv, CallGetStringKeepsLineInv, ReadScancodeKeepsLineInv,
       TakeScancodeKeepsLineInv, FinishKeepsLineInv, IgnoreKeepsLineInv,
       EraseCharKeepsLineInv, PutCharKeepsLineInv
    DEF KernelStep
  <2> QED BY <2>1, <2>2, <2>3 DEF LineNext
<1> QED BY InitEstablishesLineInv, <1>1, PTL DEF LineSpec

(* Type correctness: a line of size - 1 characters at most, so that its    *)
(* final 0 is inside the caller's buffer (libc/stdio.c:329-371).           *)
THEOREM LineTypeCorrect == LineSpec => []LineTypeOK
<1>1. LineInv => LineTypeOK
  BY DEF LineInv, KernelInv, MailInv, PacedInv, TerminalInv, LineTypeOK, Reading
<1> QED BY <1>1, LineInvariant, PTL

(* No key is taken twice or after a later one, wherever the interrupt      *)
(* comes in get_scancode (c/keyboard.c:89-121).                            *)
THEOREM KeysTakenInOrder == LineSpec => []TakenInOrder
<1>1. LineInv => TakenInOrder
  BY DEF LineInv, MailInv
<1> QED BY <1>1, LineInvariant, PTL

(* A typist who waits for each key to be taken gets the line typed, and    *)
(* shift never sticks (libc/stdio.c:329-371, c/keyboard.c:89-110).         *)
THEOREM PacedTypingIsExact == LineSpec => []PacedLineIsExact
<1>1. LineInv => PacedLineIsExact
  BY DEF LineInv, MailInv, PacedInv, PacedLineIsExact, Dealt, After
<1> QED BY <1>1, LineInvariant, PTL

(* The row of the prompt shows the line: the conditions of                 *)
(* term_clear_last_char and of get_string agree (c/term.c:139-154).        *)
THEOREM EchoShowsLine == LineSpec => []EchoIsLine
<1>1. LineInv => EchoIsLine
  <2> SUFFICES ASSUME LineInv, pc \in Reading, Len(text) = promptRow
               PROVE  /\ term_current_column = Len(string) + 1
                      /\ term_buffer[<<term_current_row, 0>>] = Prompt
                      /\ \A i \in 1 .. Len(string) :
                           term_buffer[<<term_current_row, i>>] = string[i]
    BY DEF EchoIsLine, Reading
  <2>1. /\ Len(Row) = Len(string) + 1 /\ Row[1] = Prompt
        /\ \A i \in 1 .. Len(string) : Row[i + 1] = string[i]
        /\ Len(string) \in Nat
    BY LenProperties DEF LineInv, RowIsLine, KernelInv
  <2>2. /\ term_current_row = Len(text) - 1 - Gone
        /\ term_current_column = Len(Row)
        /\ term_current_row \in 0 .. VGA_HEIGHT - 1
        /\ term_current_column \in 0 .. VGA_WIDTH - 1
    BY DEF LineInv, KernelInv, TerminalInv, TerminalTypeOK, ScreenShowsText, Cell, Cells
  <2>3. Len(text) \in Nat /\ Gone \in Int /\ VGA_WIDTH \in Nat /\ VGA_HEIGHT \in Nat
    BY LenProperties, TerminalAssumption DEF LineInv, KernelInv, TerminalInv, TerminalTypeOK, Gone
  <2>4. Gone + term_current_row + 1 = Len(text)
    BY <2>2, <2>3
  <2>5. \A x \in 0 .. VGA_WIDTH - 1 :
          x < Len(Row) => term_buffer[<<term_current_row, x>>] = Row[x + 1]
    BY <2>2, <2>3, <2>4 DEF LineInv, KernelInv, TerminalInv, ScreenShowsText, Row
  <2>6. 0 \in 0 .. VGA_WIDTH - 1 /\ \A i \in 1 .. Len(string) : i \in 0 .. VGA_WIDTH - 1 /\ i < Len(Row)
    BY <2>1, <2>2, <2>3
  <2> QED BY <2>1, <2>2, <2>5, <2>6
<1> QED BY <1>1, LineInvariant, PTL
=============================================================================
