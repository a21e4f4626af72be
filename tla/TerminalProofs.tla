--------------------------- MODULE TerminalProofs ---------------------------
(***************************************************************************)
(* The screen shows the end of the text printed, for every size of screen  *)
(* and every text.                                                         *)
(***************************************************************************)
EXTENDS Terminal, TLAPS

(* The inductive invariant. *)
TerminalInv == TerminalTypeOK /\ ScreenShowsText

Shown(t, gone, y, x) ==
  IF y <= Len(t) - 1 - gone /\ x < Len(t[gone + y + 1])
    THEN t[gone + y + 1][x + 1] ELSE Blank
-----------------------------------------------------------------------------
(* A character that stays in its row lengthens the last row of the text.   *)
LEMMA WrittenRow ==
  ASSUME text \in Seq(Seq(Glyphs)), text # <<>>, NEW c \in Glyphs
  PROVE  /\ Written(c) \in Seq(Seq(Glyphs))
         /\ Len(Written(c)) = Len(text)
         /\ \A i \in 1 .. Len(text) - 1 : Written(c)[i] = text[i]
         /\ Written(c)[Len(text)] = Append(Row, c)
<1>1. Len(text) \in 1 .. Len(text) /\ Row \in Seq(Glyphs)
  BY DEF Row
<1>2. Append(Row, c) \in Seq(Glyphs)
  BY <1>1
<1> QED BY <1>1, <1>2 DEF Written, Row

(* Erasing shortens it. *)
LEMMA ShortenedRow ==
  ASSUME text \in Seq(Seq(Glyphs)), text # <<>>, 2 <= Len(Row)
  PROVE  /\ TextWithoutLast \in Seq(Seq(Glyphs))
         /\ Len(TextWithoutLast) = Len(text)
         /\ \A i \in 1 .. Len(text) - 1 : TextWithoutLast[i] = text[i]
         /\ Len(TextWithoutLast[Len(text)]) = Len(Row) - 1
         /\ \A j \in 1 .. Len(Row) - 1 : TextWithoutLast[Len(text)][j] = Row[j]
<1> DEFINE s == SubSeq(Row, 1, Len(Row) - 1)
<1>1. Len(text) \in 1 .. Len(text) /\ Row \in Seq(Glyphs)
  BY DEF Row
<1>2. /\ s \in Seq(Glyphs)
      /\ Len(s) = Len(Row) - 1
      /\ \A j \in 1 .. Len(Row) - 1 : s[j] = Row[j]
  BY <1>1
<1>3. TextWithoutLast = [text EXCEPT ![Len(text)] = s]
  BY <1>1 DEF TextWithoutLast, Row
<1> HIDE DEF s
<1> QED BY <1>1, <1>2, <1>3

(* What a character does to the text: to its last row, and to the number   *)
(* of rows.                                                                *)
LEMMA TextAfter ==
  ASSUME text \in Seq(Seq(Glyphs)), text # <<>>, NEW c \in Characters
  PROVE  /\ TextWith(c) \in Seq(Seq(Glyphs))
         /\ \A i \in 1 .. Len(text) - 1 : TextWith(c)[i] = text[i]
         /\ TextWith(c)[Len(text)] = IF c = Newline THEN Row ELSE Append(Row, c)
         /\ IF c = Newline \/ Len(Row) + 1 = VGA_WIDTH
              THEN /\ Len(TextWith(c)) = Len(text) + 1
                   /\ TextWith(c)[Len(text) + 1] = <<>>
              ELSE Len(TextWith(c)) = Len(text)
<1>0. Len(text) \in Nat /\ 1 <= Len(text)
  OBVIOUS
<1>1. CASE c = Newline
  <2>1. TextWith(c) = Append(text, <<>>)
    BY <1>1 DEF TextWith
  <2> QED BY <1>0, <1>1, <2>1 DEF Row
<1>2. CASE c # Newline /\ Len(Row) + 1 = VGA_WIDTH
  <2>1. c \in Glyphs
    BY <1>2 DEF Characters
  <2>2. TextWith(c) = Append(Written(c), <<>>)
    BY <1>2 DEF TextWith
  <2> QED BY <1>0, <1>2, <2>1, <2>2, WrittenRow
<1>3. CASE c # Newline /\ Len(Row) + 1 # VGA_WIDTH
  <2>1. c \in Glyphs
    BY <1>3 DEF Characters
  <2>2. TextWith(c) = Written(c)
    BY <1>3 DEF TextWith
  <2> QED BY <1>0, <1>3, <2>1, <2>2, WrittenRow
<1> QED BY <1>1, <1>2, <1>3
-----------------------------------------------------------------------------
LEMMA InitEstablishesInv == initalize_terminal => TerminalInv
<1> SUFFICES ASSUME initalize_terminal PROVE TerminalInv
  OBVIOUS
<1>1. /\ VGA_WIDTH \in Nat /\ 2 <= VGA_WIDTH
      /\ VGA_HEIGHT \in Nat /\ 1 <= VGA_HEIGHT
  BY TerminalAssumption
<1>2. text = <<<<>>>> /\ Len(text) = 1 /\ text[1] = <<>> /\ Gone = 0
  BY <1>1 DEF initalize_terminal, Gone
<1>3. text \in Seq(Seq(Glyphs))
  BY <1>2
<1>4. TerminalTypeOK
  <2>1. Cell \in Cells
    BY <1>1 DEF initalize_terminal, Cells, Cell
  <2>2. text # <<>>
    BY <1>2
  <2> QED BY <1>3, <2>1, <2>2 DEF initalize_terminal, TerminalTypeOK
<1>5. ScreenShowsText
  BY <1>1, <1>2 DEF initalize_terminal, ScreenShowsText, Cells, Row
<1> QED BY <1>4, <1>5 DEF TerminalInv

(* A character printed on the screen. *)
LEMMA PutOnScreenPreservesInv ==
  ASSUME TerminalInv, NEW c \in Characters, PutOnScreen(c),
         is_debug_output' = is_debug_output
  PROVE  TerminalInv'
<1> DEFINE W == VGA_WIDTH
           H == VGA_HEIGHT
           row == term_current_row
           column == term_current_column
           n == Len(text)
           ends == c = Newline \/ column + 1 = W
           placed == PutCharAt(c, Cell)
<1>1. /\ W \in Nat /\ 2 <= W /\ H \in Nat /\ 1 <= H
      /\ Newline \notin Glyphs /\ Newline # Blank
  BY TerminalAssumption
<1>2. /\ row \in 0 .. H - 1 /\ column \in 0 .. W - 1
      /\ term_buffer \in [Cells -> Glyphs \union {Blank}]
      /\ text \in Seq(Seq(Glyphs)) /\ text # <<>>
      /\ n \in Nat /\ 1 <= n
      /\ Gone = IF n > H THEN n - H ELSE 0
      /\ row = n - 1 - Gone /\ column = Len(Row)
  BY <1>1 DEF TerminalInv, TerminalTypeOK, ScreenShowsText, Cells, Cell, Gone
<1>12. /\ W \in Nat /\ H \in Nat /\ 2 <= W /\ 1 <= H /\ n \in Nat /\ Gone \in Nat
       /\ row \in 0 .. H - 1 /\ column \in 0 .. W - 1
       /\ Gone = IF n > H THEN n - H ELSE 0
       /\ Gone + row + 1 = n
  BY <1>1, <1>2
<1>3. /\ EndsRow(c) <=> ends
      /\ ~ends => NextColumn(c) = column + 1
  BY <1>1, <1>2 DEF EndsRow, NextColumn
<1>4. /\ text' \in Seq(Seq(Glyphs))
      /\ \A i \in 1 .. n - 1 : text'[i] = text[i]
      /\ text'[n] = IF c = Newline THEN Row ELSE Append(Row, c)
      /\ ends => Len(text') = n + 1 /\ text'[n + 1] = <<>>
      /\ ~ends => Len(text') = n
  BY <1>2, TextAfter DEF PutOnScreen
<1>5. placed \in [Cells -> Glyphs \union {Blank}]
  BY <1>2 DEF PutCharAt, Characters
<1>6. Row \in Seq(Glyphs)
  BY <1>2 DEF Row
<1>7. /\ Len(text'[n]) = IF c = Newline THEN Len(Row) ELSE Len(Row) + 1
      /\ \A j \in 1 .. Len(Row) : text'[n][j] = Row[j]
      /\ c # Newline => text'[n][Len(Row) + 1] = c
  BY <1>4, <1>6 DEF Characters
<1>13. \A i \in 1 .. n - 1 : text'[i] = text[i]
  BY <1>4
<1>14. ends => text'[n + 1] = <<>>
  BY <1>4
<1>15. column = Len(Row) /\ Len(Row) \in Nat
  BY <1>2, <1>6
(* Before a scroll, the buffer shows the text with c in it. *)
<1>8. ASSUME NEW y \in 0 .. H - 1, NEW x \in 0 .. W - 1
      PROVE  placed[<<y, x>>] =
               IF y <= row /\ x < Len(text'[Gone + y + 1])
                 THEN text'[Gone + y + 1][x + 1] ELSE Blank
  <2>1. term_buffer[<<y, x>>] =
          IF y <= row /\ x < Len(text[Gone + y + 1])
            THEN text[Gone + y + 1][x + 1] ELSE Blank
    BY DEF TerminalInv, ScreenShowsText
  <2>2. <<y, x>> \in Cells /\ Cell \in Cells
    BY <1>2 DEF Cells, Cell
  <2>3. placed[<<y, x>>] = IF c # Newline /\ y = row /\ x = column
                             THEN c ELSE term_buffer[<<y, x>>]
    BY <1>2, <2>2 DEF PutCharAt, Cell
  <2>4. CASE y = row
    <3>1. Gone + y + 1 = n /\ text[n] = Row
      BY <1>2, <1>12, <2>4 DEF Row
    <3>7. x \in Nat /\ y <= row
      BY <1>8, <1>12, <2>4
    <3>6. column = Len(Row) /\ Len(Row) \in Nat /\ x \in Nat /\ y <= row
      BY <1>15, <3>7
    <3>4. /\ term_buffer[<<y, x>>] = IF x < Len(Row) THEN Row[x + 1] ELSE Blank
          /\ placed[<<y, x>>] = IF c # Newline /\ x = Len(Row)
                                  THEN c ELSE term_buffer[<<y, x>>]
      BY <2>1, <2>3, <2>4, <3>1, <3>6
    <3>5. /\ x < Len(Row) => text'[n][x + 1] = Row[x + 1]
          /\ c # Newline /\ x = Len(Row) => text'[n][x + 1] = c
      BY <1>7, <3>6
    <3>2. CASE c = Newline
      BY <1>7, <3>1, <3>2, <3>4, <3>5, <3>6
    <3>3. CASE c # Newline
      BY <1>7, <3>1, <3>3, <3>4, <3>5, <3>6
    <3> QED BY <3>2, <3>3
  <2>5. CASE y < row
    <3>1. Gone + y + 1 \in 1 .. n - 1
      BY <1>8, <1>12, <2>5
    <3>3. y # row
      BY <1>8, <1>12, <2>5
    <3>2. text'[Gone + y + 1] = text[Gone + y + 1] /\ y # row
      BY <1>13, <2>5, <3>1, <3>3
    <3> QED BY <2>1, <2>3, <3>2
  <2>6. CASE y > row
    BY <1>2, <2>1, <2>3, <2>6
  <2> QED BY <1>2, <2>4, <2>5, <2>6
<1> HIDE DEF placed
<1>9. CASE ~ends
  <2>1. /\ term_current_column' = column + 1 /\ term_current_row' = row
        /\ term_buffer' = placed /\ Len(text') = n
    BY <1>3, <1>4, <1>9 DEF PutOnScreen, placed
  <2>2. Gone' = Gone
    BY <2>1 DEF Gone
  <2>3. column + 1 = Len(text'[n])
    BY <1>2, <1>7, <1>9
  <2>4. TerminalTypeOK'
    <3>1. text' # <<>>
      <4>1. Len(text') # 0 /\ Len(<<>>) = 0
        BY <1>12, <2>1
      <4> QED BY <4>1
    <3>2. Cell' \in Cells
      BY <1>12, <1>9, <2>1 DEF Cells, Cell
    <3> QED BY <1>4, <1>5, <2>1, <3>1, <3>2 DEF TerminalTypeOK, Cells, TerminalInv
  <2>5. ScreenShowsText'
    BY <1>2, <1>8, <2>1, <2>2, <2>3 DEF ScreenShowsText, Row
  <2> QED BY <2>4, <2>5 DEF TerminalInv
<1>10. CASE ends /\ row + 1 # H
  <2>1. /\ term_current_column' = 0 /\ term_current_row' = row + 1
        /\ term_buffer' = placed /\ Len(text') = n + 1
    BY <1>3, <1>4, <1>10 DEF PutOnScreen, placed
  <2>2. Gone = 0 /\ Gone' = 0
    BY <1>12, <1>10, <2>1 DEF Gone
  <2>3. TerminalTypeOK'
    <3>1. text' # <<>>
      BY <1>2, <2>1
    <3>2. Cell' \in Cells
      BY <1>12, <1>10, <2>1 DEF Cells, Cell
    <3> QED BY <1>4, <1>5, <2>1, <3>1, <3>2 DEF TerminalTypeOK, Cells, TerminalInv
  <2>4. ASSUME NEW y \in 0 .. H - 1, NEW x \in 0 .. W - 1
        PROVE  term_buffer'[<<y, x>>] =
                 IF y <= row + 1 /\ x < Len(text'[y + 1])
                   THEN text'[y + 1][x + 1] ELSE Blank
    <3>3. Len(<<>>) = 0 /\ (y # row + 1 => (y <= row + 1 <=> y <= row))
      BY <2>4, <1>12
    <3>4. placed[<<y, x>>] = IF y <= row /\ x < Len(text'[y + 1])
                               THEN text'[y + 1][x + 1] ELSE Blank
      BY <2>4, <1>12, <1>8, <2>2
    <3>5. term_buffer' = placed
      BY <2>1
    <3>1. CASE y = row + 1
      <4>1. y + 1 = n + 1 /\ ~(y <= row) /\ x \in Nat
        BY <2>4, <1>12, <2>2, <3>1
      <4>2. text'[y + 1] = <<>> /\ ~(x < 0)
        BY <1>10, <1>14, <4>1
      <4> QED BY <3>3, <3>4, <3>5, <4>1, <4>2
    <3>2. CASE y # row + 1
      BY <3>2, <3>3, <3>4, <3>5
    <3> QED BY <3>1, <3>2
  <2>5. ScreenShowsText'
    BY <1>12, <1>4, <1>10, <2>1, <2>2, <2>4 DEF ScreenShowsText, Row
  <2> QED BY <2>3, <2>5 DEF TerminalInv
<1>11. CASE ends /\ row + 1 = H
  <2>1. /\ term_current_column' = 0 /\ term_current_row' = row
        /\ term_buffer' = Scrolled(placed) /\ Len(text') = n + 1
    BY <1>3, <1>4, <1>11 DEF PutOnScreen, placed
  <2>2. Gone' = Gone + 1 /\ n = Gone + H
    BY <1>12, <1>11, <2>1 DEF Gone
  <2>3. Scrolled(placed) \in [Cells -> Glyphs \union {Blank}]
    <3>1. ASSUME NEW cell \in Cells, cell[1] < H - 1
          PROVE  <<cell[1] + 1, cell[2]>> \in Cells
      BY <1>1, <3>1 DEF Cells
    <3> QED BY <1>5, <3>1 DEF Scrolled
  <2>4. TerminalTypeOK'
    <3>1. text' # <<>>
      BY <1>2, <2>1
    <3>2. Cell' \in Cells
      BY <1>12, <2>1 DEF Cells, Cell
    <3> QED BY <1>4, <2>1, <2>3, <3>1, <3>2 DEF TerminalTypeOK, Cells, TerminalInv
  <2>5. ASSUME NEW y \in 0 .. H - 1, NEW x \in 0 .. W - 1
        PROVE  term_buffer'[<<y, x>>] =
                 IF y <= row /\ x < Len(text'[Gone + 1 + y + 1])
                   THEN text'[Gone + 1 + y + 1][x + 1] ELSE Blank
    <3>1. <<y, x>> \in Cells
      BY DEF Cells
    <3>2. CASE y = H - 1
      <4>1. term_buffer'[<<y, x>>] = Blank
        BY <2>1, <3>1, <3>2 DEF Scrolled
      <4>2. Len(text'[Gone + 1 + y + 1]) = 0
        BY <1>12, <1>4, <1>11, <2>2, <3>2
      <4> QED BY <4>1, <4>2
    <3>3. CASE y # H - 1
      <4>1. term_buffer'[<<y, x>>] = placed[<<y + 1, x>>]
        BY <1>1, <2>1, <3>1, <3>3 DEF Scrolled
      <4>2. y + 1 \in 0 .. H - 1 /\ y + 1 <= row /\ y <= row
        BY <2>5, <1>12, <1>11, <3>3
      <4>3. placed[<<y + 1, x>>] =
              IF y + 1 <= row /\ x < Len(text'[Gone + (y + 1) + 1])
                THEN text'[Gone + (y + 1) + 1][x + 1] ELSE Blank
        BY <2>5, <1>8, <4>2
      <4>4. Gone + (y + 1) + 1 = Gone + 1 + y + 1
        <5>1. y \in Int /\ Gone \in Int
          BY <2>5, <1>12
        <5> QED BY <5>1
      <4> QED BY <4>1, <4>2, <4>3, <4>4
    <3> QED BY <3>2, <3>3
  <2>6. ScreenShowsText'
    BY <1>1, <1>2, <1>4, <1>11, <2>1, <2>2, <2>5 DEF ScreenShowsText, Row
  <2> QED BY <2>4, <2>6 DEF TerminalInv
<1> QED BY <1>9, <1>10, <1>11

(* A character erased. *)
LEMMA ClearPreservesInv ==
  ASSUME TerminalInv, term_clear_last_char
  PROVE  TerminalInv'
<1> DEFINE row == term_current_row
           column == term_current_column
           n == Len(text)
<1>1. /\ VGA_WIDTH \in Nat /\ VGA_HEIGHT \in Nat /\ n \in Nat /\ Gone \in Nat
      /\ row \in 0 .. VGA_HEIGHT - 1 /\ column \in 0 .. VGA_WIDTH - 1
      /\ Gone + row + 1 = n
  BY TerminalAssumption
  DEF TerminalInv, TerminalTypeOK, ScreenShowsText, Cells, Cell, Gone
<1>2. /\ term_buffer \in [Cells -> Glyphs \union {Blank}]
      /\ is_debug_output \in BOOLEAN
      /\ text \in Seq(Seq(Glyphs)) /\ text # <<>>
      /\ column = Len(Row)
  BY DEF TerminalInv, TerminalTypeOK, ScreenShowsText
<1>3. CASE column < 2
  <2>1. UNCHANGED terminalVars
    <3>1. TextWithoutLast = text
      BY <1>2, <1>3 DEF TextWithoutLast
    <3> QED BY <1>1, <1>3, <3>1 DEF term_clear_last_char, Erasable, terminalVars
  <2> QED BY <2>1
      DEF TerminalInv, TerminalTypeOK, ScreenShowsText, Gone, Row, Cell, terminalVars
<1>4. CASE column >= 2
  <2>1. /\ term_buffer' = [term_buffer EXCEPT ![<<row, column - 1>>] = Blank]
        /\ term_current_column' = column - 1
        /\ term_current_row' = row
        /\ is_debug_output' = is_debug_output
        /\ text' = TextWithoutLast
    BY <1>1, <1>4, TerminalAssumption DEF term_clear_last_char, Erasable, PutCharAt
  <2>2. /\ text' \in Seq(Seq(Glyphs))
        /\ Len(text') = n
        /\ \A i \in 1 .. n - 1 : text'[i] = text[i]
        /\ Len(text'[n]) = column - 1
        /\ \A j \in 1 .. column - 1 : text'[n][j] = Row[j]
    BY <1>1, <1>2, <1>4, <2>1, ShortenedRow
  <2>3. Gone' = Gone
    BY <2>2 DEF Gone
  <2>4. TerminalTypeOK'
    <3>1. text' # <<>>
      <4>1. Len(text') # 0 /\ Len(<<>>) = 0
        BY <1>1, <2>2
      <4> QED BY <4>1
    <3>2. Cell' \in Cells
      BY <1>1, <1>4, <2>1 DEF Cells, Cell
    <3> QED BY <1>2, <2>1, <2>2, <3>1, <3>2 DEF TerminalTypeOK
  <2>5. ASSUME NEW y \in 0 .. VGA_HEIGHT - 1, NEW x \in 0 .. VGA_WIDTH - 1
        PROVE  term_buffer'[<<y, x>>] =
                 IF y <= row /\ x < Len(text'[Gone + y + 1])
                   THEN text'[Gone + y + 1][x + 1] ELSE Blank
    <3>1. term_buffer[<<y, x>>] =
            IF y <= row /\ x < Len(text[Gone + y + 1])
              THEN text[Gone + y + 1][x + 1] ELSE Blank
      BY DEF TerminalInv, ScreenShowsText
    <3>2. <<y, x>> \in Cells
      BY DEF Cells
    <3>3. term_buffer'[<<y, x>>] = IF y = row /\ x = column - 1
                                     THEN Blank ELSE term_buffer[<<y, x>>]
      BY <1>2, <2>1, <3>2
    <3>4. CASE y = row
      <4>1. Gone + y + 1 = n /\ x \in Nat /\ y <= row
        BY <1>1, <2>5, <3>4
      <4>2. x < column - 1 => text'[n][x + 1] = Row[x + 1]
        <5>1. x < column - 1 => x + 1 \in 1 .. column - 1
          BY <1>1, <4>1
        <5> QED BY <2>2, <5>1
      <4>3. term_buffer[<<y, x>>] = IF x < column THEN Row[x + 1] ELSE Blank
        BY <1>2, <3>1, <4>1 DEF Row
      <4> QED BY <1>1, <2>2, <3>3, <3>4, <4>1, <4>2, <4>3
    <3>5. CASE y < row
      <4>1. Gone + y + 1 \in 1 .. n - 1 /\ y # row
        BY <1>1, <2>5, <3>5
      <4>2. text'[Gone + y + 1] = text[Gone + y + 1]
        BY <2>2, <4>1
      <4> QED BY <3>1, <3>3, <4>1, <4>2
    <3>6. CASE y > row
      <4>1. y # row /\ ~(y <= row)
        BY <1>1, <2>5, <3>6
      <4> QED BY <3>1, <3>3, <4>1
    <3> QED BY <1>1, <2>5, <3>4, <3>5, <3>6
  <2>6. /\ row = Len(text') - 1 - Gone'
        /\ column - 1 = Len(text'[Len(text')])
    <3>1. Len(text') = n
      BY <2>2
    <3>2. Len(text'[n]) = column - 1
      BY <2>2
    <3>3. row = n - 1 - Gone
      BY <1>1
    <3> QED BY <2>3, <3>1, <3>2, <3>3
  <2>7. ScreenShowsText'
    BY <2>1, <2>3, <2>5, <2>6 DEF ScreenShowsText, Row
  <2> QED BY <2>4, <2>7 DEF TerminalInv
<1> QED BY <1>1, <1>3, <1>4
-----------------------------------------------------------------------------
(* A step of the terminal by itself, or of the modules that print on it.   *)
LEMMA StepPreservesInv ==
  ASSUME TerminalInv, [TerminalNext]_terminalVars
  PROVE  TerminalInv'
<1>1. ASSUME UNCHANGED terminalVars PROVE TerminalInv'
  BY <1>1
  DEF TerminalInv, TerminalTypeOK, ScreenShowsText, Gone, Row, Cell, terminalVars
<1>2. ASSUME NEW c \in Characters, term_put_char(c) PROVE TerminalInv'
  <2>1. CASE is_debug_output
    BY <1>1, <1>2, <2>1 DEF term_put_char, terminalVars
  <2>2. CASE ~is_debug_output
    <3>1. PutOnScreen(c) /\ is_debug_output' = is_debug_output
      BY <1>2, <2>2 DEF term_put_char
    <3> QED BY <3>1, PutOnScreenPreservesInv
  <2> QED BY <2>1, <2>2
<1>3. ASSUME term_clear_last_char PROVE TerminalInv'
  BY <1>3, ClearPreservesInv
<1>4. ASSUME NEW d \in BOOLEAN, set_debug_output(d) PROVE TerminalInv'
  <2>1. UNCHANGED <<term_buffer, term_current_row, term_current_column, text>>
    BY <1>4 DEF set_debug_output
  <2> QED BY <1>4, <2>1
      DEF TerminalInv, TerminalTypeOK, ScreenShowsText, Gone, Row, Cell, set_debug_output
<1> QED BY <1>1, <1>2, <1>3, <1>4 DEF TerminalNext

(* TerminalInv is an invariant of the terminal. *)
THEOREM TerminalInvariant == TerminalSpec => []TerminalInv
<1>1. TerminalInv /\ [TerminalNext]_terminalVars => TerminalInv'
  BY StepPreservesInv
<1> QED BY InitEstablishesInv, <1>1, PTL DEF TerminalSpec

(* Type correctness: the cursor never leaves the screen (c/term.c:94-106). *)
THEOREM TerminalTypeCorrect == TerminalSpec => []TerminalTypeOK
<1>1. TerminalInv => TerminalTypeOK
  BY DEF TerminalInv
<1> QED BY <1>1, TerminalInvariant, PTL

(* The screen is a window on the text printed, for every screen size and   *)
(* every text (c/term.c:81-154).                                           *)
THEOREM ScreenIsWindow == TerminalSpec => []ScreenShowsText
<1>1. TerminalInv => ScreenShowsText
  BY DEF TerminalInv
<1> QED BY <1>1, TerminalInvariant, PTL

(* No old character remains from the cursor on (c/term.c:119-126, 147).    *)
THEOREM NothingAfterCursor == TerminalSpec => []BlankAfterCursor
<1>1. TerminalInv => BlankAfterCursor
  <2> SUFFICES ASSUME TerminalInv,
                      NEW y \in 0 .. VGA_HEIGHT - 1, NEW x \in 0 .. VGA_WIDTH - 1,
                      \/ y > term_current_row
                      \/ y = term_current_row /\ x >= term_current_column
               PROVE  term_buffer[<<y, x>>] = Blank
    BY DEF BlankAfterCursor
  <2>1. /\ term_current_row \in 0 .. VGA_HEIGHT - 1
        /\ term_current_column \in 0 .. VGA_WIDTH - 1
        /\ VGA_HEIGHT \in Nat /\ VGA_WIDTH \in Nat
        /\ Len(text) \in Nat /\ Gone \in Nat
    BY TerminalAssumption DEF TerminalInv, TerminalTypeOK, Cells, Cell, Gone
  <2>2. /\ term_current_row = Len(text) - 1 - Gone
        /\ term_current_column = Len(Row)
        /\ term_buffer[<<y, x>>] =
             IF y <= term_current_row /\ x < Len(text[Gone + y + 1])
               THEN text[Gone + y + 1][x + 1] ELSE Blank
    BY DEF TerminalInv, ScreenShowsText
  <2>3. CASE y > term_current_row
    BY <2>1, <2>2, <2>3
  <2>4. CASE y = term_current_row /\ x >= term_current_column
    <3>1. text[Gone + y + 1] = Row
      BY <2>1, <2>2, <2>4 DEF Row
    <3> QED BY <2>1, <2>2, <2>4, <3>1
  <2> QED BY <2>3, <2>4
<1> QED BY <1>1, TerminalInvariant, PTL
=============================================================================
