------------------------------ MODULE Terminal ------------------------------
(***************************************************************************)
(* The text screen (c/term.c): the cells of the VGA buffer, the cursor,    *)
(* what term_put_char and term_clear_last_char do to them, and the switch  *)
(* by which debug_f sends characters to the serial port instead.           *)
(*                                                                         *)
(* A cell is known by its row and column, not by its offset in the buffer, *)
(* and holds a character; the colour, which is one and the same, is left   *)
(* out.                                                                    *)
(***************************************************************************)
EXTENDS Integers, Sequences

CONSTANTS
  VGA_WIDTH,   \* columns: 80
  VGA_HEIGHT,  \* rows: 25
  Blank,       \* the character ' '
  Newline,     \* the character '\n'
  Glyphs,      \* the characters printed, other than '\n'
  MaxRows      \* bound: rows of text printed

(* term_clear_last_char needs a row of two cells, term_put_char a row.     *)
ASSUME TerminalAssumption ==
  /\ VGA_WIDTH \in Nat /\ 2 <= VGA_WIDTH
  /\ VGA_HEIGHT \in Nat /\ 1 <= VGA_HEIGHT
  /\ Newline \notin Glyphs /\ Newline # Blank
  /\ MaxRows \in Nat

VARIABLES
  term_buffer,         \* term_buffer[y, x]: the character in column x of row y
  term_current_row,
  term_current_column,
  is_debug_output,     \* TRUE while debug_f prints
  text                 \* history: the rows printed, the one being printed last

terminalVars == <<term_buffer, term_current_row, term_current_column,
                  is_debug_output, text>>

Characters == Glyphs \union {Newline}
Cells == (0 .. VGA_HEIGHT - 1) \X (0 .. VGA_WIDTH - 1)
Cell == <<term_current_row, term_current_column>>
-----------------------------------------------------------------------------
initalize_terminal ==
  /\ term_buffer = [cell \in Cells |-> Blank]
  /\ term_current_row = 0
  /\ term_current_column = 0
  /\ is_debug_output = FALSE
  /\ text = <<<<>>>>

(* The text after one more character: a row is closed by '\n' or by its    *)
(* last cell.                                                              *)
Row == text[Len(text)]
Written(c) == [text EXCEPT ![Len(text)] = Append(@, c)]
TextWith(c) ==
  IF c = Newline THEN Append(text, <<>>)
  ELSE IF Len(Row) + 1 = VGA_WIDTH THEN Append(Written(c), <<>>)
  ELSE Written(c)

(* The text without its last character; a row keeps its first, which       *)
(* term_clear_last_char leaves alone.                                      *)
TextWithoutLast ==
  IF Len(Row) < 2 THEN text
  ELSE [text EXCEPT ![Len(text)] = SubSeq(@, 1, Len(@) - 1)]

(* The column after c; VGA_WIDTH when c ends the row. *)
NextColumn(c) == IF c = Newline THEN VGA_WIDTH ELSE term_current_column + 1
EndsRow_Late(c) == NextColumn(c) > VGA_WIDTH
EndsRow(c) == NextColumn(c) = VGA_WIDTH

(* term_put_char_at *)
PutCharAt(c, cell) ==
  IF c = Newline THEN term_buffer ELSE [term_buffer EXCEPT ![cell] = c]

Scrolled_FromTheTop(buffer) ==
  [cell \in Cells |-> IF cell[1] < VGA_HEIGHT - 1 THEN buffer[cell] ELSE Blank]

(* Every row moves up and the last one is cleared. *)
Scrolled(buffer) ==
  [cell \in Cells |-> IF cell[1] < VGA_HEIGHT - 1
                        THEN buffer[<<cell[1] + 1, cell[2]>>] ELSE Blank]

(* The character goes to the screen. *)
PutOnScreen(c) ==
  LET lastRow == term_current_row + 1 = VGA_HEIGHT
      placed == PutCharAt(c, Cell)
  IN /\ term_current_column' = IF EndsRow(c) THEN 0 ELSE NextColumn(c)
     /\ term_current_row' = IF EndsRow(c) /\ ~lastRow
                              THEN term_current_row + 1 ELSE term_current_row
     /\ term_buffer' = IF EndsRow(c) /\ lastRow THEN Scrolled(placed) ELSE placed
     /\ text' = TextWith(c)

(* While debug_f prints, the character goes to serial_write. *)
term_put_char(c) ==
  /\ IF is_debug_output
       THEN UNCHANGED <<term_buffer, term_current_row, term_current_column, text>>
       ELSE PutOnScreen(c)
  /\ UNCHANGED is_debug_output

Erasable_FromThird(column) == column > 1

(* The first character of a row is not erased, nor any of the row before. *)
Erasable(column) == column > 0

(* The character before the cursor is blanked. *)
term_clear_last_char ==
  LET column == term_current_column - 1 IN
  /\ IF Erasable(column)
       THEN /\ term_buffer' = PutCharAt(Blank, <<term_current_row, column>>)
            /\ term_current_column' = column
       ELSE UNCHANGED <<term_buffer, term_current_column>>
  /\ text' = TextWithoutLast
  /\ UNCHANGED <<term_current_row, is_debug_output>>

(* debug_f turns it on, prints and turns it off. *)
set_debug_output(d) ==
  /\ is_debug_output' = d
  /\ UNCHANGED <<term_buffer, term_current_row, term_current_column, text>>
-----------------------------------------------------------------------------
TerminalNext ==
  \/ \E c \in Characters : Len(text) < MaxRows /\ term_put_char(c)
  \/ ~is_debug_output /\ term_clear_last_char
  \/ \E d \in BOOLEAN : set_debug_output(d)

TerminalSpec == initalize_terminal /\ [][TerminalNext]_terminalVars
-----------------------------------------------------------------------------
(* Types; in particular the cursor is always on the screen, so that the    *)
(* next character is written inside the VGA buffer.                        *)
TerminalTypeOK ==
  /\ term_buffer \in [Cells -> Glyphs \union {Blank}]
  /\ Cell \in Cells
  /\ is_debug_output \in BOOLEAN
  /\ text \in Seq(Seq(Glyphs)) /\ text # <<>>

(* Everything from the cursor on is blank: no scroll, line end or erasing  *)
(* leaves old characters where the next ones, or none, will be written.    *)
BlankAfterCursor ==
  \A y \in 0 .. VGA_HEIGHT - 1 : \A x \in 0 .. VGA_WIDTH - 1 :
    \/ y > term_current_row
    \/ y = term_current_row /\ x >= term_current_column
    => term_buffer[<<y, x>>] = Blank

(* Rows of the text that have left the screen. *)
Gone == IF Len(text) > VGA_HEIGHT THEN Len(text) - VGA_HEIGHT ELSE 0

(* The screen is a window on the text printed: it shows the last           *)
(* VGA_HEIGHT rows of it, each from its first column, and the cursor       *)
(* stands where the text ends.                                             *)
ScreenShowsText ==
  /\ term_current_row = Len(text) - 1 - Gone
  /\ term_current_column = Len(Row)
  /\ \A y \in 0 .. VGA_HEIGHT - 1 : \A x \in 0 .. VGA_WIDTH - 1 :
       term_buffer[<<y, x>>] =
         IF y <= term_current_row /\ x < Len(text[Gone + y + 1])
           THEN text[Gone + y + 1][x + 1] ELSE Blank
=============================================================================
