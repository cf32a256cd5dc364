------------------------------ MODULE Console ------------------------------
(***************************************************************************)
(* The text screen of OmochaOS (driver/graphic.c): what TaskTTY writes,    *)
(* and the kernel while it boots, below the logo, a character at a time,   *)
(* from the last row on at the top again.  One character cell of the frame *)
(* buffer is one place of `screen'.                                        *)
(***************************************************************************)
EXTENDS Integers, Sequences

CONSTANTS
  disp_width, disp_height,  \* in pixels
  LOGO_Y,                   \* rows of pixels of the logo, 102
  Font,                     \* characters that have a bitmap
  Text,                     \* characters that are written
  MaxText                   \* bound on how many

FONT_WIDTH == 8
FONT_HEIGHT == 13
FONT_GAP_X == 1

\* __GRAPHIC_init
char_width   == disp_width \div (FONT_WIDTH + FONT_GAP_X)
char_height  == disp_height \div FONT_HEIGHT
char_y_start == (LOGO_Y + 2 + FONT_HEIGHT) \div FONT_HEIGHT

ASSUME ConsoleAssumption ==
  /\ disp_width \in Nat /\ disp_height \in Nat /\ LOGO_Y \in Nat
  /\ char_width > 0 /\ char_y_start < char_height

VARIABLES
  char_x, char_y,  \* the next place
  screen,
  line,            \* what was written since the last end of a line, and not erased
  written          \* how many characters so far

cvars == <<char_x, char_y, screen, line, written>>

Cell == (0..(char_width - 1)) \X (0..(char_height - 1))

ConsoleInit ==
  /\ char_x = 0 /\ char_y = char_y_start
  /\ screen = [c \in Cell |-> "old"]
  /\ line = << >> /\ written = 0

\* put_bitmap of a glyph: at (x, y), also where that is not a place of the screen.
Draw(x, y, glyph) == screen' = [c \in Cell \cup {<<x, y>>} |-> IF c = <<x, y>> THEN glyph ELSE screen[c]]
Glyph(c) == IF c \in Font THEN c ELSE "block"

\* The row below, the first under the logo after the last (mutant: one too late).
RowBelowLate(y) == IF y + 1 > char_height THEN char_y_start ELSE y + 1
RowBelow(y) == IF y + 1 >= char_height THEN char_y_start ELSE y + 1

NewLine ==
  /\ char_x' = 0 /\ char_y' = RowBelow(char_y)
  /\ line' = << >>
  /\ UNCHANGED screen

\* To the place before, wherever the line above it ended, even into the logo.
Backspace ==
  /\ char_x' = IF char_x = 0 THEN char_width - 1 ELSE char_x - 1
  /\ char_y' = IF char_x = 0 /\ char_y # 0 THEN char_y - 1 ELSE char_y
  /\ Draw(char_x', char_y', " ")
  /\ line' = SubSeq(line, 1, Len(line) - 1)

Put(c) ==
  LET full == char_x + 1 >= char_width IN
  /\ Draw(char_x, char_y, Glyph(c))
  /\ char_x' = IF full THEN 0 ELSE char_x + 1
  /\ char_y' = IF full THEN RowBelow(char_y) ELSE char_y
  /\ line' = IF full /\ char_y' # char_y + 1 THEN << >> ELSE Append(line, Glyph(c))

\* One character of write_console or kprintf
kputc_color(c) ==
  /\ written < MaxText /\ written' = written + 1
  /\ CASE c = "newline" -> NewLine
       [] c = "backspace" -> Backspace
       [] OTHER    -> Put(c)

ConsoleNext == \E c \in Text : kputc_color(c)

ConsoleSpec == ConsoleInit /\ [][ConsoleNext]_cvars

-----------------------------------------------------------------------------
(* Properties *)

\* Nothing is drawn beside the screen, and what was written since the last end of
\* a line stands before the cursor in order, over as many rows as it takes, with
\* what was erased gone.
ShowsTheText ==
  /\ DOMAIN screen = Cell /\ <<char_x, char_y>> \in Cell
  /\ \A k \in 1..Len(line) :
       LET at == char_y * char_width + char_x - k IN
       screen[<<at % char_width, at \div char_width>>] = line[Len(line) + 1 - k]
=============================================================================
