-------------------------------- MODULE Oled --------------------------------
(***************************************************************************)
(* 07_miniproj/oled: ssd1306.c sends commands and data to the display, two *)
(* bytes per write, and main.c has it show a few texts.  A write that      *)
(* fails is reported and not repeated.  The display, the other end of the  *)
(* bus, has a memory of rows and columns and a pointer into it, which a    *)
(* byte of data moves on to the next column, from the last to the first.   *)
(***************************************************************************)
EXTENDS Integers, Sequences

CONSTANTS
  Lines,        \* the texts, one per row from row 0 on, as sequences of characters
  Space,        \* the character " "
  Rows,         \* 8 rows ...
  RowChars,     \* ... of 16 characters ...
  CharWidth,    \* ... of 8 columns
  Nibble,       \* 16: a column is sent in two halves
  MaxFailures   \* bound: writes that fail

\* What the constants have to be; whoever gives them values assumes it.
OledAssumption ==
  /\ Rows \in Nat \ {0} /\ RowChars \in Nat \ {0} /\ CharWidth \in Nat \ {0}
  /\ Nibble \in Nat \ {0} /\ RowChars * CharWidth <= Nibble * Nibble
  /\ Len(Lines) \in 0..Rows /\ \A n \in 1..Len(Lines) : Len(Lines[n]) \in 0..RowChars
  /\ MaxFailures \in Nat

VARIABLES
  opened,    \* did ssd1306_init open the bus?
  part,      \* what the program is sending:
             \*   "init": the commands of ssd1306_init; "off": the first of clear_display
             \*   "clear": blanks, for one row; "home": the last ones of clear_display
             \*   "lines": a text, by main; "ended": no more
  row,       \* the row the program means to write
  written,   \* the messages of that part that it has sent
  page, column, on, screen,   \* the display
  failures,  \* failed writes
  hit        \* the rows a failure may show in

progress == <<part, row, written>>
display == <<page, column, on, screen>>

ovars == <<opened, progress, display, failures, hit>>

Width == RowChars * CharWidth

-----------------------------------------------------------------------------
(* The messages of each function *)

\* (mutant) the column is not set
SetPositionRow(c, r) == << <<"page", r>> >>

SetPosition(c, r) ==
  << <<"page", r>>, <<"low", (CharWidth * c) % Nibble>>,
     <<"high", ((CharWidth * c) \div Nibble) % Nibble>> >>

\* Column n of a character; data are what the font has there.
Glyph(char, n) == <<char, n>>

Puts(str) ==
  [n \in 1..(Len(str) * CharWidth) |->
     <<"data", Glyph(str[((n - 1) \div CharWidth) + 1], ((n - 1) % CharWidth) + 1)>>]

Blank == [n \in 1..RowChars |-> Space]

\* Of the other commands (contrast, clock and so on) only one is kept.
InitCommands ==
  << <<"off", 0>>, <<"low", 0>>, <<"high", 0>>, <<"page", 0>>, <<"setup", 0>>, <<"on", 0>> >>

Messages ==
  CASE part = "init" -> InitCommands
    [] part = "off" -> << <<"off", 0>> >>
    [] part = "clear" -> SetPosition(0, row) \o Puts(Blank)
    [] part = "home" -> << <<"on", 0>> >> \o SetPosition(0, 0)
    [] part = "lines" -> SetPosition(0, row) \o Puts(Lines[row + 1])
    [] part = "ended" -> <<>>

\* The loop of clear_display, and the texts of main, one after the other.
ClearFrom(r) == IF r < Rows THEN <<"clear", r>> ELSE <<"home", 0>>
LinesFrom(r) == IF r < Len(Lines) THEN <<"lines", r>> ELSE <<"ended", 0>>

\* What the program sends next, and to which row.
Following ==
  CASE part = "init" -> <<"off", 0>>
    [] part = "off" -> ClearFrom(0)
    [] part = "clear" -> ClearFrom(row + 1)
    [] part = "home" -> LinesFrom(0)
    [] part = "lines" -> LinesFrom(row + 1)

\* main goes on when ssd1306_init could not open the bus: it has sent nothing then.
Init ==
  /\ opened \in BOOLEAN
  /\ LET first == IF opened THEN <<"init", 0>> ELSE LinesFrom(0)
     IN  part = first[1] /\ row = first[2]
  /\ written = 0
  /\ page = 0 /\ column = 0 /\ on = FALSE
  /\ screen = [r \in 0..(Rows - 1) |-> [c \in 0..(Width - 1) |-> <<"noise", 0>>]]
  /\ failures = 0 /\ hit = {}

-----------------------------------------------------------------------------
(* send_command and send_data, and what the display does *)

Message == Messages[written + 1]

Proceed ==
  IF written + 1 < Len(Messages)
  THEN written' = written + 1 /\ UNCHANGED <<part, row>>
  ELSE written' = 0 /\ part' = Following[1] /\ row' = Following[2]

Received ==
  /\ opened /\ part # "ended"
  /\ page' = IF Message[1] = "page" THEN Message[2] ELSE page
  /\ column' = CASE Message[1] = "low" -> (column \div Nibble) * Nibble + Message[2]
                 [] Message[1] = "high" -> Message[2] * Nibble + (column % Nibble)
                 [] Message[1] = "data" -> (column + 1) % Width
                 [] OTHER -> column
  /\ on' = CASE Message[1] = "on" -> TRUE [] Message[1] = "off" -> FALSE [] OTHER -> on
  /\ screen' = IF Message[1] = "data" THEN [screen EXCEPT ![page][column] = Message[2]] ELSE screen
  /\ Proceed
  /\ UNCHANGED <<opened, failures, hit>>

\* The write fails: the message is gone.
Lost ==
  /\ part # "ended"
  /\ IF opened THEN failures < MaxFailures /\ failures' = failures + 1 ELSE UNCHANGED failures
  /\ hit' = IF Message[1] \in {"page", "low", "high", "data"} THEN hit \union {page, row} ELSE hit
  /\ Proceed
  /\ UNCHANGED <<opened, display>>

Next == Received \/ Lost

Spec == Init /\ [][Next]_ovars

-----------------------------------------------------------------------------
(* Properties *)

\* Type invariant; the pointer of the display stays inside its memory.
TypeOK ==
  /\ part \in {"init", "off", "clear", "home", "lines", "ended"}
  /\ part # "ended" => written \in 0..(Len(Messages) - 1)
  /\ page \in 0..(Rows - 1) /\ row \in 0..(Rows - 1)
  /\ column \in 0..(Width - 1)
  /\ failures \in 0..MaxFailures /\ hit \subseteq 0..(Rows - 1)

\* What a row has to show: its text and spaces behind it.
Expected(r) ==
  [c \in 0..(Width - 1) |->
     LET n == (c \div CharWidth) + 1
     IN  Glyph(IF r < Len(Lines) /\ n <= Len(Lines[r + 1]) THEN Lines[r + 1][n] ELSE Space,
               (c % CharWidth) + 1)]

\* A failed write does no harm beyond its row (and, if it was to select a row, the one
\* that was selected before): in the end every other row shows its text, from its
\* first column, and blanks behind it, and without any failure the display is on.
DamageContained ==
  opened /\ part = "ended" =>
    /\ \A r \in 0..(Rows - 1) : r \notin hit => screen[r] = Expected(r)
    /\ failures = 0 => on
=============================================================================
