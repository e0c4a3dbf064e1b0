--------------------------------- MODULE Lcd ---------------------------------
(***************************************************************************)
(* The driver of the character display, src/lcd_spiModule.c, as remote.c   *)
(* uses it: for each line lcd_set_cursor, one or two texts, lcd_clear_eol. *)
(* The controller behind the SPI has a cell for each address and moves on  *)
(* by itself; the driver counts columns in xpos, and nothing compares the  *)
(* two. A text is named, and the content of a cell is a place in a text.   *)
(***************************************************************************)
EXTENDS Naturals

CONSTANTS
  line_MAX, chr_MAX,   \* 4 and 20 in the code
  Width,               \* how many characters the driver sends of each text
  Lines                \* the pairs of texts that remote.c sends to a line

Texts == DOMAIN Width

\* The texts of remote.c fit in a line, and lcd_print cuts what it formats. The
\* addresses of a line begin 32 after those of the line before.
ASSUME LcdAssumption ==
  /\ line_MAX \in Nat \ {0}
  /\ chr_MAX \in 1 .. 32
  /\ Width \in [Texts -> Nat]
  /\ Lines \subseteq Texts \X Texts
  /\ \A l \in Lines : Width[l[1]] + Width[l[2]] <= chr_MAX

VARIABLES
  cells,     \* external: what the controller shows at each address
  address,   \* external: where it puts the next character
  xpos,
  pc,        \* where the UI thread is
  line,      \* the line that it writes, and
  texts,     \* what it puts there
  i,         \* characters sent of the present text
  content    \* the pair that each line got last, or Blank (history)

vars == <<cells, address, xpos, pc, line, texts, i, content>>

Rows == 1 .. line_MAX
Columns == 1 .. chr_MAX
cursor_data(line_x, chr_x) == 32 * (line_x - 1) + (chr_x - 1)
Addresses == 0 .. 32 * line_MAX

\* What a cell shows, and what a line shows that was never written.
Space == <<>>
Blank == <<>>
Symbols == (Texts \X Nat) \cup {Space}

TypeOK ==
  /\ cells \in [Addresses -> Symbols]
  /\ address \in Addresses
  /\ xpos \in 0 .. chr_MAX + 1
  /\ pc \in {"init", "idle", "first", "second", "clear"}
  /\ line \in Rows
  /\ texts \in Lines
  /\ i \in Nat
  /\ content \in [Rows -> Lines \cup {Blank}]

\* Before lcd_init, the cells hold anything.
Init ==
  /\ \E symbol \in (Texts \X {1}) \cup {Space} :
       cells = [a \in Addresses |-> symbol]
  /\ address = 0
  /\ xpos = 0
  /\ pc = "init"
  /\ line = 1
  /\ texts \in Lines
  /\ i = 0
  /\ content = [l \in Rows |-> Blank]

-----------------------------------------------------------------------------
\* lcd_init, in the main thread: the display is cleared and the address is set to
\* zero. The UI thread waits for lcd_ini_ok.
LcdInit ==
  /\ pc = "init"
  /\ cells' = [a \in Addresses |-> Space]
  /\ address' = 0
  /\ pc' = "idle"
  /\ UNCHANGED <<xpos, line, texts, i, content>>

\* lcd_write_data, and what the controller does with it.
WriteData(symbol) ==
  /\ cells' = [cells EXCEPT ![address] = symbol]
  /\ address' = address + 1

\* lcd_set_cursor
SetCursor(line_x, chr_x) ==
  IF line_x \in Rows /\ chr_x \in Columns
    THEN address' = cursor_data(line_x, chr_x) /\ xpos' = chr_x
    ELSE UNCHANGED <<address, xpos>>

StartLine ==
  /\ pc = "idle"
  /\ line' \in Rows
  /\ SetCursor(line', 1)
  /\ texts' \in Lines
  /\ pc' = "first"
  /\ UNCHANGED <<cells, i, content>>

Text == IF pc = "first" THEN texts[1] ELSE texts[2]

\* lcd_send_string, a turn of its loop ...
SendChar ==
  /\ pc \in {"first", "second"}
  /\ i < Width[Text]
  /\ WriteData(<<Text, i + 1>>)
  /\ xpos' = xpos + 1
  /\ i' = i + 1
  /\ UNCHANGED <<pc, line, texts, content>>

\* ... and its end.
SendEnd ==
  /\ pc \in {"first", "second"}
  /\ i = Width[Text]
  /\ i' = 0
  /\ pc' = IF pc = "first" THEN "second" ELSE "clear"
  /\ UNCHANGED <<cells, address, xpos, line, texts, content>>

\* Mutants: the last column is left out; there is one more.
WithinLineShort == xpos < chr_MAX
WithinLineLong == xpos <= chr_MAX + 1

WithinLine == xpos <= chr_MAX

\* lcd_clear_eol
ClearChar ==
  /\ pc = "clear"
  /\ WithinLine
  /\ WriteData(Space)
  /\ xpos' = xpos + 1
  /\ UNCHANGED <<pc, line, texts, i, content>>

ClearEnd ==
  /\ pc = "clear"
  /\ ~WithinLine
  /\ pc' = "idle"
  /\ content' = [content EXCEPT ![line] = texts]
  /\ UNCHANGED <<cells, address, xpos, line, texts, i>>

Next == LcdInit \/ StartLine \/ SendChar \/ SendEnd \/ ClearChar \/ ClearEnd

Spec == Init /\ [][Next]_vars

-----------------------------------------------------------------------------
(* Properties *)

\* xpos of the driver against the address of the controller: within a line they
\* always mean the same cell.
CursorInSync ==
  pc \in {"first", "second", "clear"} => address = cursor_data(line, xpos)

\* What a line with the two texts shows in a column.
SymbolAt(pair, column) ==
  IF pair = Blank THEN Space
  ELSE IF column <= Width[pair[1]] THEN <<pair[1], column>>
  ELSE IF column <= Width[pair[1]] + Width[pair[2]] THEN <<pair[2], column - Width[pair[1]]>>
  ELSE Space

\* lcd_send_string and lcd_clear_eol: a line that is not being written shows the texts
\* that it got last and nothing of an earlier, longer one; writing it has not touched
\* any other line.
LinesShown ==
  \A l \in Rows : pc # "init" /\ (pc = "idle" \/ l # line) =>
    \A column \in Columns : cells[cursor_data(l, column)] = SymbolAt(content[l], column)
=============================================================================
