------------------------------- MODULE Screen -------------------------------
(***************************************************************************)
(* The text screen: video-text.c over the frame buffer of video-graphics.c.*)
(* A screen is a cursor and the character in each cell.  Pixels are left   *)
(* out: a character covers its cell, and shiftUp moves whole rows.         *)
(***************************************************************************)
EXTENDS Integers, Sequences

CONSTANTS
  Columns,      \* (WIDTH - CHAR_PX_SIZE) / CHAR_PX_SIZE: x begins at the second
  Rows          \* HEIGHT / CHAR_PX_SIZE

ASSUME ScreenAssumption == Columns \in Nat \ {0} /\ Rows \in Nat /\ Rows >= 3

Newline   == "newline"
Backspace == "backspace"
Blank     == "blank"        \* black pixels: a space, the character 0, memory never painted

BlankRow    == [c \in 0..(Columns - 1) |-> Blank]
BlankScreen == [row |-> 0, col |-> 0, cell |-> [r \in 0..(Rows - 1) |-> BlankRow]]

ncClear == BlankScreen

Paint(s, c) == [s EXCEPT !.cell[s.row][s.col] = c, !.col = @ + 1]

(* Mutant: one row up, as the comment in video.h has it.                   *)
shiftUpByOne(s, rows) ==
  [s EXCEPT !.cell = [r \in 0..(Rows - 1) |->
     IF r > Rows - 1 - rows THEN @[r] ELSE IF r + rows < Rows THEN @[r + rows] ELSE BlankRow]]

(* shiftUp counts offsets in words of 8 bytes, of which a line of pixels   *)
(* has WIDTH / 2: WIDTH * pixels words are twice the pixels it is asked    *)
(* for.  Rows after the last it moves to stay as they are; below the       *)
(* screen there is only memory nobody paints.                              *)
shiftUp(s, rows) ==
  [s EXCEPT !.cell = [r \in 0..(Rows - 1) |->
     IF r > Rows - 1 - rows THEN @[r] ELSE IF r + 2 * rows < Rows THEN @[r + 2 * rows] ELSE BlankRow]]

ncScrollLines(s, lines) == shiftUp(s, lines)

(* The end of ncPrintColorChar: past the last column, go on in the next    *)
(* row; past the last row, scroll and clear the last row, with the cursor  *)
(* in the row before it.                                                   *)
Wrap(s) ==
  IF s.col < Columns THEN s
  ELSE IF s.row = Rows - 1
       THEN [ncScrollLines(s, 1) EXCEPT !.row = Rows - 2, !.col = 0, !.cell[Rows - 1] = BlankRow]
       ELSE [s EXCEPT !.row = @ + 1, !.col = 0]

(* ncNewline prints spaces until the row changes.                          *)
ncNewline(s) ==
  Wrap([s EXCEPT !.cell[s.row] = [c \in DOMAIN @ |-> IF c < s.col THEN @[c] ELSE Blank],
                 !.col = Columns])

goBack(s) ==
  IF s.col > 0 THEN [s EXCEPT !.col = @ - 1]
  ELSE IF s.row > 0 THEN [s EXCEPT !.row = @ - 1, !.col = Columns - 1]
  ELSE s

ncBackspace(s) == goBack(Wrap(Paint(goBack(s), Blank)))

ncPrintChar(s, c) ==
  CASE c = Newline   -> ncNewline(s)
    [] c = Backspace -> ncBackspace(s)
    [] OTHER         -> Wrap(Paint(s, c))

-----------------------------------------------------------------------------
(* What a reader of the screen expects: a page without end, of which the   *)
(* screen shows the last rows.                                             *)

NewPage == [above |-> <<>>, line |-> <<>>]

(* The page a screen may be taken for, without the rows above the cursor.  *)
PageOf(s) == [above |-> <<>>, line |-> [i \in 1..s.col |-> s.cell[s.row][i - 1]]]

Filled(line) == [c \in 0..(Columns - 1) |-> IF c < Len(line) THEN line[c + 1] ELSE Blank]

PageNewline(page) == [above |-> Append(page.above, Filled(page.line)), line |-> <<>>]

PageAdd(page, c) ==
  LET longer == [page EXCEPT !.line = Append(@, c)]
  IN IF Len(longer.line) < Columns THEN longer ELSE PageNewline(longer)

(* before and after are the screens: there is no going back above the first*)
(* row, whatever has been there, and of rows nobody knows any more the page*)
(* is what the screen shows.                                               *)
PageErase(page, before, after) ==
  IF page.line # <<>> THEN [page EXCEPT !.line = SubSeq(@, 1, Len(@) - 1)]
  ELSE IF before.row = 0 THEN page
  ELSE IF page.above = <<>> THEN PageOf(after)
  ELSE LET n == Len(page.above)
       IN [above |-> SubSeq(page.above, 1, n - 1),
           line  |-> [i \in 1..(Columns - 1) |-> page.above[n][i - 1]]]

PagePrint(page, c, before, after) ==
  CASE c = Newline   -> PageNewline(page)
    [] c = Backspace -> PageErase(page, before, after)
    [] OTHER         -> PageAdd(page, c)

Shows(s, page) ==
  /\ s.cell[s.row] = Filled(page.line) /\ s.col = Len(page.line)
  /\ \A i \in 1..Len(page.above) :
       i <= s.row => s.cell[s.row - i] = page.above[Len(page.above) + 1 - i]

(* Nothing is left after the cursor: what is printed next stands alone.    *)
BlankAfterCursor(s) ==
  \A r \in 0..(Rows - 1), c \in 0..(Columns - 1) :
    r > s.row \/ (r = s.row /\ c >= s.col) => s.cell[r][c] = Blank
=============================================================================
