---------------------------- MODULE TerminalProofs ----------------------------
(***************************************************************************)
(* What holds of the output for every size of the buffers and the screen,  *)
(* every set of writers, texts and keys: the screen shows the end of what  *)
(* was printed and typed, wherever ticks and keys come; and, but for the   *)
(* windows of a flush, the buffers lose and invent nothing, and keys take  *)
(* back only what was typed.                                               *)
(***************************************************************************)
EXTENDS Terminal, FiniteSetTheorems, SequenceTheorems, TLAPS

(* Whatever may be in a cell; rows of cells; a screen, whose cursor may be *)
(* past the last column while a character is printed; and a page.          *)
Glyph == ProgramChars \cup Key \cup {Blank, "garbage"}
Row   == [0..(Columns - 1) -> Glyph]
ScreenTo(width) == [row : 0..(Rows - 1), col : 0..width, cell : [0..(Rows - 1) -> Row]]
PageType == [above : Seq(Row), line : Seq(Glyph)]

(* The rows above the cursor are those of the page, the ones below blank.  *)
RowsAbove(s, above) ==
  \A i \in 1..Len(above) : i <= s.row => s.cell[s.row - i] = above[Len(above) + 1 - i]
BlankFrom(s, first) == \A r \in 0..(Rows - 1) : r >= first => s.cell[r] = BlankRow
Laid(s, p) == /\ s \in ScreenTo(Columns - 1) /\ p \in PageType
              /\ s.cell[s.row] = Filled(p.line) /\ s.col = Len(p.line)
              /\ RowsAbove(s, p.above) /\ BlankFrom(s, s.row + 1)

(* That is ScreenIsTail.                                                   *)
LEMMA LaidShows ==
  ASSUME NEW s, NEW p, Laid(s, p)
  PROVE  Shows(s, p) /\ BlankAfterCursor(s)
<1>1. Shows(s, p)
  BY DEF Laid, RowsAbove, Shows
<1>2. s.row \in 0..(Rows - 1) /\ s.row \in Int /\ s.col \in Int
  BY ScreenAssumption DEF Laid, ScreenTo
<1>3. ASSUME NEW r \in 0..(Rows - 1), NEW c \in 0..(Columns - 1),
             r > s.row \/ (r = s.row /\ c >= s.col)
      PROVE  s.cell[r][c] = Blank
  <2>1. CASE r > s.row
    BY <1>2, <2>1, ScreenAssumption DEF Laid, BlankFrom, BlankRow
  <2>2. CASE r = s.row /\ c >= s.col
    BY <1>2, <2>2, ScreenAssumption DEF Laid, Filled
  <2> QED BY <1>3, <2>1, <2>2
<1> QED BY <1>1, <1>3 DEF BlankAfterCursor

(* An empty line fills a blank row; what is filled is a row.               *)
LEMMA FilledIs ==
  /\ Filled(<<>>) = BlankRow /\ BlankRow \in Row
         /\ \A line \in Seq(Glyph) : Filled(line) \in Row
<1>1. Blank \in Glyph
  BY DEF Glyph
<1>2. Filled(<<>>) = BlankRow
  BY DEF Filled, BlankRow
<1>3. BlankRow \in Row
  BY <1>1 DEF BlankRow, Row
<1>4. ASSUME NEW line \in Seq(Glyph) PROVE Filled(line) \in Row
  <2>1. \A c \in 0..(Columns - 1) : c < Len(line) => line[c + 1] \in Glyph
    BY ScreenAssumption
  <2> QED BY <1>1, <2>1 DEF Filled, Row
<1> QED BY <1>2, <1>3, <1>4

-----------------------------------------------------------------------------
(* A screen written out, and cells with a character in one of them.        *)
At(row, col, cell) == [row |-> row, col |-> col, cell |-> cell]
Painted(cell, row, col, c) == [cell EXCEPT ![row] = [cell[row] EXCEPT ![col] = c]]

(* A screen with the cursor put at the start of a row, and one row changed.*)
LEMMA AtStart ==
  ASSUME NEW x, NEW row, NEW col, NEW cell, x = [row |-> row, col |-> col, cell |-> cell],
         NEW r, NEW k, NEW y
  PROVE  [x EXCEPT !.row = r, !.col = 0, !.cell[k] = y]
           = [row |-> r, col |-> 0, cell |-> [cell EXCEPT ![k] = y]]
<1>1. [x EXCEPT !.row = r] = [row |-> r, col |-> col, cell |-> cell]
  OBVIOUS
<1>2. [[row |-> r, col |-> col, cell |-> cell] EXCEPT !.col = 0] = [row |-> r, col |-> 0, cell |-> cell]
  OBVIOUS
<1>3. [[row |-> r, col |-> 0, cell |-> cell] EXCEPT !.cell[k] = y]
        = [row |-> r, col |-> 0, cell |-> [cell EXCEPT ![k] = y]]
  OBVIOUS
<1>4. [x EXCEPT !.row = r, !.col = 0, !.cell[k] = y]
        = [[[x EXCEPT !.row = r] EXCEPT !.col = 0] EXCEPT !.cell[k] = y]
  OBVIOUS
<1> QED BY <1>1, <1>2, <1>3, <1>4

(* Past the end of the last row, the rows move up by two.                  *)
LEMMA WrapScrolls ==
  ASSUME NEW col, ~(col < Columns), NEW cell
  PROVE  Wrap(At(Rows - 1, col, cell))
           = At(Rows - 2, 0, [r \in 0..(Rows - 1) |-> IF r < Rows - 2 THEN cell[r + 2] ELSE BlankRow])
<1>1. Rows \in Int /\ Rows >= 3
  BY ScreenAssumption
<1> DEFINE moved == [r \in 0..(Rows - 1) |-> IF r < Rows - 2 THEN cell[r + 2] ELSE BlankRow]
           up == [r \in 0..(Rows - 1) |->
             IF r > Rows - 1 - 1 THEN cell[r] ELSE IF r + 2 * 1 < Rows THEN cell[r + 2 * 1] ELSE BlankRow]
<1>2. PICK s : s = At(Rows - 1, col, cell)
  OBVIOUS
<1>3. s.row = Rows - 1 /\ s.col = col /\ s.cell = cell
  BY <1>2 DEF At
<1>4. ncScrollLines(s, 1) = [s EXCEPT !.cell = up]
  BY <1>3 DEF ncScrollLines, shiftUp
<1>5. PICK x : x = ncScrollLines(s, 1)
  OBVIOUS
<1>6. Wrap(s) = [x EXCEPT !.row = Rows - 2, !.col = 0, !.cell[Rows - 1] = BlankRow]
  BY <1>3, <1>5 DEF Wrap
<1>7. x = [row |-> Rows - 1, col |-> col, cell |-> up]
  <2> HIDE DEF up
  <2> QED BY <1>2, <1>4, <1>5 DEF At
<1>8. [up EXCEPT ![Rows - 1] = BlankRow] = moved
  <2>1. \A r \in 0..(Rows - 1) : r # Rows - 1 => up[r] = moved[r]
    BY <1>1
  <2>2. moved[Rows - 1] = BlankRow
    BY <1>1
  <2> HIDE DEF BlankRow
  <2> QED BY <1>1, <2>1, <2>2
<1> HIDE DEF up, moved, BlankRow
<1>9. Wrap(s) = At(Rows - 2, 0, [up EXCEPT ![Rows - 1] = BlankRow])
  BY <1>6, <1>7, AtStart DEF At
<1> QED BY <1>2, <1>8, <1>9 DEF moved

(* At the end of a row the cursor goes on in the next one, scrolling two   *)
(* rows away at the bottom: the row is the last of the page now.           *)
LEMMA WrapEndsRow ==
  ASSUME NEW s \in ScreenTo(Columns), NEW above \in Seq(Row), s.col = Columns,
         RowsAbove(s, above), BlankFrom(s, s.row + 1)
  PROVE  Laid(Wrap(s), [above |-> Append(above, s.cell[s.row]), line |-> <<>>])
<1>1. Columns \in Int /\ Columns > 0 /\ Rows \in Int /\ Rows >= 3
  BY ScreenAssumption
<1>2. PICK row \in 0..(Rows - 1) : row = s.row
  BY DEF ScreenTo
<1>3. PICK cell \in [0..(Rows - 1) -> Row] : cell = s.cell
  BY DEF ScreenTo
<1>4. row \in Int /\ cell[row] \in Row
  BY <1>1
<1> DEFINE more == Append(above, cell[row])
           w == Wrap(s)
<1>5. more \in Seq(Row) /\ Len(more) = Len(above) + 1 /\ Len(above) \in Nat
      /\ more[Len(above) + 1] = cell[row] /\ \A i \in 1..Len(above) : more[i] = above[i]
  BY <1>4
<1>6. \A i \in 1..Len(above) : i <= row => cell[row - i] = above[Len(above) + 1 - i]
  BY <1>2, <1>3 DEF RowsAbove
<1>7. \A r \in 0..(Rows - 1) : r >= row + 1 => cell[r] = BlankRow
  BY <1>2, <1>3 DEF BlankFrom
<1>8. <<>> \in Seq(Glyph) /\ Len(<<>>) = 0
  OBVIOUS
<1> HIDE DEF more
<1>9. ASSUME NEW z \in 0..(Rows - 1), w.row = z, w.col = 0, w \in ScreenTo(Columns - 1),
             BlankFrom(w, z),
             \A i \in 1..Len(more) : i <= z => w.cell[z - i] = more[Len(more) + 1 - i]
      PROVE  Laid(w, [above |-> more, line |-> <<>>])
  <2> HIDE DEF w
  <2>1. w.cell[z] = Filled(<<>>) /\ BlankFrom(w, z + 1)
    BY <1>1, <1>9, FilledIs DEF BlankFrom
  <2>2. [above |-> more, line |-> <<>>] \in PageType
    BY <1>5, <1>8 DEF PageType
  <2> QED BY <1>8, <1>9, <2>1, <2>2 DEF Laid, RowsAbove
<1>10. ASSUME row # Rows - 1 PROVE Laid(w, [above |-> more, line |-> <<>>])
  <2>1. w = [s EXCEPT !.row = @ + 1, !.col = 0]
    BY <1>1, <1>2, <1>10 DEF Wrap
  <2>2. w = [row |-> row + 1, col |-> 0, cell |-> cell]
    BY <1>2, <1>3, <2>1 DEF ScreenTo
  <2> HIDE DEF w
  <2>3. row + 1 \in 0..(Rows - 1) /\ 0 \in 0..(Columns - 1)
    BY <1>1, <1>10
  <2>4. w \in ScreenTo(Columns - 1)
    BY <2>2, <2>3 DEF ScreenTo
  <2>5. BlankFrom(w, row + 1)
    BY <1>7, <2>2 DEF BlankFrom
  <2>6. ASSUME NEW i \in 1..Len(more), i <= row + 1
        PROVE  w.cell[(row + 1) - i] = more[Len(more) + 1 - i]
    <3>1. CASE i = 1
      BY <1>4, <1>5, <2>2, <3>1
    <3>2. CASE i # 1
      <4>1. i - 1 \in 1..Len(above) /\ i - 1 <= row /\ (row + 1) - i = row - (i - 1)
        BY <1>4, <1>5, <2>6, <3>2
      <4>2. cell[row - (i - 1)] = above[Len(above) + 1 - (i - 1)]
        BY <1>6, <4>1
      <4>3. Len(above) + 1 - (i - 1) = Len(more) + 1 - i /\ Len(more) + 1 - i \in 1..Len(above)
        BY <1>5, <4>1
      <4> QED BY <1>5, <2>2, <4>1, <4>2, <4>3
    <3> QED BY <3>1, <3>2
  <2> QED BY <1>9, <2>2, <2>3, <2>4, <2>5, <2>6
<1>11. ASSUME row = Rows - 1 PROVE Laid(w, [above |-> more, line |-> <<>>])
  <2> DEFINE moved == [r \in 0..(Rows - 1) |-> IF r < Rows - 2 THEN cell[r + 2] ELSE BlankRow]
  <2>1. w = [row |-> Rows - 2, col |-> 0, cell |-> moved]
    <3>1. s = At(Rows - 1, Columns, cell)
      BY <1>2, <1>3, <1>11 DEF At, ScreenTo
    <3>2. ~(Columns < Columns)
      BY <1>1
    <3>3. Wrap(At(Rows - 1, Columns, cell)) = At(Rows - 2, 0, moved)
      BY <3>2, WrapScrolls
    <3> HIDE DEF moved
    <3> QED BY <3>1, <3>3 DEF At
  <2>2. moved \in [0..(Rows - 1) -> Row]
    BY <1>1, FilledIs
  <2>3. Rows - 2 \in 0..(Rows - 1) /\ 0 \in 0..(Columns - 1)
    BY <1>1
  <2>4. \A r \in 0..(Rows - 1) : moved[r] = IF r < Rows - 2 THEN cell[r + 2] ELSE BlankRow
    OBVIOUS
  <2> HIDE DEF w, moved
  <2>5. w \in ScreenTo(Columns - 1)
    BY <2>1, <2>2, <2>3 DEF ScreenTo
  <2>6. BlankFrom(w, Rows - 2)
    BY <1>1, <2>1, <2>4 DEF BlankFrom
  <2>7. ASSUME NEW i \in 1..Len(more), i <= Rows - 2
        PROVE  w.cell[(Rows - 2) - i] = more[Len(more) + 1 - i]
    <3>1. (Rows - 2) - i \in 0..(Rows - 1) /\ (Rows - 2) - i < Rows - 2 /\ (Rows - 2) - i + 2 = Rows - i
      BY <1>1, <1>5, <2>7
    <3>2. w.cell[(Rows - 2) - i] = cell[Rows - i]
      BY <2>1, <2>4, <3>1
    <3>3. CASE i = 1
      BY <1>1, <1>5, <1>11, <3>2, <3>3
    <3>4. CASE i # 1
      <4>1. i - 1 \in 1..Len(above) /\ i - 1 <= row /\ Rows - i = row - (i - 1)
        BY <1>1, <1>5, <1>11, <2>7, <3>4
      <4>2. cell[row - (i - 1)] = above[Len(above) + 1 - (i - 1)]
        BY <1>6, <4>1
      <4>3. Len(above) + 1 - (i - 1) = Len(more) + 1 - i /\ Len(more) + 1 - i \in 1..Len(above)
        BY <1>5, <4>1
      <4> QED BY <1>5, <3>2, <4>1, <4>2, <4>3
    <3> QED BY <3>3, <3>4
  <2> QED BY <1>9, <2>1, <2>3, <2>5, <2>6, <2>7
<1>12. Laid(w, [above |-> more, line |-> <<>>])
  <2> HIDE DEF w
  <2> QED BY <1>10, <1>11
<1>13. more = Append(above, s.cell[s.row])
  BY <1>2, <1>3 DEF more
<1> QED BY <1>12, <1>13

(* The steps of printing a character, on a screen written out.             *)
LEMMA ScreenIsAt ==
  ASSUME NEW width, NEW s \in ScreenTo(width) PROVE s = At(s.row, s.col, s.cell)
BY DEF ScreenTo, At

LEMMA PaintAt ==
  ASSUME NEW row, NEW col, NEW cell, NEW c
  PROVE  Paint(At(row, col, cell), c) = At(row, col + 1, Painted(cell, row, col, c))
<1>1. PICK x : x = At(row, col, cell)
  OBVIOUS
<1>2. x.row = row /\ x.col = col /\ x.cell = cell
  BY <1>1 DEF At
<1>3. Paint(x, c) = [[x EXCEPT !.cell[row][col] = c] EXCEPT !.col = col + 1]
  BY <1>2 DEF Paint
<1>4. [x EXCEPT !.cell[row][col] = c] = At(row, col, Painted(cell, row, col, c))
  BY <1>1 DEF At, Painted
<1>5. \A m : [At(row, col, m) EXCEPT !.col = col + 1] = At(row, col + 1, m)
  BY DEF At
<1> QED BY <1>1, <1>3, <1>4, <1>5

LEMMA GoBackAt ==
  ASSUME NEW row, NEW col, NEW cell
  PROVE  goBack(At(row, col, cell)) =
           IF col > 0 THEN At(row, col - 1, cell)
           ELSE IF row > 0 THEN At(row - 1, Columns - 1, cell) ELSE At(row, col, cell)
<1>1. PICK x : x = At(row, col, cell)
  OBVIOUS
<1>2. x.row = row /\ x.col = col /\ x.cell = cell
  BY <1>1 DEF At
<1>3. [x EXCEPT !.col = col - 1] = At(row, col - 1, cell)
  BY <1>1 DEF At
<1>4. [x EXCEPT !.row = row - 1, !.col = Columns - 1] = At(row - 1, Columns - 1, cell)
  <2>1. [x EXCEPT !.row = row - 1] = At(row - 1, col, cell)
    BY <1>1 DEF At
  <2>2. [At(row - 1, col, cell) EXCEPT !.col = Columns - 1] = At(row - 1, Columns - 1, cell)
    BY DEF At
  <2>3. [x EXCEPT !.row = row - 1, !.col = Columns - 1] = [[x EXCEPT !.row = row - 1] EXCEPT !.col = Columns - 1]
    BY <1>1 DEF At
  <2> QED BY <2>1, <2>2, <2>3
<1> QED BY <1>1, <1>2, <1>3, <1>4 DEF goBack

LEMMA WrapAt ==
  ASSUME NEW row, NEW col, NEW cell
  PROVE  /\ col < Columns => Wrap(At(row, col, cell)) = At(row, col, cell)
         /\ ~(col < Columns) /\ row # Rows - 1 => Wrap(At(row, col, cell)) = At(row + 1, 0, cell)
<1>1. PICK x : x = At(row, col, cell)
  OBVIOUS
<1>2. x.row = row /\ x.col = col /\ x.cell = cell
  BY <1>1 DEF At
<1>3. [x EXCEPT !.row = row + 1, !.col = 0] = At(row + 1, 0, cell)
  <2>1. [x EXCEPT !.row = row + 1] = At(row + 1, col, cell)
    BY <1>1 DEF At
  <2>2. [At(row + 1, col, cell) EXCEPT !.col = 0] = At(row + 1, 0, cell)
    BY DEF At
  <2>3. [x EXCEPT !.row = row + 1, !.col = 0] = [[x EXCEPT !.row = row + 1] EXCEPT !.col = 0]
    BY <1>1 DEF At
  <2> QED BY <2>1, <2>2, <2>3
<1> QED BY <1>1, <1>2, <1>3 DEF Wrap

(* To change the row of the cursor leaves the rows above it on the page and*)
(* those below it blank.                                                   *)
LEMMA RowReplaced ==
  ASSUME NEW s, NEW p, Laid(s, p), NEW y \in Row, NEW width, NEW col \in 0..width
  PROVE  LET n == At(s.row, col, [s.cell EXCEPT ![s.row] = y]) IN
         /\ n \in ScreenTo(width) /\ n.row = s.row /\ n.col = col /\ n.cell[n.row] = y
         /\ RowsAbove(n, p.above) /\ BlankFrom(n, n.row + 1)
<1>1. PICK row \in 0..(Rows - 1) : row = s.row
  BY DEF Laid, ScreenTo
<1>2. PICK cell \in [0..(Rows - 1) -> Row] : cell = s.cell
  BY DEF Laid, ScreenTo
<1>3. Rows \in Int /\ row \in Int /\ p.above \in Seq(Row) /\ Len(p.above) \in Nat
  BY <1>1, ScreenAssumption DEF Laid, PageType
<1> DEFINE m == [cell EXCEPT ![row] = y]
<1>4. m \in [0..(Rows - 1) -> Row] /\ m[row] = y /\ \A r \in 0..(Rows - 1) : r # row => m[r] = cell[r]
  OBVIOUS
<1>5. PICK n : n = At(row, col, m)
  OBVIOUS
<1>6. n.row = row /\ n.col = col /\ n.cell = m /\ n \in ScreenTo(width)
  BY <1>4, <1>5 DEF At, ScreenTo
<1> HIDE DEF m
<1>7. RowsAbove(n, p.above)
  <2> SUFFICES ASSUME NEW i \in 1..Len(p.above), i <= row
               PROVE  m[row - i] = p.above[Len(p.above) + 1 - i]
    BY <1>6 DEF RowsAbove
  <2>1. row - i \in 0..(Rows - 1) /\ row - i # row
    BY <1>3
  <2>2. cell[row - i] = p.above[Len(p.above) + 1 - i]
    BY <1>1, <1>2 DEF Laid, RowsAbove
  <2> QED BY <1>4, <2>1, <2>2
<1>8. BlankFrom(n, row + 1)
  BY <1>1, <1>2, <1>3, <1>4, <1>6 DEF Laid, BlankFrom
<1> QED BY <1>1, <1>2, <1>4, <1>5, <1>6, <1>7, <1>8 DEF m

(* A newline ends the row, which is filled already.                        *)
LEMMA NewlineIs ==
  ASSUME NEW s, NEW p, Laid(s, p)
  PROVE  ncNewline(s) = Wrap(At(s.row, Columns, [s.cell EXCEPT ![s.row] = Filled(p.line)]))
<1>1. Columns \in Int /\ Columns > 0 /\ Rows \in Int /\ Rows >= 3
  BY ScreenAssumption
<1>2. PICK row \in 0..(Rows - 1) : row = s.row
  BY DEF Laid, ScreenTo
<1>3. PICK cell \in [0..(Rows - 1) -> Row] : cell = s.cell
  BY DEF Laid, ScreenTo
<1>4. PICK col \in 0..(Columns - 1) : col = s.col
  BY DEF Laid, ScreenTo
<1>5. cell[row] = Filled(p.line) /\ col = Len(p.line) /\ p.line \in Seq(Glyph)
  BY <1>2, <1>3, <1>4 DEF Laid, PageType
<1> DEFINE y == [c \in DOMAIN cell[row] |-> IF c < col THEN cell[row][c] ELSE Blank]
<1>6. y = Filled(p.line)
  <2>1. DOMAIN cell[row] = 0..(Columns - 1)
    BY DEF Row
  <2>2. \A c \in 0..(Columns - 1) : cell[row][c] = IF c < col THEN p.line[c + 1] ELSE Blank
    BY <1>5 DEF Filled
  <2>3. \A c \in 0..(Columns - 1) : (IF c < col THEN cell[row][c] ELSE Blank) = IF c < Len(p.line) THEN p.line[c + 1] ELSE Blank
    BY <1>5, <2>2
  <2> QED BY <2>1, <2>3 DEF Filled
<1> HIDE DEF y
<1>7. PICK x : x = At(row, col, cell)
  OBVIOUS
<1>8. s = x /\ x.row = row /\ x.col = col /\ x.cell = cell
  BY <1>2, <1>3, <1>4, <1>7, ScreenIsAt DEF Laid, At
<1>9. [x EXCEPT !.cell[row] = y, !.col = Columns] = [[x EXCEPT !.cell[row] = y] EXCEPT !.col = Columns]
  BY <1>7 DEF At
<1>10. [x EXCEPT !.cell[row] = y] = At(row, col, [cell EXCEPT ![row] = y])
  <2>1. \A m : [x EXCEPT !.cell = m] = At(row, col, m)
    BY <1>7 DEF At
  <2>2. [x EXCEPT !.cell[row] = y] = [x EXCEPT !.cell = [cell EXCEPT ![row] = y]]
    BY <1>8
  <2> QED BY <2>1, <2>2
<1>11. \A m : [At(row, col, m) EXCEPT !.col = Columns] = At(row, Columns, m)
  BY DEF At
<1>12. ncNewline(s) = Wrap([x EXCEPT !.cell[row] = y, !.col = Columns])
  BY <1>1, <1>8 DEF ncNewline, y
<1>13. [x EXCEPT !.cell[row] = y, !.col = Columns] = At(s.row, Columns, [s.cell EXCEPT ![s.row] = y])
  BY <1>2, <1>3, <1>9, <1>10, <1>11
<1> QED BY <1>6, <1>12, <1>13

(* So it ends the row of the page.                                         *)
LEMMA NewlineLaid ==
  ASSUME NEW s, NEW p, Laid(s, p)
  PROVE  Laid(ncNewline(s), PageNewline(p))
<1>1. Columns \in Nat /\ p.line \in Seq(Glyph) /\ p.above \in Seq(Row)
  BY ScreenAssumption DEF Laid, PageType
<1>2. Filled(p.line) \in Row
  BY <1>1, FilledIs
<1> DEFINE n == At(s.row, Columns, [s.cell EXCEPT ![s.row] = Filled(p.line)])
<1>3. /\ n \in ScreenTo(Columns) /\ n.row = s.row /\ n.col = Columns /\ n.cell[n.row] = Filled(p.line)
      /\ RowsAbove(n, p.above) /\ BlankFrom(n, n.row + 1)
  <2>1. Columns \in 0..Columns
    BY <1>1
  <2> QED BY <1>2, <2>1, RowReplaced
<1>4. ncNewline(s) = Wrap(n)
  BY NewlineIs
<1> HIDE DEF n
<1>5. Laid(Wrap(n), [above |-> Append(p.above, n.cell[n.row]), line |-> <<>>])
  BY <1>1, <1>3, WrapEndsRow
<1> QED BY <1>3, <1>4, <1>5 DEF PageNewline

(* A line of the page with one character more, or one less.                *)
LEMMA FilledChanges ==
  ASSUME NEW line \in Seq(Glyph), NEW c \in Glyph
  PROVE  /\ Len(line) < Columns => Filled(Append(line, c)) = [Filled(line) EXCEPT ![Len(line)] = c]
         /\ line # <<>> => Filled(SubSeq(line, 1, Len(line) - 1)) = [Filled(line) EXCEPT ![Len(line) - 1] = Blank]
<1>1. Columns \in Int /\ Columns > 0 /\ Len(line) \in Nat /\ Filled(line) \in Row
  BY FilledIs, ScreenAssumption
<1>2. PICK n \in Nat : n = Len(line)
  BY <1>1
<1>3. \A r \in 0..(Columns - 1) : Filled(line)[r] = IF r < n THEN line[r + 1] ELSE Blank
  BY <1>2 DEF Filled
<1>4. ASSUME n < Columns
      PROVE  Filled(Append(line, c)) = [Filled(line) EXCEPT ![n] = c]
  <2>0. Append(line, c) \in Seq(Glyph)
    OBVIOUS
  <2>1. PICK more \in Seq(Glyph) : more = Append(line, c)
    BY <2>0
  <2>2. Len(more) = n + 1 /\ more[n + 1] = c /\ \A i \in 1..n : more[i] = line[i]
    BY <1>2, <2>1
  <2>3. ASSUME NEW r \in 0..(Columns - 1)
        PROVE  (IF r < Len(more) THEN more[r + 1] ELSE Blank) = [Filled(line) EXCEPT ![n] = c][r]
    <3>1. [Filled(line) EXCEPT ![n] = c][r] = IF r = n THEN c ELSE Filled(line)[r]
      BY <1>1 DEF Row
    <3>2. Filled(line)[r] = IF r < n THEN line[r + 1] ELSE Blank
      BY <1>3
    <3>3. r < n => r + 1 \in 1..n
      BY <1>1
    <3> HIDE DEF Filled
    <3> QED BY <1>1, <1>2, <2>2, <3>1, <3>2, <3>3
  <2>4. Filled(more) = [r \in 0..(Columns - 1) |-> IF r < Len(more) THEN more[r + 1] ELSE Blank]
    BY DEF Filled
  <2>5. [Filled(line) EXCEPT ![n] = c] = [r \in 0..(Columns - 1) |-> [Filled(line) EXCEPT ![n] = c][r]]
    BY <1>1 DEF Row
  <2> QED BY <2>1, <2>3, <2>4, <2>5
<1>5. ASSUME line # <<>>
      PROVE  Filled(SubSeq(line, 1, n - 1)) = [Filled(line) EXCEPT ![n - 1] = Blank]
  <2>0. n > 0
    BY <1>2, <1>5
  <2>1. SubSeq(line, 1, n - 1) \in Seq(Glyph)
    BY <1>2, <2>0, SubSeqProperties
  <2>2. PICK less \in Seq(Glyph) : less = SubSeq(line, 1, n - 1)
    BY <2>1
  <2>3. Len(less) = n - 1 /\ \A i \in 1..(n - 1) : less[i] = line[i]
    BY <1>2, <2>0, <2>2, SubSeqProperties
  <2>4. n <= Columns \/ n - 1 >= Columns
    BY <1>1, <1>2
  <2>5. ASSUME NEW r \in 0..(Columns - 1)
        PROVE  (IF r < Len(less) THEN less[r + 1] ELSE Blank) = [Filled(line) EXCEPT ![n - 1] = Blank][r]
    <3>1. CASE r < n - 1
      <4>1. r + 1 \in 1..(n - 1) /\ r < Len(less) /\ r < n /\ r # n - 1
        BY <1>1, <2>0, <2>3, <3>1
      <4>2. [Filled(line) EXCEPT ![n - 1] = Blank][r] = line[r + 1]
        BY <1>1, <1>3, <4>1 DEF Row
      <4> QED BY <2>3, <4>1, <4>2
    <3>2. CASE r = n - 1
      BY <1>1, <1>2, <1>3, <2>0, <2>3, <3>2 DEF Row
    <3>3. CASE r > n - 1
      BY <1>1, <1>2, <1>3, <2>0, <2>3, <3>3 DEF Row
    <3> QED BY <1>1, <2>0, <3>1, <3>2, <3>3
  <2>6. Filled(less) = [r \in 0..(Columns - 1) |-> IF r < Len(less) THEN less[r + 1] ELSE Blank]
    BY DEF Filled
  <2>7. [Filled(line) EXCEPT ![n - 1] = Blank] = [r \in 0..(Columns - 1) |-> [Filled(line) EXCEPT ![n - 1] = Blank][r]]
    BY <1>1 DEF Row
  <2> QED BY <2>2, <2>5, <2>6, <2>7
<1> QED BY <1>2, <1>4, <1>5

(* A character goes to the end of the line, and may end the row.           *)
LEMMA AddLaid ==
  ASSUME NEW s, NEW p, Laid(s, p), NEW c \in Glyph
  PROVE  Laid(Wrap(Paint(s, c)), PageAdd(p, c))
<1>1. Columns \in Int /\ Columns > 0 /\ Rows \in Int /\ Rows >= 3
  BY ScreenAssumption
<1>2. PICK row \in 0..(Rows - 1) : row = s.row
  BY DEF Laid, ScreenTo
<1>3. PICK cell \in [0..(Rows - 1) -> Row] : cell = s.cell
  BY DEF Laid, ScreenTo
<1>4. PICK col \in 0..(Columns - 1) : col = s.col
  BY DEF Laid, ScreenTo
<1>5. PICK line \in Seq(Glyph) : line = p.line
  BY DEF Laid, PageType
<1>6. PICK above \in Seq(Row) : above = p.above
  BY DEF Laid, PageType
<1>7. cell[row] = Filled(line) /\ col = Len(line) /\ p = [above |-> above, line |-> line]
  BY <1>2, <1>3, <1>4, <1>5, <1>6 DEF Laid, PageType
<1> DEFINE longer == Append(line, c)
<1>8. longer \in Seq(Glyph) /\ Len(longer) = col + 1
  BY <1>7
<1>9. [p EXCEPT !.line = Append(@, c)] = [above |-> above, line |-> longer]
  <2>1. \A y : [p EXCEPT !.line = y] = [above |-> above, line |-> y]
    BY <1>7
  <2> QED BY <1>5, <2>1
<1>10. PageAdd(p, c) = IF col + 1 < Columns THEN [above |-> above, line |-> longer]
                         ELSE [above |-> Append(above, Filled(longer)), line |-> <<>>]
  <2> HIDE DEF longer
  <2> QED BY <1>8, <1>9 DEF PageAdd, PageNewline
<1> DEFINE n == At(s.row, col + 1, [s.cell EXCEPT ![s.row] = Filled(longer)])
<1>11. Paint(s, c) = n
  <2>1. s = At(row, col, cell)
    BY <1>2, <1>3, <1>4, ScreenIsAt DEF Laid
  <2>2. Filled(longer) = [cell[row] EXCEPT ![col] = c]
    <3>1. Len(line) < Columns
      BY <1>1, <1>7
    <3>2. Filled(Append(line, c)) = [Filled(line) EXCEPT ![Len(line)] = c]
      BY <3>1, FilledChanges
    <3> QED BY <1>7, <3>2
  <2>3. Paint(s, c) = At(row, col + 1, Painted(cell, row, col, c))
    BY <2>1, PaintAt
  <2>4. Painted(cell, row, col, c) = [cell EXCEPT ![row] = Filled(longer)]
    BY <2>2 DEF Painted
  <2> QED BY <1>2, <1>3, <2>3, <2>4
<1>12. Filled(longer) \in Row
  BY <1>8, FilledIs
<1> HIDE DEF longer
<1>13. \A width \in Nat : col + 1 \in 0..width =>
         /\ n \in ScreenTo(width) /\ n.row = s.row /\ n.col = col + 1 /\ n.cell[n.row] = Filled(longer)
         /\ RowsAbove(n, above) /\ BlankFrom(n, n.row + 1)
  <2> SUFFICES ASSUME NEW width \in Nat, col + 1 \in 0..width
               PROVE  /\ n \in ScreenTo(width) /\ n.row = s.row /\ n.col = col + 1 /\ n.cell[n.row] = Filled(longer)
                      /\ RowsAbove(n, above) /\ BlankFrom(n, n.row + 1)
    OBVIOUS
  <2>1. /\ n \in ScreenTo(width) /\ n.row = s.row /\ n.col = col + 1 /\ n.cell[n.row] = Filled(longer)
        /\ RowsAbove(n, p.above) /\ BlankFrom(n, n.row + 1)
    BY <1>12, RowReplaced
  <2> QED BY <1>6, <2>1
<1>14. CASE col + 1 < Columns
  <2>1. /\ n \in ScreenTo(Columns - 1) /\ n.row = s.row /\ n.col = col + 1 /\ n.cell[n.row] = Filled(longer)
        /\ RowsAbove(n, above) /\ BlankFrom(n, n.row + 1)
    <3>1. Columns - 1 \in Nat /\ col + 1 \in 0..(Columns - 1)
      BY <1>1, <1>14
    <3> HIDE DEF n, longer
    <3> QED BY <1>13, <3>1
  <2>2. Wrap(n) = n
    BY <1>14, WrapAt
  <2>3. [above |-> above, line |-> longer] \in PageType
    BY <1>8 DEF PageType
  <2> HIDE DEF n
  <2>4. Laid(n, [above |-> above, line |-> longer])
    BY <1>8, <2>1, <2>3 DEF Laid
  <2> QED BY <1>10, <1>11, <1>14, <2>2, <2>4
<1>15. CASE ~(col + 1 < Columns)
  <2>1. /\ n \in ScreenTo(Columns) /\ n.row = s.row /\ n.col = Columns /\ n.cell[n.row] = Filled(longer)
        /\ RowsAbove(n, above) /\ BlankFrom(n, n.row + 1)
    <3>1. Columns \in Nat /\ col + 1 = Columns
      BY <1>1, <1>15
    <3> HIDE DEF n, longer
    <3> QED BY <1>13, <3>1
  <2> HIDE DEF n
  <2>2. Laid(Wrap(n), [above |-> Append(above, Filled(longer)), line |-> <<>>])
    BY <2>1, WrapEndsRow
  <2> QED BY <1>10, <1>11, <1>15, <2>2
<1> QED BY <1>14, <1>15

(* Backspace inside a row takes the last character of the line.            *)
LEMMA EraseInRowLaid ==
  ASSUME NEW s, NEW p, Laid(s, p), s.col > 0
  PROVE  Laid(ncBackspace(s), PageErase(p, s, ncBackspace(s)))
<1>1. Columns \in Int /\ Columns > 0 /\ Rows \in Int /\ Rows >= 3
  BY ScreenAssumption
<1>2. PICK row \in 0..(Rows - 1) : row = s.row
  BY DEF Laid, ScreenTo
<1>3. PICK cell \in [0..(Rows - 1) -> Row] : cell = s.cell
  BY DEF Laid, ScreenTo
<1>4. PICK col \in 0..(Columns - 1) : col = s.col
  BY DEF Laid, ScreenTo
<1>5. PICK line \in Seq(Glyph) : line = p.line
  BY DEF Laid, PageType
<1>6. PICK above \in Seq(Row) : above = p.above
  BY DEF Laid, PageType
<1>7. cell[row] = Filled(line) /\ col = Len(line) /\ p = [above |-> above, line |-> line] /\ col > 0
  BY <1>2, <1>3, <1>4, <1>5, <1>6 DEF Laid, PageType
<1>8. PICK less \in Seq(Glyph) : less = SubSeq(line, 1, Len(line) - 1) /\ Len(less) = col - 1
  <2>1. SubSeq(line, 1, Len(line) - 1) \in Seq(Glyph) /\ Len(SubSeq(line, 1, Len(line) - 1)) = col - 1
    BY <1>7, SubSeqProperties
  <2> QED BY <2>1
<1>9. PageErase(p, s, ncBackspace(s)) = [above |-> above, line |-> less]
  <2>0. \A y : [p EXCEPT !.line = y] = [above |-> above, line |-> y]
    BY <1>7
  <2>1. [p EXCEPT !.line = SubSeq(@, 1, Len(@) - 1)] = [above |-> above, line |-> less]
    BY <1>5, <1>8, <2>0
  <2>2. p.line # <<>>
    BY <1>5, <1>7
  <2> QED BY <2>1, <2>2 DEF PageErase
<1>10. Filled(less) = [cell[row] EXCEPT ![col - 1] = Blank] /\ Filled(less) \in Row
  <2>1. Blank \in Glyph /\ line # <<>>
    BY <1>7 DEF Glyph
  <2> QED BY <1>7, <1>8, <2>1, FilledChanges, FilledIs
<1> DEFINE m == [cell EXCEPT ![row] = Filled(less)]
<1>11. ncBackspace(s) = At(row, col - 1, m)
  <2>1. s = At(row, col, cell)
    BY <1>2, <1>3, <1>4, ScreenIsAt DEF Laid
  <2>2. goBack(s) = At(row, col - 1, cell)
    BY <1>7, <2>1, GoBackAt
  <2>3. Paint(At(row, col - 1, cell), Blank) = At(row, col, m)
    <3>1. (col - 1) + 1 = col
      BY <1>1
    <3>2. Paint(At(row, col - 1, cell), Blank) = At(row, (col - 1) + 1, Painted(cell, row, col - 1, Blank))
      BY PaintAt
    <3>3. Painted(cell, row, col - 1, Blank) = m
      BY <1>10 DEF Painted
    <3> QED BY <3>1, <3>2, <3>3
  <2>4. Wrap(At(row, col, m)) = At(row, col, m)
    BY <1>1, WrapAt
  <2>5. goBack(At(row, col, m)) = At(row, col - 1, m)
    BY <1>7, GoBackAt
  <2> HIDE DEF m
  <2> QED BY <2>2, <2>3, <2>4, <2>5 DEF ncBackspace
<1>12. PICK n : n = ncBackspace(s)
  OBVIOUS
<1>13. /\ n \in ScreenTo(Columns - 1) /\ n.row = row /\ n.col = col - 1 /\ n.cell[n.row] = Filled(less)
       /\ RowsAbove(n, above) /\ BlankFrom(n, n.row + 1)
  <2>1. n = At(s.row, col - 1, [s.cell EXCEPT ![s.row] = Filled(less)])
    BY <1>2, <1>3, <1>11, <1>12
  <2>2. col - 1 \in 0..(Columns - 1)
    BY <1>1, <1>7
  <2> DEFINE at == At(s.row, col - 1, [s.cell EXCEPT ![s.row] = Filled(less)])
  <2>3. /\ at \in ScreenTo(Columns - 1) /\ at.row = s.row /\ at.col = col - 1 /\ at.cell[at.row] = Filled(less)
        /\ RowsAbove(at, p.above) /\ BlankFrom(at, at.row + 1)
    BY <1>10, <2>2, RowReplaced
  <2>4. n = at
    BY <2>1
  <2> HIDE DEF at
  <2> QED BY <1>2, <1>6, <2>3, <2>4
<1>14. [above |-> above, line |-> less] \in PageType
  BY DEF PageType
<1> QED BY <1>8, <1>9, <1>12, <1>13, <1>14 DEF Laid

(* The page a screen is taken for, once the rows above are not known.      *)
LEMMA PageOfLaid ==
  ASSUME NEW n \in ScreenTo(Columns - 1), BlankFrom(n, n.row + 1),
         \A c \in 0..(Columns - 1) : c >= n.col => n.cell[n.row][c] = Blank
  PROVE  Laid(n, PageOf(n))
<1>1. Columns \in Int /\ Columns > 0 /\ Rows \in Int /\ Rows >= 3
  BY ScreenAssumption
<1>2. n.row \in 0..(Rows - 1) /\ n.col \in 0..(Columns - 1) /\ n.cell[n.row] \in Row /\ n.col \in Nat
  BY <1>1 DEF ScreenTo
<1>3. PICK col \in 0..(Columns - 1) : col = n.col
  BY <1>2
<1>4. PICK y \in Row : y = n.cell[n.row]
  BY <1>2
<1> DEFINE line == [i \in 1..col |-> y[i - 1]]
<1>5. line \in Seq(Glyph) /\ Len(line) = col
  <2>1. \A i \in 1..col : y[i - 1] \in Glyph
    BY <1>1 DEF Row
  <2>2. line \in [1..col -> Glyph]
    BY <2>1
  <2> QED BY <1>1, <2>2
<1>6. PageOf(n) = [above |-> <<>>, line |-> line]
  BY <1>3, <1>4 DEF PageOf
<1>7. \A c \in 0..(Columns - 1) : y[c] = IF c < col THEN line[c + 1] ELSE Blank
  <2> SUFFICES ASSUME NEW c \in 0..(Columns - 1) PROVE y[c] = IF c < col THEN line[c + 1] ELSE Blank
    OBVIOUS
  <2>1. CASE c < col
    <3>1. c + 1 \in 1..col /\ (c + 1) - 1 = c
      BY <1>1, <2>1
    <3> QED BY <2>1, <3>1
  <2>2. CASE ~(c < col)
    BY <1>1, <1>3, <1>4, <2>2
  <2> QED BY <2>1, <2>2
<1> HIDE DEF line
<1>8. y = Filled(line)
  <2>1. y = [c \in 0..(Columns - 1) |-> y[c]]
    BY DEF Row
  <2>2. \A c \in 0..(Columns - 1) : y[c] = IF c < Len(line) THEN line[c + 1] ELSE Blank
    BY <1>5, <1>7
  <2> QED BY <2>1, <2>2 DEF Filled
<1>9. <<>> \in Seq(Row) /\ Len(<<>>) = 0
  OBVIOUS
<1>10. [above |-> <<>>, line |-> line] \in PageType
  BY <1>5, <1>9 DEF PageType
<1>11. RowsAbove(n, <<>>)
  BY <1>9 DEF RowsAbove
<1> QED BY <1>3, <1>4, <1>5, <1>6, <1>8, <1>10, <1>11 DEF Laid

(* Backspace at the start of a row takes the last character of the row     *)
(* above: of the page, or of what the screen shows if the page has no more.*)
LEMMA EraseAcrossLaid ==
  ASSUME NEW s, NEW p, Laid(s, p), s.col = 0, s.row > 0
  PROVE  Laid(ncBackspace(s), PageErase(p, s, ncBackspace(s)))
<1>1. Columns \in Int /\ Columns > 0 /\ Rows \in Int /\ Rows >= 3
  BY ScreenAssumption
<1>2. PICK row \in 0..(Rows - 1) : row = s.row
  BY DEF Laid, ScreenTo
<1>3. PICK cell \in [0..(Rows - 1) -> Row] : cell = s.cell
  BY DEF Laid, ScreenTo
<1>4. PICK above \in Seq(Row) : above = p.above
  BY DEF Laid, PageType
<1>5. p.line = <<>> /\ cell[row] = BlankRow /\ row > 0
  <2>1. p.line \in Seq(Glyph) /\ Len(p.line) = 0
    BY DEF Laid, PageType
  <2>2. p.line = <<>>
    BY <2>1
  <2> QED BY <1>2, <1>3, <2>2, FilledIs DEF Laid
<1>6. row - 1 \in 0..(Rows - 1) /\ row - 1 # Rows - 1 /\ row - 1 # row /\ cell[row - 1] \in Row
  BY <1>1, <1>5
<1>7. PICK y \in Row : y = [cell[row - 1] EXCEPT ![Columns - 1] = Blank]
  BY <1>6 DEF Row, Glyph
<1>8. y[Columns - 1] = Blank /\ \A c \in 0..(Columns - 1) : c # Columns - 1 => y[c] = cell[row - 1][c]
  BY <1>1, <1>6, <1>7 DEF Row
<1> DEFINE m == [cell EXCEPT ![row - 1] = y]
           n == At(row - 1, Columns - 1, m)
<1>9. ncBackspace(s) = n
  <2>1. s = At(row, 0, cell)
    BY <1>2, <1>3, ScreenIsAt DEF Laid
  <2>2. goBack(s) = At(row - 1, Columns - 1, cell)
    BY <1>5, <2>1, GoBackAt
  <2>3. Paint(At(row - 1, Columns - 1, cell), Blank) = At(row - 1, Columns, m)
    <3>1. (Columns - 1) + 1 = Columns
      BY <1>1
    <3>2. Paint(At(row - 1, Columns - 1, cell), Blank)
            = At(row - 1, (Columns - 1) + 1, Painted(cell, row - 1, Columns - 1, Blank))
      BY PaintAt
    <3>3. Painted(cell, row - 1, Columns - 1, Blank) = m
      BY <1>7 DEF Painted
    <3> QED BY <3>1, <3>2, <3>3
  <2> HIDE DEF m
  <2>4. Wrap(At(row - 1, Columns, m)) = At(row, 0, m)
    <3>1. Wrap(At(row - 1, Columns, m)) = At((row - 1) + 1, 0, m)
      BY <1>1, <1>6, WrapAt
    <3>2. (row - 1) + 1 = row
      BY <1>1
    <3> QED BY <3>1, <3>2
  <2>5. goBack(At(row, 0, m)) = n
    BY <1>5, GoBackAt
  <2> QED BY <2>2, <2>3, <2>4, <2>5 DEF ncBackspace
<1>10. /\ n.row = row - 1 /\ n.col = Columns - 1 /\ n.cell = m /\ n \in ScreenTo(Columns - 1)
       /\ m \in [0..(Rows - 1) -> Row] /\ m[row - 1] = y /\ \A r \in 0..(Rows - 1) : r # row - 1 => m[r] = cell[r]
  <2>1. m \in [0..(Rows - 1) -> Row] /\ m[row - 1] = y /\ \A r \in 0..(Rows - 1) : r # row - 1 => m[r] = cell[r]
    BY <1>6
  <2> HIDE DEF m
  <2>2. Columns - 1 \in 0..(Columns - 1)
    BY <1>1
  <2> QED BY <1>6, <2>1, <2>2 DEF At, ScreenTo
<1> HIDE DEF m, n
<1>11. BlankFrom(n, (row - 1) + 1)
  <2>1. \A r \in 0..(Rows - 1) : r >= row + 1 => cell[r] = BlankRow
    BY <1>2, <1>3 DEF Laid, BlankFrom
  <2>2. \A r \in 0..(Rows - 1) : r >= (row - 1) + 1 => r # row - 1 /\ (r = row \/ r >= row + 1)
    BY <1>1
  <2> QED BY <1>5, <1>10, <2>1, <2>2 DEF BlankFrom
<1>12. CASE above = <<>>
  <2>1. PageErase(p, s, n) = PageOf(n)
    BY <1>2, <1>4, <1>5, <1>12 DEF PageErase
  <2>2. \A c \in 0..(Columns - 1) : c >= n.col => n.cell[n.row][c] = Blank
    <3>1. n.cell[n.row] = y /\ n.col = Columns - 1
      BY <1>10
    <3>2. \A c \in 0..(Columns - 1) : c >= Columns - 1 => c = Columns - 1
      BY <1>1
    <3> QED BY <1>8, <3>1, <3>2
  <2> QED BY <1>9, <1>10, <1>11, <2>1, <2>2, PageOfLaid
<1>13. CASE above # <<>>
  <2>1. PICK k \in Nat : k = Len(above) /\ k > 0
    BY <1>13
  <2>2. above[k] = cell[row - 1] /\ \A i \in 1..k : i <= row => cell[row - i] = above[k + 1 - i]
    <3>1. \A i \in 1..k : i <= row => cell[row - i] = above[k + 1 - i]
      BY <1>2, <1>3, <1>4, <2>1 DEF Laid, RowsAbove
    <3>2. 1 \in 1..k /\ 1 <= row /\ k + 1 - 1 = k
      BY <1>1, <1>5, <2>1
    <3> QED BY <3>1, <3>2
  <2>3. PICK less \in Seq(Row) : less = SubSeq(above, 1, k - 1) /\ Len(less) = k - 1
                                 /\ \A i \in 1..(k - 1) : less[i] = above[i]
    <3>1. /\ SubSeq(above, 1, k - 1) \in Seq(Row) /\ Len(SubSeq(above, 1, k - 1)) = k - 1
          /\ \A i \in 1..(k - 1) : SubSeq(above, 1, k - 1)[i] = above[i]
      BY <2>1, SubSeqProperties
    <3> QED BY <3>1
  <2> DEFINE line == [i \in 1..(Columns - 1) |-> above[k][i - 1]]
  <2>4. PageErase(p, s, n) = [above |-> less, line |-> line]
    BY <1>2, <1>4, <1>5, <1>13, <2>1, <2>3 DEF PageErase
  <2>5. line \in Seq(Glyph) /\ Len(line) = Columns - 1
    <3>1. \A i \in 1..(Columns - 1) : above[k][i - 1] \in Glyph
      BY <1>1, <1>6, <2>2 DEF Row
    <3>2. line \in [1..(Columns - 1) -> Glyph] /\ Columns - 1 \in Nat
      BY <1>1, <3>1
    <3>3. PICK w \in Nat : w = Columns - 1
      BY <3>2
    <3> HIDE DEF line
    <3>4. line \in [1..w -> Glyph]
      BY <3>2, <3>3
    <3>5. line \in Seq(Glyph) /\ Len(line) = w
      BY <3>4
    <3> QED BY <3>3, <3>5
  <2>6. \A c \in 0..(Columns - 1) : y[c] = IF c < Columns - 1 THEN line[c + 1] ELSE Blank
    <3> SUFFICES ASSUME NEW c \in 0..(Columns - 1) PROVE y[c] = IF c < Columns - 1 THEN line[c + 1] ELSE Blank
      OBVIOUS
    <3>1. CASE c < Columns - 1
      <4>1. c + 1 \in 1..(Columns - 1) /\ (c + 1) - 1 = c /\ c # Columns - 1
        BY <1>1, <3>1
      <4> QED BY <1>8, <2>2, <3>1, <4>1
    <3>2. CASE ~(c < Columns - 1)
      BY <1>1, <1>8, <3>2
    <3> QED BY <3>1, <3>2
  <2> HIDE DEF line
  <2>7. y = Filled(line)
    <3>1. y = [c \in 0..(Columns - 1) |-> y[c]]
      BY DEF Row
    <3>2. \A c \in 0..(Columns - 1) : y[c] = IF c < Len(line) THEN line[c + 1] ELSE Blank
      BY <2>5, <2>6
    <3> QED BY <3>1, <3>2 DEF Filled
  <2>8. RowsAbove(n, less)
    <3> SUFFICES ASSUME NEW i \in 1..(k - 1), i <= row - 1
                 PROVE  m[(row - 1) - i] = less[(k - 1) + 1 - i]
      <4>1. Len(less) = k - 1 /\ n.row = row - 1 /\ n.cell = m
        BY <1>10, <2>3
      <4> QED BY <4>1 DEF RowsAbove
    <3>1. i + 1 \in 1..k /\ i + 1 <= row /\ row - (i + 1) = (row - 1) - i
      BY <1>1, <2>1
    <3>2. (row - 1) - i \in 0..(Rows - 1) /\ (row - 1) - i # row - 1
      BY <1>1
    <3>3. k + 1 - (i + 1) = (k - 1) + 1 - i /\ (k - 1) + 1 - i \in 1..(k - 1)
      BY <2>1
    <3>4. cell[(row - 1) - i] = above[(k - 1) + 1 - i]
      BY <2>2, <3>1, <3>3
    <3> QED BY <1>10, <2>3, <3>2, <3>3, <3>4
  <2>9. [above |-> less, line |-> line] \in PageType
    BY <2>5 DEF PageType
  <2>10. Laid(n, [above |-> less, line |-> line])
    BY <1>10, <1>11, <2>5, <2>7, <2>8, <2>9 DEF Laid
  <2> QED BY <1>9, <2>4, <2>10
<1> QED BY <1>12, <1>13

(* Backspace at the start of the first row: there is nowhere to go back.   *)
LEMMA EraseNothing ==
  ASSUME NEW s, NEW p, Laid(s, p), s.col = 0, s.row = 0
  PROVE  ncBackspace(s) = s /\ PageErase(p, s, s) = p
<1>1. Columns \in Int /\ Columns > 0 /\ Rows \in Int /\ Rows >= 3
  BY ScreenAssumption
<1>2. PICK cell \in [0..(Rows - 1) -> Row] : cell = s.cell
  BY DEF Laid, ScreenTo
<1>3. p.line = <<>> /\ cell[0] = BlankRow
  <2>1. p.line \in Seq(Glyph) /\ Len(p.line) = 0
    BY DEF Laid, PageType
  <2>2. p.line = <<>>
    BY <2>1
  <2> QED BY <1>2, <2>2, FilledIs DEF Laid
<1>4. PageErase(p, s, s) = p
  BY <1>3 DEF PageErase
<1>5. s = At(0, 0, cell)
  BY <1>2, ScreenIsAt DEF Laid
<1>6. Painted(cell, 0, 0, Blank) = cell
  <2>1. [cell[0] EXCEPT ![0] = Blank] = cell[0]
    BY <1>1, <1>3 DEF BlankRow
  <2> QED BY <2>1 DEF Painted
<1>7. goBack(s) = s
  BY <1>5, GoBackAt
<1>8. Paint(s, Blank) = At(0, 1, cell)
  <2>1. Paint(At(0, 0, cell), Blank) = At(0, 0 + 1, Painted(cell, 0, 0, Blank))
    BY PaintAt
  <2> QED BY <1>5, <1>6, <2>1
<1>9. goBack(Wrap(At(0, 1, cell))) = s
  <2>1. CASE 1 < Columns
    <3>1. Wrap(At(0, 1, cell)) = At(0, 1, cell)
      BY <2>1, WrapAt
    <3>2. goBack(At(0, 1, cell)) = At(0, 1 - 1, cell)
      BY GoBackAt
    <3> QED BY <1>5, <3>1, <3>2
  <2>2. CASE ~(1 < Columns)
    <3>1. Wrap(At(0, 1, cell)) = At(0 + 1, 0, cell)
      BY <1>1, <2>2, WrapAt
    <3>2. goBack(At(1, 0, cell)) = At(1 - 1, Columns - 1, cell)
      BY GoBackAt
    <3>3. Columns - 1 = 0
      BY <1>1, <2>2
    <3> QED BY <1>5, <3>1, <3>2, <3>3
  <2> QED BY <2>1, <2>2
<1>10. ncBackspace(s) = s
  BY <1>7, <1>8, <1>9 DEF ncBackspace
<1> QED BY <1>4, <1>10

(* Whatever is printed, the screen shows the end of the page.              *)
LEMMA PrintLaid ==
  ASSUME NEW s, NEW p, Laid(s, p), NEW c \in Glyph
  PROVE  Laid(ncPrintChar(s, c), PagePrint(p, c, s, ncPrintChar(s, c)))
<1>1. CASE c = Newline
  <2>1. ncPrintChar(s, c) = ncNewline(s)
    BY <1>1 DEF ncPrintChar, Newline, Backspace
  <2>2. \A n : PagePrint(p, c, s, n) = PageNewline(p)
    BY <1>1 DEF PagePrint, Newline, Backspace
  <2> QED BY <2>1, <2>2, NewlineLaid
<1>2. CASE c = Backspace
  <2>1. s.row \in Int /\ s.row >= 0 /\ s.col \in Int /\ s.col >= 0
    BY ScreenAssumption DEF Laid, ScreenTo
  <2>2. Laid(ncBackspace(s), PageErase(p, s, ncBackspace(s)))
    BY <2>1, EraseInRowLaid, EraseAcrossLaid, EraseNothing
  <2>3. ncPrintChar(s, c) = ncBackspace(s)
    BY <1>2 DEF ncPrintChar, Newline, Backspace
  <2>4. PagePrint(p, c, s, ncBackspace(s)) = PageErase(p, s, ncBackspace(s))
    BY <1>2 DEF PagePrint, Newline, Backspace
  <2> QED BY <2>2, <2>3, <2>4
<1>3. CASE c # Newline /\ c # Backspace
  <2>1. ncPrintChar(s, c) = Wrap(Paint(s, c))
    BY <1>3 DEF ncPrintChar
  <2>2. \A n : PagePrint(p, c, s, n) = PageAdd(p, c)
    BY <1>3 DEF PagePrint
  <2> QED BY <2>1, <2>2, AddLaid
<1> QED BY <1>1, <1>2, <1>3

(* A cleared screen shows an empty page.                                   *)
LEMMA ClearLaid ==
  Laid(BlankScreen, NewPage)
<1>1. Columns \in Int /\ Columns > 0 /\ Rows \in Int /\ Rows >= 3
  BY ScreenAssumption
<1>2. PICK n : n = BlankScreen
  OBVIOUS
<1>3. n.row = 0 /\ n.col = 0 /\ n.cell = [r \in 0..(Rows - 1) |-> BlankRow] /\ n \in ScreenTo(Columns - 1)
  BY <1>1, <1>2, FilledIs DEF BlankScreen, ScreenTo
<1>4. /\ <<>> \in Seq(Row) /\ Len(<<>>) = 0 /\ <<>> \in Seq(Glyph) /\ NewPage \in PageType
      /\ NewPage.above = <<>> /\ NewPage.line = <<>>
  BY DEF NewPage, PageType
<1>5. n.cell[n.row] = Filled(<<>>) /\ BlankFrom(n, n.row + 1)
  BY <1>1, <1>3, FilledIs DEF BlankFrom
<1>6. RowsAbove(n, <<>>)
  BY <1>4 DEF RowsAbove
<1> QED BY <1>2, <1>3, <1>4, <1>5, <1>6 DEF Laid

(* Scrolled, it shows what it did, two rows further up, and the cursor has *)
(* stayed.                                                                 *)
LEMMA ScrollLaid ==
  ASSUME NEW s, NEW p, Laid(s, p)
  PROVE  Laid(ncScrollLines(s, 1), PageOf(ncScrollLines(s, 1)))
<1>1. Columns \in Int /\ Columns > 0 /\ Rows \in Int /\ Rows >= 3
  BY ScreenAssumption
<1>2. PICK row \in 0..(Rows - 1) : row = s.row
  BY DEF Laid, ScreenTo
<1>3. PICK cell \in [0..(Rows - 1) -> Row] : cell = s.cell
  BY DEF Laid, ScreenTo
<1>4. PICK col \in 0..(Columns - 1) : col = s.col
  BY DEF Laid, ScreenTo
<1> DEFINE up == [r \in 0..(Rows - 1) |-> IF r > Rows - 1 - 1 THEN cell[r] ELSE IF r + 2 * 1 < Rows THEN cell[r + 2 * 1] ELSE BlankRow]
<1>5. ncScrollLines(s, 1) = At(row, col, up)
  <2>1. PICK x : x = At(row, col, cell)
    OBVIOUS
  <2>2. s = x /\ x.cell = cell
    BY <1>2, <1>3, <1>4, <2>1, ScreenIsAt DEF Laid, At
  <2>3. \A m : [x EXCEPT !.cell = m] = At(row, col, m)
    BY <2>1 DEF At
  <2>4. ncScrollLines(s, 1) = [x EXCEPT !.cell = up]
    BY <2>2 DEF ncScrollLines, shiftUp
  <2> HIDE DEF up
  <2> QED BY <2>3, <2>4
<1>6. up \in [0..(Rows - 1) -> Row]
  BY <1>1, FilledIs
<1>7. \A r \in 0..(Rows - 1) : up[r] = IF r > Rows - 2 THEN cell[r] ELSE IF r + 2 < Rows THEN cell[r + 2] ELSE BlankRow
  BY <1>1
<1> HIDE DEF up
<1>8. PICK n : n = At(row, col, up)
  OBVIOUS
<1>9. n.row = row /\ n.col = col /\ n.cell = up /\ n \in ScreenTo(Columns - 1)
  BY <1>6, <1>8 DEF At, ScreenTo
<1>10. \A r \in 0..(Rows - 1) : r >= row + 1 => cell[r] = BlankRow
  BY <1>2, <1>3 DEF Laid, BlankFrom
<1>11. \A r \in 0..(Rows - 1) : r >= row + 1 => up[r] = BlankRow
  BY <1>1, <1>7, <1>10
<1>12. up[row] = cell[row] \/ up[row] = BlankRow
  BY <1>1, <1>7, <1>10
<1>13. \A c \in 0..(Columns - 1) : c >= col => up[row][c] = Blank
  <2>1. \A c \in 0..(Columns - 1) : c >= col => cell[row][c] = Blank
    BY <1>1, <1>2, <1>3, <1>4 DEF Laid, Filled
  <2>2. \A c \in 0..(Columns - 1) : BlankRow[c] = Blank
    BY DEF BlankRow
  <2> QED BY <1>12, <2>1, <2>2
<1>14. BlankFrom(n, n.row + 1)
  BY <1>9, <1>11 DEF BlankFrom
<1> QED BY <1>5, <1>8, <1>9, <1>13, <1>14, PageOfLaid

-----------------------------------------------------------------------------
(* The types of the buffers and of the calls: what is printed is a glyph.  *)
BufferType == [buffer : [0..(BufferSize - 1) -> Glyph], size : 0..BufferSize,
               enq : 0..(BufferSize - 1), deq : 0..(BufferSize - 1)]
WriteType   == [file : Device, left : Seq(ProgramChars)]

OutputType ==
  /\ ring \in [Device -> BufferType]
  /\ pc \in [Writer -> Points] /\ call \in [Writer -> WriteType]
  /\ \A p \in Writer : pc[p] \in {"test", "put"} => call[p].left # <<>>

(* What each operation does to a buffer, field by field.                   *)
LEMMA BufferIs ==
  ASSUME NEW b \in BufferType, NEW c
  PROVE  /\ Stored(b, c) = [buffer |-> [b.buffer EXCEPT ![b.enq] = c], size |-> b.size + 1,
                             enq |-> Next1(b.enq), deq |-> b.deq]
         /\ Popped(b) = [buffer |-> b.buffer, size |-> b.size,
                          enq |-> IF b.enq = 0 THEN BufferSize - 1 ELSE b.enq - 1, deq |-> b.deq]
         /\ Taken(b) = [buffer |-> b.buffer, size |-> b.size - 1, enq |-> b.enq, deq |-> Next1(b.deq)]
<1>1. PICK u, z, e, q : b = [buffer |-> u, size |-> z, enq |-> e, deq |-> q]
  BY DEF BufferType
<1>2. b.buffer = u /\ b.size = z /\ b.enq = e /\ b.deq = q
  BY <1>1
<1> DEFINE R(a, s, i, j) == [buffer |-> a, size |-> s, enq |-> i, deq |-> j]
<1>3. PICK m : m = [u EXCEPT ![e] = c]
  OBVIOUS
<1>4. \A x : [b EXCEPT !.enq = x] = R(u, z, x, q)
  BY <1>1
<1>5. \A x, y : [b EXCEPT !.buffer[e] = c, !.enq = x, !.size = y] = R(m, y, x, q)
  <2> TAKE x, y
  <2>1. [b EXCEPT !.buffer[e] = c] = R(m, z, e, q)
    BY <1>1, <1>3
  <2>2. [R(m, z, e, q) EXCEPT !.enq = x] = R(m, z, x, q)
    OBVIOUS
  <2>3. [R(m, z, x, q) EXCEPT !.size = y] = R(m, y, x, q)
    OBVIOUS
  <2>4. [b EXCEPT !.buffer[e] = c, !.enq = x, !.size = y]
          = [[[b EXCEPT !.buffer[e] = c] EXCEPT !.enq = x] EXCEPT !.size = y]
    OBVIOUS
  <2> QED BY <2>1, <2>2, <2>3, <2>4
<1>6. \A x, y : [b EXCEPT !.size = y, !.deq = x] = R(u, y, e, x)
  <2> TAKE x, y
  <2>1. [b EXCEPT !.size = y] = R(u, y, e, q)
    BY <1>1
  <2>2. [R(u, y, e, q) EXCEPT !.deq = x] = R(u, y, e, x)
    OBVIOUS
  <2>3. [b EXCEPT !.size = y, !.deq = x] = [[b EXCEPT !.size = y] EXCEPT !.deq = x]
    OBVIOUS
  <2> QED BY <2>1, <2>2, <2>3
<1>7. Stored(b, c) = R(m, z + 1, Next1(e), q)
  <2>1. Stored(b, c) = [b EXCEPT !.buffer[e] = c, !.enq = Next1(e), !.size = z + 1]
    BY <1>2 DEF Stored
  <2> QED BY <1>5, <2>1
<1>8. Popped(b) = R(u, z, IF e = 0 THEN BufferSize - 1 ELSE e - 1, q)
  BY <1>2, <1>4 DEF Popped
<1>9. Taken(b) = R(u, z - 1, e, Next1(q))
  <2>1. Taken(b) = [b EXCEPT !.size = z - 1, !.deq = Next1(q)]
    BY <1>2 DEF Taken
  <2> QED BY <1>6, <2>1
<1> QED BY <1>2, <1>3, <1>7, <1>8, <1>9

(* The operations keep a buffer in its bounds.                             *)
LEMMA BuffersAre ==
  ASSUME NEW b \in BufferType, NEW c \in Glyph
  PROVE  /\ b.size < BufferSize => Stored(b, c) \in BufferType
         /\ Popped(b) \in BufferType
         /\ b.size > 0 => Taken(b) \in BufferType
<1>1. BufferSize \in Int /\ BufferSize > 0
  BY TerminalAssumption
<1>2. b.size \in Int /\ b.size >= 0 /\ b.enq \in 0..(BufferSize - 1) /\ b.deq \in 0..(BufferSize - 1)
  BY <1>1 DEF BufferType
<1>3. \A i \in 0..(BufferSize - 1) : Next1(i) \in 0..(BufferSize - 1)
  BY <1>1 DEF Next1
<1>4. [b.buffer EXCEPT ![b.enq] = c] \in [0..(BufferSize - 1) -> Glyph] /\ b.buffer \in [0..(BufferSize - 1) -> Glyph]
  BY DEF BufferType
<1>5. (IF b.enq = 0 THEN BufferSize - 1 ELSE b.enq - 1) \in 0..(BufferSize - 1)
  BY <1>1, <1>2
<1>6. b.size < BufferSize => Stored(b, c) \in BufferType
  <2>1. b.size < BufferSize => b.size + 1 \in 0..BufferSize
    BY <1>1, <1>2
  <2>2. Next1(b.enq) \in 0..(BufferSize - 1)
    BY <1>2, <1>3
  <2>3. PICK u \in [0..(BufferSize - 1) -> Glyph] : u = [b.buffer EXCEPT ![b.enq] = c]
    BY <1>4
  <2>4. PICK e \in 0..(BufferSize - 1) : e = Next1(b.enq)
    BY <2>2
  <2>5. Stored(b, c) = [buffer |-> u, size |-> b.size + 1, enq |-> e, deq |-> b.deq]
    BY <2>3, <2>4, BufferIs
  <2> QED BY <1>2, <2>1, <2>5 DEF BufferType
<1>7. Popped(b) \in BufferType
  BY <1>2, <1>4, <1>5, BufferIs DEF BufferType
<1>8. b.size > 0 => Taken(b) \in BufferType
  <2>1. b.size > 0 => b.size - 1 \in 0..BufferSize
    BY <1>1, BufferSize \in Int, b.size \in 0..BufferSize DEF BufferType
  <2>2. Next1(b.deq) \in 0..(BufferSize - 1) /\ b.buffer \in [0..(BufferSize - 1) -> Glyph]
    BY <1>2, <1>3 DEF BufferType
  <2> QED BY <1>2, <2>1, <2>2, BufferIs DEF BufferType
<1> QED BY <1>6, <1>7, <1>8


(* At the start the buffers and the screen are empty.                      *)
LEMMA InitOutput == Init => OutputType /\ Laid(screen, page)
<1> SUFFICES ASSUME Init PROVE OutputType /\ Laid(screen, page)
  OBVIOUS
<1>1. BufferSize \in Int /\ BufferSize > 0
  BY TerminalAssumption
<1>2. Laid(screen, page)
  BY ClearLaid DEF Init
<1>3. ring \in [Device -> BufferType]
  <2>1. [buffer |-> [i \in 0..(BufferSize - 1) |-> Blank], size |-> 0, enq |-> 0, deq |-> 0] \in BufferType
    BY <1>1 DEF BufferType, Glyph
  <2> QED BY <2>1 DEF Init
<1>4. pc \in [Writer -> Points] /\ \A p \in Writer : pc[p] = "user"
  BY DEF Init, Points
<1>5. call \in [Writer -> WriteType]
  BY DEF Init, NoCall, WriteType, Device
<1> QED BY <1>2, <1>3, <1>4, <1>5 DEF OutputType

(* A step of a call changes it alone.                                      *)
LEMMA ContinueIs ==
  ASSUME OutputType, NEW p \in Writer, NEW left \in Seq(ProgramChars), Continue(p, left)
  PROVE  /\ pc' \in [Writer -> Points] /\ call' \in [Writer -> WriteType]
         /\ \A q \in Writer : pc'[q] \in {"test", "put"} => call'[q].left # <<>>
<1>1. PICK mine \in WriteType : mine = call[p]
  BY DEF OutputType
<1>2. call' = [call EXCEPT ![p] = [mine EXCEPT !.left = left]]
  BY <1>1 DEF Continue
<1>3. [mine EXCEPT !.left = left] \in WriteType /\ [mine EXCEPT !.left = left].left = left
  BY DEF WriteType
<1>4. call' \in [Writer -> WriteType] /\ call'[p].left = left
      /\ \A q \in Writer : q # p => call'[q] = call[q]
  BY <1>2, <1>3 DEF OutputType
<1>5. pc' = [pc EXCEPT ![p] = IF left = <<>> THEN "user" ELSE "test"]
  BY DEF Continue, Goto
<1>6. pc' \in [Writer -> Points] /\ (pc'[p] \in {"test", "put"} => left # <<>>)
      /\ \A q \in Writer : q # p => pc'[q] = pc[q]
  BY <1>5 DEF OutputType, Points
<1> QED BY <1>4, <1>6 DEF OutputType

(* Every step types and prints what may be on the screen.                  *)
LEMMA StepOutput ==
  OutputType /\ Laid(screen, page) /\ [Next]_(vars)
    => OutputType' /\ Laid(screen, page)'
<1> SUFFICES ASSUME OutputType, Laid(screen, page), [Next]_(vars)
             PROVE  OutputType' /\ Laid(screen', page')
  BY DEF Laid
<1> DEFINE CallsTyped == /\ pc' \in [Writer -> Points] /\ call' \in [Writer -> WriteType]
                         /\ \A q \in Writer : pc'[q] \in {"test", "put"} => call'[q].left # <<>>
           SameScreen == screen' = screen /\ page' = page
           SameRing   == ring' \in [Device -> BufferType]
<1>1. BufferSize \in Int /\ BufferSize > 0
  BY TerminalAssumption
<1>2. SameScreen => Laid(screen', page')
  OBVIOUS
<1>3. ring' = ring => SameRing
  BY DEF OutputType
<1>4. pc' = pc /\ call' = call => CallsTyped
  BY DEF OutputType
<1>5. ASSUME NEW p \in Writer, NEW point \in Points, Goto(p, point), call' = call,
             point \in {"test", "put"} => call[p].left # <<>>
      PROVE  CallsTyped
  <2>1. pc' = [pc EXCEPT ![p] = point]
    BY <1>5 DEF Goto
  <2> QED BY <1>5, <2>1 DEF OutputType
<1>6. ASSUME NEW p \in Writer, NEW d \in Device, NEW left \in Seq(ProgramChars), NEW point \in Points,
             Goto(p, point), call' = [call EXCEPT ![p] = [file |-> d, left |-> left]],
             point \in {"test", "put"} => left # <<>>
      PROVE  CallsTyped
  <2>1. pc' = [pc EXCEPT ![p] = point]
    BY <1>6 DEF Goto
  <2>2. [file |-> d, left |-> left] \in WriteType /\ [file |-> d, left |-> left].left = left
    BY DEF WriteType
  <2> QED BY <1>6, <2>1, <2>2 DEF OutputType
<1>7. ASSUME NEW c \in Glyph, PrintChar(c) PROVE Laid(screen', page')
  <2>1. screen' = ncPrintChar(screen, c) /\ page' = PagePrint(page, c, screen, screen')
    BY <1>7 DEF PrintChar
  <2> QED BY <2>1, PrintLaid
<1>8. ASSUME NEW d \in Device, NEW b, b \in BufferType, ring' = [ring EXCEPT ![d] = b] PROVE SameRing
  BY <1>8 DEF OutputType
<1>9. ASSUME NEW p \in Writer, NEW d \in Device, NEW text \in Text[p], CallWrite(p, d, text)
       PROVE  SameScreen /\ SameRing /\ CallsTyped
  <2>1. text \in Seq(ProgramChars) /\ text # <<>>
    BY TerminalAssumption
  <2>2. /\ Goto(p, "test") /\ call' = [call EXCEPT ![p] = [file |-> d, left |-> text]]
        /\ SameScreen /\ ring' = ring
    BY <1>9 DEF CallWrite, shown
  <2>3. CallsTyped
    BY <1>6, <2>1, <2>2 DEF Points
  <2> QED BY <1>3, <2>2, <2>3
<1>10. ASSUME NEW p \in Writer, NEW d \in Device, CallFlush(p, d)
       PROVE  SameScreen /\ SameRing /\ CallsTyped
  <2>1. /\ Goto(p, "flush") /\ call' = [call EXCEPT ![p] = [file |-> d, left |-> <<>>]]
        /\ SameScreen /\ ring' = ring
    BY <1>10 DEF CallFlush, shown
  <2>2. <<>> \in Seq(ProgramChars)
    OBVIOUS
  <2>3. CallsTyped
    BY <1>6, <2>1, <2>2 DEF Points
  <2> QED BY <1>3, <2>1, <2>3
<1>11. ASSUME NEW p \in Writer, Clear(p) PROVE Laid(screen', page') /\ SameRing /\ CallsTyped
  BY <1>3, <1>4, <1>11, ClearLaid DEF Clear, ncClear
<1>12. ASSUME NEW p \in Writer, Scroll(p) PROVE Laid(screen', page') /\ SameRing /\ CallsTyped
  <2>1. screen' = ncScrollLines(screen, 1) /\ page' = PageOf(screen')
    BY <1>12 DEF Scroll
  <2>2. Laid(screen', page')
    BY <2>1, ScrollLaid
  <2> QED BY <1>3, <1>4, <1>12, <2>2 DEF Scroll
<1>13. ASSUME NEW p \in Writer, TestFull(p) PROVE SameScreen /\ SameRing /\ CallsTyped
  <2>1. /\ Goto(p, "put") /\ call' = call /\ SameScreen /\ ring' = ring /\ pc[p] = "test"
    BY <1>13 DEF TestFull, shown
  <2>2. call[p].left # <<>>
    BY <2>1 DEF OutputType
  <2> QED BY <1>3, <1>5, <2>1, <2>2 DEF Points
<1>14. ASSUME NEW p \in Writer, Put(p) PROVE SameScreen /\ SameRing /\ CallsTyped
  <2>1. PICK mine \in WriteType : mine = call[p]
    BY DEF OutputType
  <2>2. /\ mine.file \in Device /\ mine.left \in Seq(ProgramChars) /\ mine.left # <<>>
        /\ Head(mine.left) \in ProgramChars /\ Tail(mine.left) \in Seq(ProgramChars)
        /\ <<>> \in Seq(ProgramChars)
    <3>1. pc[p] = "put"
      BY <1>14 DEF Put
    <3>2. mine.file \in Device /\ mine.left \in Seq(ProgramChars) /\ mine.left # <<>>
      BY <2>1, <3>1 DEF OutputType, WriteType
    <3> QED BY <3>2
  <2>3. PICK d \in Device, c \in ProgramChars : d = mine.file /\ c = Head(mine.left)
    BY <2>2
  <2>4. PICK left \in Seq(ProgramChars) :
          /\ IF c = Backspace THEN PopChar(d) ELSE EnqueueChar(d, c)
          /\ IF c = Newline THEN call' = [call EXCEPT ![p].left = left] /\ Goto(p, "flush")
                              ELSE Continue(p, left)
          /\ SameScreen
    BY <1>14, <2>1, <2>2, <2>3 DEF Put, shown
  <2>5. PICK b \in BufferType : b = ring[d]
    BY DEF OutputType
  <2>6. b.size \in 0..BufferSize /\ c \in Glyph
    BY <2>5 DEF BufferType, Glyph
  <2>7. SameRing
    <3>1. ASSUME PopChar(d) PROVE SameRing
      <4>1. ring' = ring \/ ring' = [ring EXCEPT ![d] = Popped(b)]
        BY <2>5, <3>1 DEF PopChar
      <4> QED BY <1>3, <1>8, <2>5, <2>6, <4>1, BuffersAre
    <3>2. ASSUME EnqueueChar(d, c) PROVE SameRing
      <4>1. ring' = ring \/ (b.size # BufferSize /\ ring' = [ring EXCEPT ![d] = Stored(b, c)])
        BY <2>5, <3>2 DEF EnqueueChar, isFull
      <4>2. b.size # BufferSize => b.size < BufferSize
        BY <1>1, <2>6
      <4> QED BY <1>3, <1>8, <2>5, <2>6, <4>1, <4>2, BuffersAre
    <3> QED BY <2>4, <3>1, <3>2
  <2>8. CallsTyped
    <3>1. CASE c # Newline
      BY <2>4, <3>1, ContinueIs
    <3>2. CASE c = Newline
      <4>1. call' = [call EXCEPT ![p] = [mine EXCEPT !.left = left]] /\ pc' = [pc EXCEPT ![p] = "flush"]
        BY <2>1, <2>4, <3>2 DEF Goto
      <4>2. [mine EXCEPT !.left = left] \in WriteType
        BY DEF WriteType
      <4> QED BY <4>1, <4>2 DEF OutputType, Points
    <3> QED BY <3>1, <3>2
  <2> QED BY <2>4, <2>7, <2>8
<1>15. ASSUME NEW p \in Writer, FlushEnd(p) PROVE SameScreen /\ SameRing /\ CallsTyped
  <2>1. Continue(p, call[p].left) /\ SameScreen /\ ring' = ring
    BY <1>15 DEF FlushEnd, shown
  <2>2. call[p].left \in Seq(ProgramChars)
    BY DEF OutputType, WriteType
  <2> QED BY <1>3, <2>1, <2>2, ContinueIs
<1>16. ASSUME NEW p \in Writer, FlushTest(p) PROVE SameScreen /\ SameRing /\ CallsTyped
  <2>1. Goto(p, "drain") /\ call' = call /\ SameScreen /\ ring' = ring
    BY <1>16 DEF FlushTest, shown
  <2> QED BY <1>3, <1>5, <2>1 DEF Points
<1>17. ASSUME NEW p \in Writer, Drain(p) PROVE Laid(screen', page') /\ SameRing /\ CallsTyped
  <2>1. PICK d \in Device : d = call[p].file
    BY DEF OutputType, WriteType
  <2>2. PICK b \in BufferType : b = ring[d]
    BY DEF OutputType
  <2>3. PICK c \in Glyph : c = IF isEmpty(d) THEN "garbage" ELSE ring[d].buffer[ring[d].deq]
    <3>1. b.buffer[b.deq] \in Glyph /\ "garbage" \in Glyph
      BY DEF BufferType, Glyph
    <3> QED BY <2>2, <3>1
  <2>4. DequeueChar(d) /\ PrintChar(c) /\ Goto(p, "flush") /\ call' = call
    BY <1>17, <2>1, <2>3 DEF Drain
  <2>5. SameRing
    <3>1. ring' = ring \/ (b.size # 0 /\ ring' = [ring EXCEPT ![d] = Taken(b)])
      BY <2>2, <2>4 DEF DequeueChar, isEmpty
    <3>2. b.size # 0 => b.size > 0
      BY <1>1 DEF BufferType
    <3> QED BY <1>3, <1>8, <2>3, <3>1, <3>2, BuffersAre
  <2> QED BY <1>5, <1>7, <2>4, <2>5 DEF Points
<1>18. ASSUME NEW c \in Key, Echo(c) PROVE Laid(screen', page') /\ SameRing /\ CallsTyped
  <2>1. SameScreen \/ PrintChar(c)
    BY <1>18 DEF Echo, shown
  <2>2. c \in Glyph
    BY DEF Glyph
  <2>3. ring' = ring /\ pc' = pc /\ call' = call
    BY <1>18 DEF Echo
  <2> QED BY <1>2, <1>3, <1>4, <1>7, <2>1, <2>2, <2>3
<1>19. ASSUME UNCHANGED vars PROVE SameScreen /\ SameRing /\ CallsTyped
  BY <1>3, <1>4, <1>19 DEF vars, shown
<1>20. SameRing /\ CallsTyped => OutputType'
  BY DEF OutputType
<1>21. Laid(screen', page') /\ SameRing /\ CallsTyped
  <2> HIDE DEF SameScreen, SameRing, CallsTyped
  <2>1. ASSUME NEW p \in Writer, InCall(p) \/ Yield(p) \/ Calls(p)
        PROVE  Laid(screen', page') /\ SameRing /\ CallsTyped
    <3>1. CASE InCall(p)
      BY <1>2, <1>13, <1>14, <1>15, <1>16, <1>17, <3>1 DEF InCall
    <3>2. CASE Yield(p)
      BY <1>2, <1>19, <3>2 DEF Yield
    <3>3. CASE Calls(p)
      BY <1>2, <1>9, <1>10, <1>11, <1>12, <3>3 DEF Calls
    <3> QED BY <2>1, <3>1, <3>2, <3>3
  <2> QED BY <1>2, <1>18, <1>19, <2>1 DEF Next, Done
<1> QED BY <1>20, <1>21

(* ScreenIsTail: however lines wrap, scroll and are erased across rows, the*)
(* screen shows the end of what was printed and typed, for every size of   *)
(* the screen and the buffers, and wherever ticks and keys come.           *)
THEOREM ScreenShowsTheTail ==
  Spec => []ScreenIsTail
<1>1. Init => OutputType /\ Laid(screen, page)
  BY InitOutput
<1>2. OutputType /\ Laid(screen, page) /\ [Next]_(vars) => OutputType' /\ Laid(screen, page)'
  BY StepOutput
<1>3. OutputType /\ Laid(screen, page) => ScreenIsTail
  BY LaidShows DEF ScreenIsTail
<1> QED BY <1>1, <1>2, <1>3, PTL DEF Spec

-----------------------------------------------------------------------------
(* Nobody is switched away from between finding a buffer not empty and     *)
(* taking its first character, and programs print no backspaces: the two   *)
(* exceptions the README describes.                                        *)
TicksSpareDrain    == "drain" \notin TickPoints
NobodyTakesBack    == Backspace \notin ProgramChars

(* The slot of the i-th character of a buffer whose first one is at first. *)
Slot(first, i) == IF first + i <= BufferSize THEN first + i - 1 ELSE first + i - 1 - BufferSize

(* What a buffer holds from its first character on is what it owes, the    *)
(* next one goes behind that, and who is about to take one will find one.  *)
Owes(b, o) == /\ o = [i \in 1..b.size |-> b.buffer[Slot(b.deq, i)]]
              /\ b.enq = Slot(b.deq, b.size + 1)
Owing == /\ owed = [d \in Device |-> owed[d]] /\ \A d \in Device : Owes(ring[d], owed[d])
         /\ \A p \in Writer : pc[p] = "drain" => ring[call[p].file].size # 0

(* Slots are counted modulo the size of the buffer, and no two characters  *)
(* have the same one.                                                      *)
LEMMA SlotIsModulo ==
  ASSUME NEW first \in 0..(BufferSize - 1), NEW i \in 1..BufferSize
  PROVE  (first + i - 1) % BufferSize = Slot(first, i)
<1>1. PICK n \in Nat \ {0} : n = BufferSize
  BY TerminalAssumption
<1>2. PICK x \in Nat : x = first + i - 1
  BY <1>1
<1>3. PICK q \in Int, r \in Int : q = x \div n /\ r = x % n
  BY <1>1, <1>2
<1>4. x = n * q + r /\ 0 <= r /\ r < n /\ x < n + n
  BY <1>1, <1>2, <1>3
<1>5. q = 0 \/ q = 1
  <2>1. CASE q <= -1
    <3>1. n * (q + 1) <= 0
      BY <1>1, <2>1
    <3> QED BY <1>1, <1>4, <3>1
  <2>2. CASE q >= 2
    <3>1. n * (q - 2) >= 0
      BY <1>1, <2>2
    <3> QED BY <1>1, <1>4, <3>1
  <2> QED BY <1>3, <2>1, <2>2
<1>6. r = IF x < n THEN x ELSE x - n
  BY <1>1, <1>4, <1>5
<1> QED BY <1>1, <1>2, <1>3, <1>6 DEF Slot

LEMMA SlotsDiffer ==
  ASSUME NEW first \in 0..(BufferSize - 1), NEW i \in 1..BufferSize
  PROVE  /\ Slot(first, i) \in 0..(BufferSize - 1) /\ Slot(first, i + 1) = Next1(Slot(first, i))
         /\ \A j \in 1..BufferSize : j # i => Slot(first, j) # Slot(first, i)
BY TerminalAssumption DEF Slot, Next1

(* A character put in is owed last; a character taken was owed first.      *)
LEMMA StoredIsOwed ==
  ASSUME NEW b \in BufferType, NEW o, NEW c \in Glyph, Owes(b, o), b.size # BufferSize
  PROVE  Owes(Stored(b, c), Append(o, c))
<1>1. BufferSize \in Int /\ BufferSize > 0
  BY TerminalAssumption
<1>2. PICK z \in 0..(BufferSize - 1), first \in 0..(BufferSize - 1) : z = b.size /\ first = b.deq
  BY <1>1 DEF BufferType
<1>3. PICK e \in 0..(BufferSize - 1), u \in [0..(BufferSize - 1) -> Glyph] : e = b.enq /\ u = b.buffer
  BY DEF BufferType
<1>4. o = [i \in 1..z |-> u[Slot(first, i)]] /\ e = Slot(first, z + 1)
  BY <1>2, <1>3 DEF Owes
<1>5. z + 1 \in 1..BufferSize
  BY <1>1, <1>2
<1>6. PICK a : a = Stored(b, c)
  OBVIOUS
<1>7. a.buffer = [u EXCEPT ![e] = c] /\ a.size = z + 1 /\ a.enq = Next1(e) /\ a.deq = first
  BY <1>2, <1>3, <1>6, BufferIs
<1>8. a.enq = Slot(first, a.size + 1)
  BY <1>4, <1>5, <1>7, SlotsDiffer
<1>9. \A i \in 1..(z + 1) : a.buffer[Slot(first, i)] = IF i = z + 1 THEN c ELSE u[Slot(first, i)]
  <2> SUFFICES ASSUME NEW i \in 1..(z + 1)
               PROVE  a.buffer[Slot(first, i)] = IF i = z + 1 THEN c ELSE u[Slot(first, i)]
    OBVIOUS
  <2>1. i \in 1..BufferSize
    BY <1>1, <1>2
  <2>2. Slot(first, i) \in 0..(BufferSize - 1) /\ (i # z + 1 => Slot(first, i) # e)
    BY <1>4, <1>5, <2>1, SlotsDiffer
  <2> QED BY <1>4, <1>7, <2>2
<1>10. Append(o, c) = [i \in 1..a.size |-> a.buffer[Slot(first, i)]]
  <2>1. PICK f : f = [i \in 1..z |-> u[Slot(first, i)]]
    OBVIOUS
  <2>2. f \in Seq(Glyph) /\ Len(f) = z
    <3>1. \A i \in 1..z : u[Slot(first, i)] \in Glyph
      <4>1. \A i \in 1..z : i \in 1..BufferSize
        BY <1>1, <1>2
      <4> QED BY <4>1, SlotsDiffer
    <3> QED BY <1>2, <2>1, <3>1
  <2>3. PICK g : g = [i \in 1..(z + 1) |-> a.buffer[Slot(first, i)]]
    OBVIOUS
  <2>4. \A i \in 1..(z + 1) : g[i] = IF i = z + 1 THEN c ELSE f[i]
    <3> SUFFICES ASSUME NEW i \in 1..(z + 1) PROVE g[i] = IF i = z + 1 THEN c ELSE f[i]
      OBVIOUS
    <3>1. i # z + 1 => i \in 1..z
      BY <1>2
    <3> QED BY <1>9, <2>1, <2>3, <3>1
  <2>5. g \in Seq(Glyph) /\ Len(g) = z + 1
    <3>1. \A i \in 1..(z + 1) : g[i] \in Glyph
      <4> SUFFICES ASSUME NEW i \in 1..(z + 1) PROVE g[i] \in Glyph
        OBVIOUS
      <4>1. i # z + 1 => i \in 1..z /\ f[i] \in Glyph
        BY <1>2, <2>2
      <4> QED BY <2>4, <4>1
    <3>2. z + 1 \in Nat
      BY <1>2
    <3>3. g \in [1..(z + 1) -> Glyph]
      BY <2>3, <3>1
    <3> QED BY <3>2, <3>3
  <2>6. Append(f, c) \in Seq(Glyph) /\ Len(Append(f, c)) = z + 1
        /\ \A i \in 1..(z + 1) : Append(f, c)[i] = IF i = z + 1 THEN c ELSE f[i]
    BY <1>2, <2>2
  <2>7. Append(f, c) = g
    BY <2>4, <2>5, <2>6, SeqEqual
  <2> QED BY <1>4, <1>7, <2>1, <2>3, <2>7
<1> QED BY <1>6, <1>7, <1>8, <1>10 DEF Owes

LEMMA TakenWasOwed ==
  ASSUME NEW b \in BufferType, NEW o, Owes(b, o), b.size # 0
  PROVE  Owes(Taken(b), Tail(o)) /\ o # <<>>
<1>1. BufferSize \in Int /\ BufferSize > 0
  BY TerminalAssumption
<1>2. PICK z \in 1..BufferSize, first \in 0..(BufferSize - 1) : z = b.size /\ first = b.deq
  BY <1>1 DEF BufferType
<1>3. PICK e \in 0..(BufferSize - 1), u \in [0..(BufferSize - 1) -> Glyph] : e = b.enq /\ u = b.buffer
  BY DEF BufferType
<1>4. o = [i \in 1..z |-> u[Slot(first, i)]] /\ e = Slot(first, z + 1)
  BY <1>2, <1>3 DEF Owes
<1>5. PICK a : a = Taken(b)
  OBVIOUS
<1>6. a.buffer = u /\ a.size = z - 1 /\ a.enq = e /\ a.deq = Next1(first)
  BY <1>2, <1>3, <1>5, BufferIs
<1>7. \A i \in 1..z : Slot(a.deq, i) = Slot(first, i + 1)
  <2> SUFFICES ASSUME NEW i \in 1..z PROVE Slot(Next1(first), i) = Slot(first, i + 1)
    BY <1>6
  <2>1. CASE first + 1 = BufferSize
    BY <1>1, <1>2, <2>1 DEF Slot, Next1
  <2>2. CASE first + 1 # BufferSize
    BY <1>1, <1>2, <2>2 DEF Slot, Next1
  <2> QED BY <2>1, <2>2
<1>8. a.enq = Slot(a.deq, a.size + 1)
  BY <1>1, <1>2, <1>4, <1>6, <1>7
<1>9. o \in Seq(Glyph) /\ Len(o) = z
  <2>1. \A i \in 1..z : u[Slot(first, i)] \in Glyph
    <3>1. \A i \in 1..z : i \in 1..BufferSize
      BY <1>1, <1>2
    <3> QED BY <3>1, SlotsDiffer
  <2> QED BY <1>2, <1>4, <2>1
<1>10. o # <<>> /\ Tail(o) \in Seq(Glyph) /\ Len(Tail(o)) = z - 1 /\ \A i \in 1..(z - 1) : Tail(o)[i] = o[i + 1]
  BY <1>2, <1>9
<1>11. \A i \in 1..(z - 1) : o[i + 1] = a.buffer[Slot(a.deq, i)]
  <2> SUFFICES ASSUME NEW i \in 1..(z - 1) PROVE o[i + 1] = a.buffer[Slot(a.deq, i)]
    OBVIOUS
  <2>1. i \in 1..z /\ i + 1 \in 1..z
    BY <1>1, <1>2
  <2>2. o[i + 1] = u[Slot(first, i + 1)]
    BY <1>4, <2>1
  <2>3. Slot(a.deq, i) = Slot(first, i + 1)
    BY <1>7, <2>1
  <2> QED BY <1>6, <2>2, <2>3
<1>12. Tail(o) = [i \in 1..a.size |-> a.buffer[Slot(a.deq, i)]]
  <2>1. PICK r \in Seq(Glyph) : r = Tail(o)
    BY <1>10
  <2>2. r = [i \in 1..(z - 1) |-> r[i]]
    <3>1. r \in [1..Len(r) -> Glyph] /\ Len(r) = z - 1
      BY <1>10, <2>1, LenProperties
    <3> QED BY <3>1
  <2> QED BY <1>6, <1>10, <1>11, <2>1, <2>2
<1> QED BY <1>5, <1>8, <1>10, <1>12 DEF Owes

(* At the start nothing is owed.                                           *)
LEMMA InitOwing == Init => Owing
<1> SUFFICES ASSUME Init PROVE Owing
  OBVIOUS
<1>1. BufferSize \in Int /\ BufferSize > 0
  BY TerminalAssumption
<1>2. ASSUME NEW d \in Device PROVE Owes(ring[d], owed[d])
  <2>1. ring[d].size = 0 /\ ring[d].enq = 0 /\ ring[d].deq = 0 /\ owed[d] = <<>>
    BY DEF Init
  <2> QED BY <1>1, <2>1 DEF Owes, Slot
<1>3. \A p \in Writer : pc[p] # "drain"
  BY DEF Init
<1>4. owed = [d \in Device |-> owed[d]]
  BY DEF Init
<1> QED BY <1>2, <1>3, <1>4 DEF Owing

(* What a step does to the buffers and their readers, for Owing.           *)
LEMMA StepOwing ==
  TicksSpareDrain /\ NobodyTakesBack /\ OutputType /\ Owing /\ [Next]_(vars) => Owing'
<1> SUFFICES ASSUME TicksSpareDrain, NobodyTakesBack, OutputType, Owing, [Next]_(vars)
             PROVE  Owing'
  OBVIOUS
<1> DEFINE Same    == ring' = ring /\ owed' = owed
           Drained == \A p \in Writer : pc'[p] = "drain" => ring'[call'[p].file].size # 0
<1>1. Same /\ Drained => Owing'
  BY DEF Owing
<1>2. Same /\ pc' = pc /\ call' = call => Drained
  BY DEF Owing
<1>3. \A p \in Writer : MayRun(p) => \A q \in Writer : q # p => pc[q] # "drain"
  BY DEF MayRun, TicksSpareDrain
<1>4. ASSUME NEW p \in Writer, MayRun(p), NEW point, Goto(p, point), point # "drain" PROVE Drained
  <2>1. pc' = [pc EXCEPT ![p] = point]
    BY <1>4 DEF Goto
  <2>2. \A q \in Writer : pc'[q] # "drain"
    BY <1>3, <1>4, <2>1 DEF OutputType
  <2> QED BY <2>2
<1>5. ASSUME NEW p \in Writer, NEW left, MayRun(p), Continue(p, left) PROVE Drained
  <2>1. Goto(p, IF left = <<>> THEN "user" ELSE "test")
    BY <1>5 DEF Continue
  <2> QED BY <1>4, <1>5, <2>1
<1>6. ASSUME NEW d \in Device, NEW b, NEW o, Owes(b, o), ring' = [ring EXCEPT ![d] = b],
             owed' = [owed EXCEPT ![d] = o], Drained
      PROVE  Owing'
  <2>1. owed' = [e \in Device |-> owed'[e]] /\ owed'[d] = o /\ \A e \in Device : e # d => owed'[e] = owed[e]
    BY <1>6 DEF Owing
  <2>2. ring'[d] = b /\ \A e \in Device : e # d => ring'[e] = ring[e]
    BY <1>6 DEF OutputType
  <2>3. \A e \in Device : Owes(ring'[e], owed'[e])
    BY <1>6, <2>1, <2>2 DEF Owing
  <2> QED BY <1>6, <2>1, <2>3 DEF Owing
<1>7. ASSUME NEW p \in Writer, NEW d \in Device, NEW text, CallWrite(p, d, text) PROVE Owing'
  <2>1. Same /\ MayRun(p) /\ Goto(p, "test")
    BY <1>7 DEF CallWrite
  <2> QED BY <1>1, <1>4, <2>1
<1>8. ASSUME NEW p \in Writer, NEW d \in Device, CallFlush(p, d) PROVE Owing'
  <2>1. Same /\ MayRun(p) /\ Goto(p, "flush")
    BY <1>8 DEF CallFlush
  <2> QED BY <1>1, <1>4, <2>1
<1>9. ASSUME NEW p \in Writer, Clear(p) \/ Scroll(p) PROVE Owing'
  BY <1>1, <1>2, <1>9 DEF Clear, Scroll
<1>10. ASSUME NEW p \in Writer, TestFull(p) PROVE Owing'
  <2>1. Same /\ MayRun(p) /\ Goto(p, "put")
    BY <1>10 DEF TestFull
  <2> QED BY <1>1, <1>4, <2>1
<1>11. ASSUME NEW p \in Writer, FlushEnd(p) PROVE Owing'
  <2>1. Same /\ MayRun(p) /\ Continue(p, call[p].left)
    BY <1>11 DEF FlushEnd
  <2> QED BY <1>1, <1>5, <2>1
<1>12. ASSUME NEW p \in Writer, FlushTest(p) PROVE Owing'
  <2>1. Same /\ MayRun(p) /\ call' = call /\ ring[call[p].file].size # 0
        /\ pc' = [pc EXCEPT ![p] = "drain"]
    BY <1>12 DEF FlushTest, isEmpty, Goto
  <2>2. \A q \in Writer : q # p => pc'[q] # "drain"
    BY <1>3, <2>1 DEF OutputType
  <2>3. Drained
    BY <2>1, <2>2
  <2> QED BY <1>1, <2>1, <2>3
<1>13. ASSUME NEW p \in Writer, Drain(p) PROVE Owing'
  <2>1. PICK d \in Device : d = call[p].file
    BY DEF OutputType, WriteType
  <2>2. PICK b \in BufferType : b = ring[d]
    BY DEF OutputType
  <2>3. b.size # 0
    BY <1>13, <2>1, <2>2 DEF Drain, Owing
  <2>4. ring' = [ring EXCEPT ![d] = Taken(b)] /\ owed' = [owed EXCEPT ![d] = Tail(owed[d])]
        /\ MayRun(p) /\ Goto(p, "flush")
    BY <1>13, <2>1, <2>2, <2>3 DEF Drain, DequeueChar, isEmpty
  <2>5. Owes(Taken(b), Tail(owed[d]))
    BY <2>2, <2>3, TakenWasOwed DEF Owing
  <2>6. Drained
    BY <1>4, <2>4
  <2> QED BY <1>6, <2>4, <2>5, <2>6
<1>14. ASSUME NEW p \in Writer, Put(p) PROVE Owing'
  <2>1. PICK mine \in WriteType : mine = call[p]
    BY DEF OutputType
  <2>2. mine.left \in Seq(ProgramChars) /\ mine.left # <<>> /\ mine.file \in Device
    BY <1>14, <2>1 DEF Put, OutputType, WriteType
  <2>3. PICK d \in Device, c \in ProgramChars : d = mine.file /\ c = Head(mine.left)
    BY <2>2
  <2>4. PICK left : /\ EnqueueChar(d, c) /\ MayRun(p)
                    /\ Goto(p, "flush") \/ Continue(p, left)
    <3>1. c # Backspace
      BY DEF NobodyTakesBack
    <3> QED BY <1>14, <2>1, <2>3, <3>1 DEF Put
  <2>5. Drained
    BY <1>4, <1>5, <2>4
  <2>6. PICK b \in BufferType : b = ring[d]
    BY DEF OutputType
  <2>7. CASE b.size = BufferSize
    <3>1. Same
      BY <2>4, <2>6, <2>7 DEF EnqueueChar, isFull
    <3> QED BY <1>1, <2>5, <3>1
  <2>8. CASE b.size # BufferSize
    <3>1. ring' = [ring EXCEPT ![d] = Stored(b, c)] /\ owed' = [owed EXCEPT ![d] = Append(owed[d], c)]
      BY <2>4, <2>6, <2>8 DEF EnqueueChar, isFull
    <3>2. c \in Glyph
      BY DEF Glyph
    <3>3. Owes(Stored(b, c), Append(owed[d], c))
      BY <2>6, <2>8, <3>2, StoredIsOwed DEF Owing
    <3> QED BY <1>6, <2>5, <3>1, <3>3
  <2> QED BY <2>7, <2>8
<1>15. ASSUME NEW c \in Key, Echo(c) PROVE Owing'
  BY <1>1, <1>2, <1>15 DEF Echo
<1>16. ASSUME UNCHANGED vars PROVE Owing'
  BY <1>1, <1>2, <1>16 DEF vars
<1>17. ASSUME NEW p \in Writer, InCall(p) \/ Yield(p) \/ Calls(p) PROVE Owing'
  BY <1>7, <1>8, <1>9, <1>10, <1>11, <1>12, <1>13, <1>14, <1>16, <1>17 DEF InCall, Yield, Calls
<1> QED BY <1>15, <1>16, <1>17 DEF Next, Done

(* OutputIsFIFO: whoever writes and whoever flushes, the characters that a *)
(* buffer took are printed once and in order, for buffers of every size and*)
(* any number of processes, under the two hypotheses.                      *)
THEOREM OutputComesInOrder ==
  ASSUME TicksSpareDrain, NobodyTakesBack
  PROVE  Spec => []OutputIsFIFO
<1>1. Init => OutputType /\ Laid(screen, page) /\ Owing
  BY InitOutput, InitOwing
<1>2. OutputType /\ Laid(screen, page) /\ Owing /\ [Next]_(vars)
        => OutputType' /\ Laid(screen, page)' /\ Owing'
  BY StepOutput, StepOwing
<1>3. OutputType /\ Owing => OutputIsFIFO
  <2> SUFFICES ASSUME OutputType, Owing, NEW d \in Device
               PROVE  /\ Contents(d) = owed[d]
                      /\ \A p \in Writer : pc[p] = "drain" /\ call[p].file = d => owed[d] # <<>>
    BY DEF OutputIsFIFO
  <2>1. PICK b \in BufferType : b = ring[d]
    BY DEF OutputType
  <2>2. BufferSize \in Nat \ {0}
    BY TerminalAssumption
  <2>3. b.deq \in 0..(BufferSize - 1) /\ b.size \in 0..BufferSize
    BY DEF BufferType
  <2>4. Owes(b, owed[d])
    BY <2>1 DEF Owing
  <2>5. Contents(d) = [i \in 1..b.size |-> b.buffer[Slot(b.deq, i)]]
    <3>1. Contents(d) = [i \in 1..b.size |-> b.buffer[(b.deq + i - 1) % BufferSize]]
      BY <2>1 DEF Contents
    <3>2. ASSUME NEW i \in 1..b.size PROVE (b.deq + i - 1) % BufferSize = Slot(b.deq, i)
      <4>1. i \in 1..BufferSize
        BY <2>2, <2>3
      <4> QED BY <2>3, <4>1, SlotIsModulo
    <3> QED BY <3>1, <3>2
  <2>6. Contents(d) = owed[d]
    BY <2>4, <2>5 DEF Owes
  <2>7. b.size # 0 => owed[d] # <<>>
    BY <2>1, <2>4, TakenWasOwed
  <2> QED BY <2>1, <2>6, <2>7 DEF Owing
<1> QED BY <1>1, <1>2, <1>3, PTL DEF Spec

-----------------------------------------------------------------------------
(* How many characters back from the cursor a cell is; and the cells that  *)
(* are n back or less, and have nothing that a program printed.            *)
Back(s, r, c) == (s.row - r) * Columns + s.col - c
NotPrinted(g) == g = Blank \/ g \notin ProgramChars
Spared(s, n) == \A r \in 0..(Rows - 1), c \in 0..(Columns - 1) : Back(s, r, c) <= n => NotPrinted(s.cell[r][c])

(* No key is taken for a character of a program but newline and backspace, *)
(* no key comes while a flush goes on, and rows are longer than one.       *)
KeysDiffer     == Key \cap ProgramChars \subseteq {Newline, Backspace}
KeysSpareFlush == {"flush", "drain"} \cap KeyPoints = {}

(* From the cursor on there is nothing.                                    *)
LEMMA LaidSpares ==
  ASSUME NEW s, NEW p, Laid(s, p) PROVE Spared(s, 0)
<1> SUFFICES ASSUME NEW r \in 0..(Rows - 1), NEW c \in 0..(Columns - 1), Back(s, r, c) <= 0
             PROVE  s.cell[r][c] = Blank
  BY DEF Spared, NotPrinted
<1>1. Columns \in Int /\ Columns > 0 /\ Rows \in Int
  BY ScreenAssumption
<1>2. PICK row \in 0..(Rows - 1), col \in 0..(Columns - 1) : row = s.row /\ col = s.col
  BY DEF Laid, ScreenTo
<1>3. ~(r < row)
  <2> SUFFICES ASSUME r < row PROVE FALSE
    OBVIOUS
  <2>1. PICK k \in Int : k = row - r /\ k >= 1
    BY <1>1
  <2>2. k * Columns >= Columns
    BY <1>1, <2>1
  <2>3. k * Columns \in Int
    BY <1>1
  <2>4. k * Columns + col - c <= 0
    BY <1>2, <2>1 DEF Back
  <2> QED BY <1>1, <2>2, <2>3, <2>4
<1>4. r = row => c >= col
  <2> SUFFICES ASSUME r = row PROVE c >= col
    OBVIOUS
  <2>1. (row - r) * Columns = 0
    BY <1>1
  <2> QED BY <1>1, <1>2, <2>1 DEF Back
<1>5. BlankAfterCursor(s)
  BY LaidShows
<1> QED BY <1>1, <1>2, <1>3, <1>4, <1>5 DEF BlankAfterCursor

(* A character typed at the cursor is one more that may be taken back; the *)
(* cursor does not go back.                                                *)
LEMMA TypeSpares ==
  ASSUME NEW s, NEW p, Laid(s, p), NEW n \in Int, Spared(s, n), NEW c, NotPrinted(c)
  PROVE  Spared(Wrap(Paint(s, c)), n + 1)
<1>1. Columns \in Int /\ Columns > 0 /\ Rows \in Int /\ Rows >= 3
  BY ScreenAssumption
<1>2. PICK row \in 0..(Rows - 1), col \in 0..(Columns - 1) : row = s.row /\ col = s.col
  BY DEF Laid, ScreenTo
<1>3. PICK cell \in [0..(Rows - 1) -> Row] : cell = s.cell
  BY DEF Laid, ScreenTo
<1>4. PICK m : m = Painted(cell, row, col, c)
  OBVIOUS
<1>5. ASSUME NEW r \in 0..(Rows - 1), NEW x \in 0..(Columns - 1), (row - r) * Columns + col - x <= n
      PROVE  NotPrinted(m[r][x])
  <2>1. cell[r] \in Row
    OBVIOUS
  <2>2. Back(s, r, x) = (row - r) * Columns + col - x
    BY <1>2 DEF Back
  <2>3. NotPrinted(cell[r][x])
    BY <1>3, <1>5, <2>2 DEF Spared
  <2>4. m[r][x] = c \/ m[r][x] = cell[r][x]
    BY <1>4, <2>1 DEF Painted, Row
  <2> QED BY <2>3, <2>4
<1>6. Paint(s, c) = At(row, col + 1, m)
  <2>1. s = At(row, col, cell)
    BY <1>2, <1>3, ScreenIsAt DEF Laid
  <2> QED BY <1>4, <2>1, PaintAt
<1>7. ASSUME NEW a, NEW b, NEW u,
             \A r \in 0..(Rows - 1), x \in 0..(Columns - 1) : (a - r) * Columns + b - x <= n + 1 => NotPrinted(u[r][x])
      PROVE  Spared(At(a, b, u), n + 1)
  BY <1>7 DEF At, Spared, Back
<1>8. CASE col + 1 < Columns
  <2>1. Wrap(Paint(s, c)) = At(row, col + 1, m)
    BY <1>6, <1>8, WrapAt
  <2> SUFFICES ASSUME NEW r \in 0..(Rows - 1), NEW x \in 0..(Columns - 1), (row - r) * Columns + (col + 1) - x <= n + 1
               PROVE  NotPrinted(m[r][x])
    BY <1>7, <2>1
  <2>2. PICK k \in Int : k = (row - r) * Columns
    BY <1>1
  <2>3. (row - r) * Columns + col - x <= n
    BY <2>2
  <2> QED BY <1>5, <2>3
<1>9. CASE col + 1 = Columns /\ row # Rows - 1
  <2>1. Wrap(Paint(s, c)) = At(row + 1, 0, m)
    BY <1>1, <1>6, <1>9, WrapAt
  <2> SUFFICES ASSUME NEW r \in 0..(Rows - 1), NEW x \in 0..(Columns - 1), (row + 1 - r) * Columns + 0 - x <= n + 1
               PROVE  NotPrinted(m[r][x])
    BY <1>7, <2>1
  <2>2. PICK k \in Int : k = (row - r) * Columns
    BY <1>1
  <2>3. (row + 1 - r) * Columns = k + Columns
    BY <1>1, <2>2
  <2>4. (row - r) * Columns + col - x <= n
    BY <1>1, <1>9, <2>2, <2>3
  <2> QED BY <1>5, <2>4
<1>10. CASE col + 1 = Columns /\ row = Rows - 1
  <2> DEFINE moved == [r \in 0..(Rows - 1) |-> IF r < Rows - 2 THEN m[r + 2] ELSE BlankRow]
  <2>1. Wrap(Paint(s, c)) = At(Rows - 2, 0, moved)
    <3>1. ~(col + 1 < Columns)
      BY <1>1, <1>10
    <3> HIDE DEF moved
    <3>2. Wrap(At(Rows - 1, col + 1, m)) = At(Rows - 2, 0, moved)
      BY <3>1, WrapScrolls DEF moved
    <3> QED BY <1>6, <1>10, <3>2
  <2>2. \A r \in 0..(Rows - 1) : moved[r] = IF r < Rows - 2 THEN m[r + 2] ELSE BlankRow
    OBVIOUS
  <2> HIDE DEF moved
  <2> SUFFICES ASSUME NEW r \in 0..(Rows - 1), NEW x \in 0..(Columns - 1), (Rows - 2 - r) * Columns + 0 - x <= n + 1
               PROVE  NotPrinted(moved[r][x])
    BY <1>7, <2>1
  <2>3. CASE r < Rows - 2
    <3>1. r + 2 \in 0..(Rows - 1)
      BY <1>1, <2>3
    <3>2. PICK k \in Int : k = (row - (r + 2)) * Columns
      BY <1>1
    <3>3. (Rows - 2 - r) * Columns = k + Columns
      BY <1>1, <1>10, <3>2
    <3>4. (row - (r + 2)) * Columns + col - x <= n
      BY <1>1, <1>10, <3>2, <3>3
    <3>5. moved[r] = m[r + 2]
      BY <2>2, <2>3
    <3> QED BY <1>5, <3>1, <3>4, <3>5
  <2>4. CASE ~(r < Rows - 2)
    BY <2>2, <2>4 DEF BlankRow, NotPrinted
  <2> QED BY <2>3, <2>4
<1> QED BY <1>1, <1>8, <1>9, <1>10

(* A backspace takes the last one back, and nothing else.                  *)
LEMMA EraseSpares ==
  ASSUME NEW s, NEW p, Laid(s, p), NEW n \in Nat \ {0}, Spared(s, n),
         NEW t, t = ncBackspace(s)
  PROVE  /\ Spared(t, n - 1)
         /\ \A r \in 0..(Rows - 1), c \in 0..(Columns - 1) :
              s.cell[r][c] \in ProgramChars => t.cell[r][c] = s.cell[r][c]
<1>1. Columns \in Int /\ Columns > 0 /\ Rows \in Int /\ Rows >= 3
  BY ScreenAssumption
<1>2. PICK row \in 0..(Rows - 1), col \in 0..(Columns - 1) : row = s.row /\ col = s.col
  BY DEF Laid, ScreenTo
<1>3. PICK cell \in [0..(Rows - 1) -> Row] : cell = s.cell
  BY DEF Laid, ScreenTo
<1>4. s = At(row, col, cell)
  BY <1>2, <1>3, ScreenIsAt DEF Laid
<1>5. \A a, b, u : At(a, b, u).row = a /\ At(a, b, u).col = b /\ At(a, b, u).cell = u
  BY DEF At
<1>6. ASSUME NEW a \in 0..(Rows - 1), NEW b \in 0..(Columns - 1), t = At(a, b, Painted(cell, a, b, Blank)),
             \A r \in 0..(Rows - 1), c \in 0..(Columns - 1) : (a - r) * Columns + b - c = (row - r) * Columns + col - c - 1
      PROVE  /\ Spared(t, n - 1)
             /\ \A r \in 0..(Rows - 1), c \in 0..(Columns - 1) :
                  s.cell[r][c] \in ProgramChars => t.cell[r][c] = s.cell[r][c]
  <2>1. t.row = a /\ t.col = b /\ t.cell = Painted(cell, a, b, Blank)
    BY <1>5, <1>6
  <2>2. ASSUME NEW r \in 0..(Rows - 1), NEW c \in 0..(Columns - 1)
        PROVE  /\ Back(t, r, c) <= n - 1 => NotPrinted(t.cell[r][c])
               /\ cell[r][c] \in ProgramChars => t.cell[r][c] = cell[r][c]
    <3>1. PICK k \in Int : k = (row - r) * Columns + col - c
      BY <1>1
    <3>2. Back(t, r, c) = k - 1 /\ Back(s, r, c) = k
      <4>1. (a - r) * Columns + b - c = (row - r) * Columns + col - c - 1
        BY <1>6
      <4>2. Back(t, r, c) = (a - r) * Columns + b - c /\ Back(s, r, c) = (row - r) * Columns + col - c
        BY <1>2, <2>1 DEF Back
      <4> QED BY <1>1, <3>1, <4>1, <4>2
    <3>3. k <= n => NotPrinted(cell[r][c])
      BY <1>3, <3>2 DEF Spared
    <3>4. cell[r] \in Row /\ cell[a] \in Row
      OBVIOUS
    <3>5. t.cell[r][c] = IF r = a /\ c = b THEN Blank ELSE cell[r][c]
      BY <2>1, <3>4 DEF Painted, Row
    <3>6. r = a /\ c = b => k = 1
      <4> SUFFICES ASSUME r = a, c = b PROVE k = 1
        OBVIOUS
      <4>1. (a - r) * Columns + b - c = 0
        BY <1>1
      <4>2. (a - r) * Columns + b - c = (row - r) * Columns + col - c - 1
        BY <1>6
      <4>3. PICK w \in Int : w = (row - r) * Columns
        BY <1>1
      <4> QED BY <3>1, <4>1, <4>2, <4>3
    <3> QED BY <3>2, <3>3, <3>5, <3>6 DEF NotPrinted
  <2> QED BY <1>3, <2>2 DEF Spared
<1>7. CASE col > 0
  <2>1. goBack(s) = At(row, col - 1, cell)
    BY <1>4, <1>7, GoBackAt
  <2>2. PICK m : m = Painted(cell, row, col - 1, Blank)
    OBVIOUS
  <2>3. Paint(At(row, col - 1, cell), Blank) = At(row, col, m)
    <3>1. Paint(At(row, col - 1, cell), Blank) = At(row, (col - 1) + 1, m)
      BY <2>2, PaintAt
    <3>2. (col - 1) + 1 = col
      BY <1>1
    <3> QED BY <3>1, <3>2
  <2>4. Wrap(At(row, col, m)) = At(row, col, m) /\ goBack(At(row, col, m)) = At(row, col - 1, m)
    BY <1>1, <1>7, WrapAt, GoBackAt
  <2>5. ncBackspace(s) = At(row, col - 1, m)
    BY <2>1, <2>3, <2>4 DEF ncBackspace
  <2>6. col - 1 \in 0..(Columns - 1)
    BY <1>1, <1>7
  <2>7. \A r \in 0..(Rows - 1), c \in 0..(Columns - 1) :
          (row - r) * Columns + (col - 1) - c = (row - r) * Columns + col - c - 1
    <3> SUFFICES ASSUME NEW r \in 0..(Rows - 1), NEW c \in 0..(Columns - 1)
                 PROVE  (row - r) * Columns + (col - 1) - c = (row - r) * Columns + col - c - 1
      OBVIOUS
    <3>1. (row - r) * Columns \in Int
      BY <1>1
    <3> QED BY <1>1, <3>1
  <2> QED BY <1>6, <2>2, <2>5, <2>6, <2>7
<1>8. CASE col = 0 /\ row > 0
  <2>1. goBack(s) = At(row - 1, Columns - 1, cell)
    BY <1>4, <1>8, GoBackAt
  <2>2. PICK m : m = Painted(cell, row - 1, Columns - 1, Blank)
    OBVIOUS
  <2>3. Paint(At(row - 1, Columns - 1, cell), Blank) = At(row - 1, Columns, m)
    <3>1. Paint(At(row - 1, Columns - 1, cell), Blank) = At(row - 1, (Columns - 1) + 1, m)
      BY <2>2, PaintAt
    <3>2. (Columns - 1) + 1 = Columns
      BY <1>1
    <3> QED BY <3>1, <3>2
  <2>4. Wrap(At(row - 1, Columns, m)) = At(row, 0, m)
    <3>1. Wrap(At(row - 1, Columns, m)) = At((row - 1) + 1, 0, m)
      BY <1>1, WrapAt
    <3>2. (row - 1) + 1 = row
      BY <1>1
    <3> QED BY <3>1, <3>2
  <2>5. goBack(At(row, 0, m)) = At(row - 1, Columns - 1, m)
    BY <1>8, GoBackAt
  <2>6. ncBackspace(s) = At(row - 1, Columns - 1, m)
    BY <2>1, <2>3, <2>4, <2>5 DEF ncBackspace
  <2>7. row - 1 \in 0..(Rows - 1) /\ Columns - 1 \in 0..(Columns - 1)
    BY <1>1, <1>8
  <2>8. \A r \in 0..(Rows - 1), c \in 0..(Columns - 1) :
          ((row - 1) - r) * Columns + (Columns - 1) - c = (row - r) * Columns + col - c - 1
    <3> SUFFICES ASSUME NEW r \in 0..(Rows - 1), NEW c \in 0..(Columns - 1)
                 PROVE  ((row - 1) - r) * Columns + (Columns - 1) - c = (row - r) * Columns + col - c - 1
      OBVIOUS
    <3>1. PICK k \in Int : k = (row - r) * Columns
      BY <1>1
    <3>2. ((row - 1) - r) * Columns = k - Columns
      BY <1>1, <3>1
    <3> QED BY <1>1, <1>8, <3>1, <3>2
  <2> QED BY <1>6, <2>2, <2>6, <2>7, <2>8
<1>9. CASE col = 0 /\ row = 0
  <2>1. ncBackspace(s) = s
    BY <1>2, <1>9, EraseNothing
  <2>2. ASSUME NEW r \in 0..(Rows - 1), NEW c \in 0..(Columns - 1), Back(s, r, c) <= n - 1 PROVE NotPrinted(s.cell[r][c])
    <3>1. Back(s, r, c) = (row - r) * Columns + col - c
      BY <1>2 DEF Back
    <3>2. (row - r) * Columns \in Int
      BY <1>1
    <3>3. Back(s, r, c) <= n
      BY <1>1, <2>2, <3>1, <3>2
    <3> QED BY <3>3 DEF Spared
  <2> QED BY <2>1, <2>2 DEF Spared
<1>10. col > 0 \/ (col = 0 /\ row > 0) \/ (col = 0 /\ row = 0)
  BY <1>1
<1> QED BY <1>7, <1>8, <1>9, <1>10

(* The rows that are scrolled away are the furthest back.                  *)
LEMMA ScrollSpares ==
  ASSUME NEW s, NEW p, Laid(s, p), NEW n \in Nat, Spared(s, n)
  PROVE  Spared(ncScrollLines(s, 1), n)
<1>1. Columns \in Int /\ Columns > 0 /\ Rows \in Int /\ Rows >= 3
  BY ScreenAssumption
<1>2. PICK row \in 0..(Rows - 1), col \in 0..(Columns - 1) : row = s.row /\ col = s.col
  BY DEF Laid, ScreenTo
<1>3. PICK cell \in [0..(Rows - 1) -> Row] : cell = s.cell
  BY DEF Laid, ScreenTo
<1>4. PICK t : t = ncScrollLines(s, 1)
  OBVIOUS
<1>5. /\ t.row = row /\ t.col = col
      /\ t.cell = [r \in 0..(Rows - 1) |->
                    IF r > Rows - 1 - 1 THEN cell[r] ELSE IF r + 2 * 1 < Rows THEN cell[r + 2 * 1] ELSE BlankRow]
  <2>1. PICK x : x = At(row, col, cell)
    OBVIOUS
  <2>2. s = x /\ x.cell = cell
    BY <1>2, <1>3, <2>1, ScreenIsAt DEF Laid, At
  <2>3. \A m : [x EXCEPT !.cell = m] = At(row, col, m)
    BY <2>1 DEF At
  <2> DEFINE up == [r \in 0..(Rows - 1) |->
                      IF r > Rows - 1 - 1 THEN cell[r] ELSE IF r + 2 * 1 < Rows THEN cell[r + 2 * 1] ELSE BlankRow]
  <2>4. ncScrollLines(s, 1) = [x EXCEPT !.cell = up]
    BY <2>2 DEF ncScrollLines, shiftUp
  <2> HIDE DEF up
  <2>5. t = At(row, col, up)
    BY <1>4, <2>3, <2>4
  <2> QED BY <2>5 DEF At, up
<1>6. ASSUME NEW r \in 0..(Rows - 1), NEW c \in 0..(Columns - 1), Back(t, r, c) <= n PROVE NotPrinted(t.cell[r][c])
  <2>1. PICK k \in Int : k = (row - r) * Columns
    BY <1>1
  <2>2. k + col - c <= n
    BY <1>2, <1>5, <1>6, <2>1 DEF Back
  <2>3. CASE r = Rows - 1
    <3>1. t.cell[r] = cell[r]
      BY <1>1, <1>5, <2>3
    <3>2. Back(s, r, c) <= n
      BY <1>2, <2>1, <2>2 DEF Back
    <3> QED BY <1>3, <3>1, <3>2 DEF Spared
  <2>4. CASE r = Rows - 2
    <3>1. t.cell[r] = BlankRow
      BY <1>1, <1>5, <2>4
    <3> QED BY <3>1 DEF BlankRow, NotPrinted
  <2>5. CASE r < Rows - 2
    <3>1. r + 2 \in 0..(Rows - 1) /\ t.cell[r] = cell[r + 2]
      BY <1>1, <1>5, <2>5
    <3>2. (row - (r + 2)) * Columns = k - 2 * Columns
      BY <1>1, <2>1
    <3>3. Back(s, r + 2, c) = k - 2 * Columns + col - c
      BY <1>2, <3>2 DEF Back
    <3>4. Back(s, r + 2, c) <= n
      BY <1>1, <2>2, <3>3
    <3> QED BY <1>3, <3>1, <3>4 DEF Spared
  <2> QED BY <1>1, <2>3, <2>4, <2>5
<1> QED BY <1>4, <1>6 DEF Spared

(* On a cleared screen there is nothing.                                   *)
LEMMA ClearSpares ==
  ASSUME NEW n PROVE Spared(BlankScreen, n)
BY DEF Spared, NotPrinted, BlankScreen, BlankRow

(* Nothing but a backspace moves the cursor back, even where the screen    *)
(* scrolls.                                                                *)
LEMMA PrintGoesOn ==
  ASSUME Columns > 1, NEW s, NEW p, Laid(s, p), NEW c, c # Backspace,
         NEW t, t = ncPrintChar(s, c)
  PROVE  ~(t.row = s.row /\ t.col < s.col) /\ ~(t.row < s.row /\ t.col = Columns - 1)
<1>1. Columns \in Int /\ Columns > 0 /\ Rows \in Int /\ Rows >= 3
  BY ScreenAssumption
<1>2. PICK row \in 0..(Rows - 1), col \in 0..(Columns - 1) : row = s.row /\ col = s.col
  BY DEF Laid, ScreenTo
<1>3. \A a, b, u : At(a, b, u).row = a /\ At(a, b, u).col = b
  BY DEF At
<1>4. ASSUME NEW end, NEW m, t = Wrap(At(row, end, m)), end = Columns \/ end = col + 1
      PROVE  (t.row = row /\ t.col = end) \/ (t.row = row + 1 /\ t.col = 0) \/ (t.row = Rows - 2 /\ t.col = 0 /\ row = Rows - 1)
  <2>1. CASE end < Columns
    BY <1>3, <1>4, <2>1, WrapAt
  <2>2. CASE ~(end < Columns) /\ row # Rows - 1
    BY <1>3, <1>4, <2>2, WrapAt
  <2>3. CASE ~(end < Columns) /\ row = Rows - 1
    <3>1. PICK u : Wrap(At(Rows - 1, end, m)) = At(Rows - 2, 0, u)
      BY <2>3, WrapScrolls
    <3> QED BY <1>3, <1>4, <2>3, <3>1
  <2> QED BY <2>1, <2>2, <2>3
<1>5. \E end, m : t = Wrap(At(row, end, m)) /\ (end = Columns \/ end = col + 1)
  <2>1. CASE c = Newline
    <3>1. ncPrintChar(s, c) = ncNewline(s)
      BY <2>1 DEF ncPrintChar, Newline, Backspace
    <3> QED BY <1>2, <3>1, NewlineIs
  <2>2. CASE c # Newline
    <3>1. ncPrintChar(s, c) = Wrap(Paint(s, c))
      BY <2>2 DEF ncPrintChar
    <3>2. PICK cell : s = At(row, col, cell)
      BY <1>2, ScreenIsAt DEF Laid
    <3> QED BY <3>1, <3>2, PaintAt
  <2> QED BY <2>1, <2>2
<1> QED BY <1>1, <1>2, <1>4, <1>5

(* What was typed last may be taken back, unless somebody is in a flush.   *)
Sparing == /\ backSpaceLimit \in Nat
           /\ (\A p \in Writer : pc[p] \notin {"flush", "drain"}) => Spared(screen, backSpaceLimit)

(* A key, and what it does to the cells.                                   *)
LEMMA EchoSpares ==
  ASSUME KeysDiffer, KeysSpareFlush, Columns > 1, Laid(screen, page), Sparing,
         NEW c \in Key, Echo(c)
  PROVE  /\ backSpaceLimit' \in Nat /\ Spared(screen', backSpaceLimit')
         /\ CursorMovesBack =>
              \A r \in 0..(Rows - 1), x \in 0..(Columns - 1) :
                screen.cell[r][x] \in ProgramChars => screen'.cell[r][x] = screen.cell[r][x]
<1>1. Spared(screen, backSpaceLimit) /\ backSpaceLimit \in Nat
  BY DEF Echo, KeysSpareFlush, Sparing
<1>2. c \in Glyph
  BY DEF Glyph
<1>3. CASE c = Backspace /\ backSpaceLimit = 0
  BY <1>1, <1>3 DEF Echo, shown
<1>4. CASE c = Backspace /\ backSpaceLimit # 0
  <2>1. screen' = ncBackspace(screen) /\ backSpaceLimit' = backSpaceLimit - 1
    BY <1>4 DEF Echo, PrintChar, ncPrintChar, Newline, Backspace
  <2>2. backSpaceLimit \in Nat \ {0}
    BY <1>1, <1>4
  <2> QED BY <1>1, <2>1, <2>2, EraseSpares
<1>5. CASE c = Newline
  <2>1. PrintChar(c) /\ backSpaceLimit' = 0
    BY <1>5 DEF Echo, Newline, Backspace
  <2>2. screen' = ncPrintChar(screen, c) /\ Laid(screen', page')
    BY <1>2, <2>1, PrintLaid DEF PrintChar
  <2>3. ~CursorMovesBack
    BY <1>5, <2>2, PrintGoesOn DEF CursorMovesBack, Newline, Backspace
  <2> QED BY <2>1, <2>2, <2>3, LaidSpares
<1>6. CASE c # Newline /\ c # Backspace
  <2>1. screen' = ncPrintChar(screen, c) /\ backSpaceLimit' = backSpaceLimit + 1
    BY <1>6 DEF Echo, PrintChar
  <2>2. screen' = Wrap(Paint(screen, c))
    BY <1>6, <2>1 DEF ncPrintChar
  <2>3. NotPrinted(c)
    BY <1>6 DEF KeysDiffer, NotPrinted
  <2>4. Spared(screen', backSpaceLimit + 1)
    BY <1>1, <2>2, <2>3, TypeSpares
  <2>5. ~CursorMovesBack
    BY <1>6, <2>1, PrintGoesOn DEF CursorMovesBack
  <2> QED BY <1>1, <2>1, <2>4, <2>5
<1> QED BY <1>3, <1>4, <1>5, <1>6

LEMMA StepSparing ==
  ASSUME KeysDiffer, KeysSpareFlush, Columns > 1,
         OutputType, Laid(screen, page), Sparing, [Next]_(vars)
  PROVE  Sparing'
<1> DEFINE NoFlush == \A p \in Writer : pc[p] \notin {"flush", "drain"}
<1>1. backSpaceLimit \in Nat /\ (NoFlush => Spared(screen, backSpaceLimit)) /\ pc \in [Writer -> Points]
  BY DEF Sparing, OutputType
<1>2. ASSUME NEW p \in Writer, NEW point, Goto(p, point), pc[p] \notin {"flush", "drain"}, NoFlush'
      PROVE  NoFlush
  BY <1>1, <1>2 DEF Goto
<1>3. ASSUME NEW p \in Writer, NEW point \in {"flush", "drain"}, Goto(p, point)
      PROVE  ~NoFlush'
  BY <1>1, <1>3 DEF Goto
<1>4. ASSUME NoFlush' => NoFlush, screen' = screen, backSpaceLimit' = backSpaceLimit PROVE Sparing'
  BY <1>1, <1>4 DEF Sparing
<1>5. ASSUME ~NoFlush', backSpaceLimit' = backSpaceLimit PROVE Sparing'
  BY <1>1, <1>5 DEF Sparing
<1>6. ASSUME NEW p \in Writer, InCall(p) PROVE Sparing'
  <2>1. CASE TestFull(p)
    <3>1. NoFlush' => NoFlush
      BY <1>2, <2>1 DEF TestFull
    <3> QED BY <1>4, <2>1, <3>1 DEF TestFull, shown
  <2>2. CASE Put(p)
    <3>1. \E point : Goto(p, point)
      BY <2>2 DEF Put, Continue
    <3>2. NoFlush' => NoFlush
      BY <1>2, <2>2, <3>1 DEF Put
    <3> QED BY <1>4, <2>2, <3>2 DEF Put, shown
  <2>3. CASE FlushEnd(p)
    <3>1. Spared(screen, 0)
      BY LaidSpares
    <3> QED BY <2>3, <3>1 DEF Sparing, FlushEnd, shown
  <2>4. CASE FlushTest(p)
    BY <1>3, <1>5, <2>4 DEF FlushTest
  <2>5. CASE Drain(p)
    BY <1>3, <1>5, <2>5 DEF Drain
  <2> QED BY <1>6, <2>1, <2>2, <2>3, <2>4, <2>5 DEF InCall
<1>7. ASSUME NEW p \in Writer, Calls(p) PROVE Sparing'
  <2>1. ASSUME NEW d \in Device, NEW text \in Text[p], CallWrite(p, d, text) PROVE Sparing'
    <3>1. NoFlush' => NoFlush
      BY <1>2, <2>1 DEF CallWrite
    <3> QED BY <1>4, <2>1, <3>1 DEF CallWrite, shown
  <2>2. ASSUME NEW d \in Device, CallFlush(p, d) PROVE Sparing'
    BY <1>3, <1>5, <2>2 DEF CallFlush
  <2>3. CASE Clear(p)
    BY <1>1, <2>3, ClearSpares DEF Sparing, Clear, ncClear
  <2>4. CASE Scroll(p)
    BY <1>1, <2>4, ScrollSpares DEF Sparing, Scroll
  <2> QED BY <1>7, <2>1, <2>2, <2>3, <2>4 DEF Calls
<1>8. ASSUME NEW c \in Key, Echo(c) PROVE Sparing'
  BY <1>8, EchoSpares DEF Sparing
<1>9. ASSUME UNCHANGED vars PROVE Sparing'
  BY <1>4, <1>9 DEF vars, shown
<1> HIDE DEF NoFlush
<1> QED BY <1>6, <1>7, <1>8, <1>9 DEF Next, Yield, Done

(* BackspaceSparesOutput: whatever is printed, typed and scrolled between, *)
(* a key that takes something back takes nothing of a program's.           *)
THEOREM KeysTakeBackTheirOwn ==
  ASSUME KeysDiffer, KeysSpareFlush, Columns > 1
  PROVE  Spec => BackspaceSparesOutput
<1> DEFINE Inside == OutputType /\ Laid(screen, page) /\ Sparing
           Kept == \A r \in 0..(Rows - 1), c \in 0..(Columns - 1) :
                     screen.cell[r][c] \in ProgramChars => screen'.cell[r][c] = screen.cell[r][c]
<1>1. Init => Inside
  <2> SUFFICES ASSUME Init PROVE Inside
    OBVIOUS
  <2>1. OutputType /\ Laid(screen, page)
    BY InitOutput
  <2> QED BY <2>1, LaidSpares DEF Sparing, Init
<1>2. Inside /\ [Next]_(vars) => Inside'
  BY StepOutput, StepSparing
<1>3. Inside /\ [Next]_(vars) => [keys' # keys /\ CursorMovesBack => Kept]_(vars)
  <2> SUFFICES ASSUME Inside, [Next]_(vars), keys' # keys, CursorMovesBack PROVE Kept
    OBVIOUS
  <2>1. PICK c \in Key : Echo(c)
    BY DEF Next, vars, InCall, Yield, Calls, Done, TestFull, Put, FlushEnd, FlushTest, Drain,
           CallWrite, CallFlush, Clear, Scroll
  <2> QED BY <2>1, EchoSpares
<1> QED BY <1>1, <1>2, <1>3, PTL DEF Spec, BackspaceSparesOutput
===============================================================================
