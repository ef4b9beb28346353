------------------------------ MODULE TextView ------------------------------
(***************************************************************************)
(* How src/ui/text_buffer.c shows a buffer in an area of some rows and     *)
(* columns: which part of which line is on each row of the screen, where   *)
(* the cursor is drawn and what is drawn as selected.  A row that shows    *)
(* nothing of the text is NoRow.                                           *)
(***************************************************************************)
EXTENDS TextBuffer

Chunk(row, from, to) == [row |-> row, from |-> from, to |-> to]
NoRow  == Chunk(0, 0, 0)
Hidden == [y |-> 0, x |-> 0, shown |-> FALSE]
Cell(y, x) == [y |-> y, x |-> x, shown |-> TRUE]

\* The end of what fits in some columns from a place of a line on.
FitEnd(line, from, columns) ==
  Max({p \in Boundaries(line) : p >= from /\ ColumnsIn(line, from, p) <= columns})

-----------------------------------------------------------------------------
(***************************************************************************)
(* Soft wrap: the lines are cut into chunks, one on each visual row.       *)
(***************************************************************************)
LineChunks(line, row, columns) ==
  LET from[p \in Boundaries(line)] ==
        IF p = Len(line) THEN <<>>
        ELSE LET end == FitEnd(line, p, columns)
             IN  <<Chunk(row, p, end)>> \o from[end]
  IN  IF line = <<>> THEN <<Chunk(row, 0, 0)>> ELSE from[0]

VisualRows(b, columns) ==
  FlattenSeq([i \in DOMAIN b.lines |-> LineChunks(b.lines[i], i - 1, columns)])

\* Mutant: a cursor between two chunks is on the first.
CursorVisualEarly(b, columns) ==
  LET rows == VisualRows(b, columns)
  IN  Min({i \in DOMAIN rows : rows[i].row = b.at.row /\ b.at.col <= rows[i].to})

\* The visual row of the cursor: at the end of a chunk it is on the next one.
CursorVisual(b, columns) ==
  LET rows == VisualRows(b, columns)
  IN  Min({i \in DOMAIN rows :
             /\ rows[i].row = b.at.row
             /\ b.at.col < rows[i].to \/ rows[i].to = Len(Line(b, b.at.row))})

MoveWrapped(b, columns, down) ==
  LET rows    == VisualRows(b, columns)
      here    == CursorVisual(b, columns)
      there   == IF down THEN here + 1 ELSE here - 1
      target  == rows[there]
      line    == Line(b, target.row)
      desired == ColumnsIn(Line(b, b.at.row), rows[here].from, b.at.col)
      col     == target.from + PrefixBytes(SubSeq(line, target.from + 1, target.to), desired)
      inner   == target.to < Len(line) /\ col >= target.to /\ target.to > target.from
  IN  IF there \notin DOMAIN rows THEN b.at
      ELSE Pos(target.row, IF inner THEN PrevChar(line, target.to) ELSE col)

-----------------------------------------------------------------------------
(***************************************************************************)
(* Wrapped view.                                                           *)
(***************************************************************************)
WrappedTop(b, rows, columns) ==
  LET visual == CursorVisual(b, columns) IN IF visual > rows THEN visual - rows ELSE 0

WrappedRow(b, y, rows, columns) ==
  LET index == WrappedTop(b, rows, columns) + y + 1
  IN  IF index \in DOMAIN VisualRows(b, columns) THEN VisualRows(b, columns)[index] ELSE NoRow

\* At the end of a full row the cursor is drawn over the last character.
WrappedCursor(b, rows, columns) ==
  LET visual == CursorVisual(b, columns)
      chunk  == VisualRows(b, columns)[visual]
      line   == Line(b, b.at.row)
      x      == ColumnsIn(line, chunk.from, b.at.col)
      over   == IF x >= columns /\ chunk.to > chunk.from
                  THEN ColumnsIn(line, chunk.from, PrevChar(line, chunk.to)) ELSE x
  IN  IF over >= columns THEN Hidden
      ELSE Cell(visual - WrappedTop(b, rows, columns) - 1, over)

-----------------------------------------------------------------------------
(***************************************************************************)
(* View without wrap.  The stored scroll position stays at the origin.     *)
(***************************************************************************)
ScrollRow(b, rows) == IF b.at.row >= rows THEN b.at.row - rows + 1 ELSE 0

\* Mutant: no cell is kept for the cursor.
ScrollColTight(b, columns) ==
  LET line == Line(b, b.at.row)
  IN  Min({p \in Boundaries(line) :
             /\ p <= b.at.col
             /\ p = b.at.col \/ ColumnsIn(line, p, b.at.col) <= columns})

ScrollCol(b, columns) ==
  LET line == Line(b, b.at.row)
  IN  Min({p \in Boundaries(line) :
             /\ p <= b.at.col
             /\ p = b.at.col \/ ColumnsIn(line, p, b.at.col) + 1 <= columns})

\* The first byte shown is that of the cursor's line, in every line.
PlainRow(b, y, rows, columns) ==
  LET row  == ScrollRow(b, rows) + y
      from == AtOrBefore(Line(b, row), ScrollCol(b, columns))
  IN  IF row > LastRow(b) THEN NoRow
      ELSE Chunk(row, from, FitEnd(Line(b, row), from, columns))

PlainCursor(b, rows, columns) ==
  LET x == ColumnsIn(Line(b, b.at.row), ScrollCol(b, columns), b.at.col)
  IN  IF x >= columns THEN Hidden ELSE Cell(b.at.row - ScrollRow(b, rows), x)

-----------------------------------------------------------------------------
\* What of a row is drawn again in the style of the selection; marks at the
\* end of a full row have no cell.
SelectedIn(b, chunk, columns) ==
  LET s    == Selected(b)
      line == Line(b, chunk.row)
      from == Max({chunk.from, IF chunk.row = s.from.row THEN s.from.col ELSE 0})
      to   == Min({chunk.to, IF chunk.row = s.to.row THEN s.to.col ELSE Len(line)})
  IN  IF /\ HasSelection(b) /\ chunk.row \in s.from.row..s.to.row
         /\ from < to /\ ColumnsIn(line, chunk.from, from) < columns
        THEN SubSeq(line, from + 1, to) ELSE <<>>
=============================================================================
