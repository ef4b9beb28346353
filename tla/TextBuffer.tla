----------------------------- MODULE TextBuffer -----------------------------
(***************************************************************************)
(* The text buffer of src/ui/text_buffer.c as operators on its value.      *)
(* Every line is a text of its own; the cursor ("at") and the anchor of    *)
(* the selection are a row and a byte offset in it.  An edit returns       *)
(* whether it was done and the buffer it leaves, since one that allocates  *)
(* may fail.  How a buffer is drawn is in TextView.                        *)
(***************************************************************************)
EXTENDS Utf8Text

CONSTANT Fold          \* text_search_fold: the lower case of a character

NewLine == "newline"   \* between two lines in the text of a document

ASSUME FoldAssumption ==
  /\ Fold \in [Chars -> Chars]
  /\ \A c \in Chars : Bytes[Fold[c]] = Bytes[c]
  /\ NewLine \notin Chars

Pos(row, col) == [row |-> row, col |-> col]
Origin        == Pos(0, 0)
EmptyBuffer   == [lines |-> <<<<>>>>, at |-> Origin, selecting |-> FALSE, anchor |-> Origin]

Line(b, row)  == b.lines[row + 1]
LastRow(b)    == Len(b.lines) - 1
EndOf(b, row) == Pos(row, Len(Line(b, row)))

Done(b)    == [done |-> TRUE, buffer |-> b]
NotDone(b) == [done |-> FALSE, buffer |-> b]

-----------------------------------------------------------------------------
(***************************************************************************)
(* Positions.                                                              *)
(***************************************************************************)
AtOrBefore(t, offset) ==
  IF offset >= Len(t) THEN Len(t) ELSE Max({p \in Boundaries(t) : p <= offset})

AtOrAfter(t, offset) ==
  IF offset >= Len(t) THEN Len(t) ELSE Min({p \in Boundaries(t) : p >= offset})

Normal(b, pos) ==
  LET row == IF pos.row > LastRow(b) THEN LastRow(b) ELSE pos.row
  IN  Pos(row, AtOrBefore(Line(b, row), pos.col))

ClampCursor(b) == [b EXCEPT !.at = Normal(b, @)]

Before(p, q) == p.row < q.row \/ (p.row = q.row /\ p.col < q.col)

HasSelection(b) == b.selecting /\ b.anchor # b.at

\* The selection; the place of the cursor when there is none.
Selected(b) ==
  IF ~HasSelection(b) THEN [from |-> b.at, to |-> b.at]
  ELSE IF Before(b.anchor, b.at) THEN [from |-> b.anchor, to |-> b.at]
  ELSE [from |-> b.at, to |-> b.anchor]

ClearSelection(b) == [b EXCEPT !.selecting = FALSE, !.anchor = Origin]

ClearCollapsed(b) == IF b.selecting /\ ~HasSelection(b) THEN ClearSelection(b) ELSE b

SetCursor(b, pos) == ClearSelection([b EXCEPT !.at = Normal(b, pos)])

SelectAll(b) ==
  [b EXCEPT !.anchor = Origin, !.at = EndOf(b, LastRow(b)),
            !.selecting = EndOf(b, LastRow(b)) # Origin]

-----------------------------------------------------------------------------
(***************************************************************************)
(* The whole text.                                                         *)
(***************************************************************************)
ToText(b) ==
  LET through[row \in 0..LastRow(b)] ==
        IF row = 0 THEN Line(b, 0) ELSE through[row - 1] \o <<NewLine>> \o Line(b, row)
  IN  through[LastRow(b)]

Split(text) ==
  LET lines[n \in 0..Len(text)] ==
        IF n = 0 THEN <<<<>>>>
        ELSE IF text[n] = NewLine THEN Append(lines[n - 1], <<>>)
        ELSE [lines[n - 1] EXCEPT ![Len(lines[n - 1])] = Append(@, text[n])]
  IN  lines[Len(text)]

SetText(b, text) ==
  LET loaded == [b EXCEPT !.lines = Split(text)]
  IN  ClearSelection([loaded EXCEPT !.at = EndOf(loaded, LastRow(loaded))])

\* text_buffer_document_offset, and the way back.
RowStart(b, row) ==
  LET start[r \in 0..row] == IF r = 0 THEN 0 ELSE start[r - 1] + Len(Line(b, r - 1)) + 1
  IN  start[row]

Offset(b, pos) == RowStart(b, Normal(b, pos).row) + Normal(b, pos).col

AtOffset(b, offset) ==
  LET row == Max({r \in 0..LastRow(b) : RowStart(b, r) <= offset})
  IN  Pos(row, AtOrBefore(Line(b, row), offset - RowStart(b, row)))

SelectedText(b) ==
  SubSeq(ToText(b), Offset(b, Selected(b).from) + 1, Offset(b, Selected(b).to))

\* Mutant: the cursor is left where set_text puts it.
ReplaceAtEnd(b, range, text) ==
  SetText(b, Splice(ToText(b), Offset(b, range.from), Offset(b, range.to), text))

Replace(b, range, text) ==
  LET from == Offset(b, range.from)
      new  == SetText(b, Splice(ToText(b), from, Offset(b, range.to), text))
  IN  ClearSelection([new EXCEPT !.at = AtOffset(new, from + Len(text))])

-----------------------------------------------------------------------------
(***************************************************************************)
(* Edits.                                                                  *)
(***************************************************************************)
InsertText(b, text, memory) ==
  IF (text = <<>> /\ ~HasSelection(b)) \/ ~memory THEN NotDone(b)
  ELSE Done(Replace(b, Selected(b), text))

DeleteSelection(b, memory) ==
  IF HasSelection(b) THEN InsertText(b, <<>>, memory) ELSE NotDone(b)

WithoutSelection(b) == ClampCursor(ClearCollapsed(b))

InsertChar(b, c, memory) ==
  LET d == WithoutSelection(b)
  IN  IF HasSelection(b) THEN InsertText(b, Encode(c), memory)
      ELSE IF ~memory THEN NotDone(d)
      ELSE Done([d EXCEPT !.lines[d.at.row + 1] = Splice(@, d.at.col, d.at.col, Encode(c)),
                          !.at.col = @ + Bytes[c]])

InsertNewline(b, memory) ==
  LET d    == WithoutSelection(b)
      line == Line(d, d.at.row)
      head == SubSeq(line, 1, d.at.col)
      tail == SubSeq(line, d.at.col + 1, Len(line))
  IN  IF HasSelection(b) THEN InsertText(b, <<NewLine>>, memory)
      ELSE IF ~memory THEN NotDone(d)
      ELSE Done([d EXCEPT !.lines = Splice(@, d.at.row, d.at.row + 1, <<head, tail>>),
                          !.at = Pos(d.at.row + 1, 0)])

\* The line at row takes in the next one, for which it may have to grow.
JoinLines(b, row, at, memory) ==
  LET joined == Line(b, row) \o Line(b, row + 1)
  IN  IF Line(b, row + 1) # <<>> /\ ~memory THEN NotDone(b)
      ELSE Done([b EXCEPT !.lines = Splice(@, row, row + 2, <<joined>>), !.at = at])

CutInLine(b, row, from, to) ==
  [b EXCEPT !.lines[row + 1] = Splice(@, from, to, <<>>), !.at = Pos(row, from)]

DeleteBackward(b, memory) ==
  LET d        == WithoutSelection(b)
      row      == d.at.row
      previous == PrevChar(Line(d, row), d.at.col)
  IN  IF HasSelection(b) THEN DeleteSelection(b, memory)
      ELSE IF d.at.col > 0 THEN Done(CutInLine(d, row, previous, d.at.col))
      ELSE IF row = 0 THEN NotDone(d)
      ELSE JoinLines(d, row - 1, EndOf(d, row - 1), memory)

DeleteForward(b, memory) ==
  LET d    == WithoutSelection(b)
      row  == d.at.row
      line == Line(d, row)
  IN  IF HasSelection(b) THEN DeleteSelection(b, memory)
      ELSE IF d.at.col < Len(line)
             THEN Done(CutInLine(d, row, d.at.col, NextChar(line, d.at.col)))
      ELSE IF row = LastRow(d) THEN NotDone(d)
      ELSE JoinLines(d, row, d.at, memory)

KillToEnd(b, memory) ==
  LET d == ClampCursor(b)
  IN  IF HasSelection(b) THEN DeleteSelection(b, memory)
      ELSE IF d.at = EndOf(d, d.at.row) THEN NotDone(d)
      ELSE Done(CutInLine(d, d.at.row, d.at.col, Len(Line(d, d.at.row))))

-----------------------------------------------------------------------------
(***************************************************************************)
(* Moving.  With Shift a selection starts or goes on; without, it ends.    *)
(***************************************************************************)
PrepareMovement(b, shift) ==
  IF ~shift THEN ClearSelection(b)
  ELSE IF b.selecting THEN b ELSE [b EXCEPT !.selecting = TRUE, !.anchor = b.at]

Left(b) ==
  IF b.at.col > 0 THEN Pos(b.at.row, PrevChar(Line(b, b.at.row), b.at.col))
  ELSE IF b.at.row > 0 THEN EndOf(b, b.at.row - 1) ELSE b.at

Right(b) ==
  IF b.at.col < Len(Line(b, b.at.row)) THEN Pos(b.at.row, NextChar(Line(b, b.at.row), b.at.col))
  ELSE IF b.at.row < LastRow(b) THEN Pos(b.at.row + 1, 0) ELSE b.at

\* Up and down keep the column on the screen, as far as the line reaches.
ToRow(b, row) ==
  Pos(row, PrefixBytes(Line(b, row), ColumnsIn(Line(b, b.at.row), 0, b.at.col)))

Up(b)   == IF b.at.row > 0 THEN ToRow(b, b.at.row - 1) ELSE b.at
Down(b) == IF b.at.row < LastRow(b) THEN ToRow(b, b.at.row + 1) ELSE b.at

Moves(b) == {Pos(b.at.row, 0), EndOf(b, b.at.row), Left(b), Right(b), Up(b), Down(b)}

Move(b, shift, to) == [PrepareMovement(b, shift) EXCEPT !.at = to]

-----------------------------------------------------------------------------
(***************************************************************************)
(* Find.                                                                   *)
(***************************************************************************)
Match(row, from, to) == [row |-> row, from |-> from, to |-> to]
NoMatch == Match(0, 0, 0)

\* Where the query, a nonempty text, ends if it is found at a place of a line.
QueryMatches(line, place, query) ==
  /\ place + Len(query) <= Len(line)
  /\ \A k \in 1..Len(query) :
       \/ query[k] = Cont /\ line[place + k] = Cont
       \/ /\ {query[k], line[place + k]} \subseteq Chars
          /\ Fold[query[k]] = Fold[line[place + k]]

FindInLine(line, query, start, limit) ==
  {p \in Boundaries(line) :
     start <= p /\ p + Len(query) <= limit /\ QueryMatches(line, p, query)}

\* Mutant: the search ends at the end of the text.
FindNextDown(b, query, start) ==
  LET from(row)  == IF row = start.row THEN AtOrAfter(Line(b, row), start.col) ELSE 0
      onRow(row) == FindInLine(Line(b, row), query, from(row), Len(Line(b, row)))
      below      == {r \in start.row..LastRow(b) : onRow(r) # {}}
      first(row) == Match(row, Min(onRow(row)), Min(onRow(row)) + Len(query))
  IN  IF query = <<>> \/ below = {} THEN NoMatch ELSE first(Min(below))

\* Rows from the start to the last, then, wrapping, the rows before it, then
\* what precedes the start in its row.
FindNext(b, query, start) ==
  LET from(row)  == IF row = start.row THEN AtOrAfter(Line(b, row), start.col) ELSE 0
      onRow(row) == FindInLine(Line(b, row), query, from(row), Len(Line(b, row)))
      head       == FindInLine(Line(b, start.row), query, 0, from(start.row))
      below      == {r \in start.row..LastRow(b) : onRow(r) # {}}
      above      == {r \in 0..(start.row - 1) : onRow(r) # {}}
      first(row) == Match(row, Min(onRow(row)), Min(onRow(row)) + Len(query))
  IN  IF query = <<>> THEN NoMatch
      ELSE IF below # {} THEN first(Min(below))
      ELSE IF above # {} THEN first(Min(above))
      ELSE IF head # {} THEN Match(start.row, Min(head), Min(head) + Len(query))
      ELSE NoMatch

SelectMatch(b, m) ==
  [b EXCEPT !.anchor = Pos(m.row, AtOrBefore(Line(b, m.row), m.from)),
            !.at     = Pos(m.row, AtOrBefore(Line(b, m.row), m.to)),
            !.selecting = TRUE]

\* What Enter in Find makes of the text.
FindSelects(b, query) ==
  LET found == FindNext(b, query, b.at)
  IN  IF found = NoMatch THEN b ELSE SelectMatch(b, found)

(***************************************************************************)
(* The lines hold whole characters, and the cursor and the anchor are      *)
(* between two of them, in a line that exists.                             *)
(***************************************************************************)
IsPlace(b, pos) ==
  pos.row \in 0..LastRow(b) /\ pos.col \in Boundaries(Line(b, pos.row))

BufferOK(b) ==
  /\ \A row \in 0..LastRow(b) : NewLine \notin ToSet(Line(b, row)) /\ Valid(Line(b, row))
  /\ IsPlace(b, b.at) /\ IsPlace(b, b.anchor)
=============================================================================
