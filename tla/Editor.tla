------------------------------- MODULE Editor -------------------------------
(***************************************************************************)
(* The editor in a Notepad window: its text buffer, and the Find field     *)
(* that has the keyboard while it is open (src/apps/notepad_app.c over     *)
(* src/ui/text_buffer.c and src/ui/text_input.c).  One action per key or   *)
(* group of keys.  Any allocation may fail.  The history of the document   *)
(* is in Notepad; here an undo is the loading of some text.                *)
(***************************************************************************)
EXTENDS TextView

CONSTANTS
  MaxLen,      \* the longest query, in bytes
  MaxBytes,    \* bound on the bytes of the document, for model checking
  Pastes,      \* what the clipboard can hold, sequences of characters
  Texts,       \* texts of files and of the history, likewise
  Sizes        \* of the area for the text: [rows, columns]

ASSUME EditorAssumption ==
  /\ Pastes \cup Texts \subseteq Seq(Chars \cup {NewLine})
  /\ Sizes \subseteq [rows : Nat \ {0}, columns : Nat \ {0}]
  /\ {MaxLen, MaxBytes} \subseteq Nat

VARIABLES
  buffer,
  field,       \* the query
  searching    \* search_mode

vars == <<buffer, field, searching>>

Field == INSTANCE TextInput

\* Characters and line ends to bytes.
Document(text) == FlattenSeq([i \in DOMAIN text |->
                     IF text[i] = NewLine THEN <<NewLine>> ELSE Encode(text[i])])

Room(text) == Len(ToText(buffer)) + Len(text) <= MaxBytes

Init ==
  /\ buffer = EmptyBuffer
  /\ field = Field!EmptyField
  /\ searching = FALSE

-----------------------------------------------------------------------------
(***************************************************************************)
(* Keys for the buffer.                                                    *)
(***************************************************************************)
Edit(results) ==
  /\ ~searching
  /\ \E result \in results : buffer' = result.buffer
  /\ UNCHANGED <<field, searching>>

Type(c)   == Room(Encode(c)) /\ Edit({InsertChar(buffer, c, m) : m \in BOOLEAN})
Enter     == Room(<<NewLine>>) /\ Edit({InsertNewline(buffer, m) : m \in BOOLEAN})
Backspace == Edit({DeleteBackward(buffer, m) : m \in BOOLEAN})
Delete    == Edit({DeleteForward(buffer, m) : m \in BOOLEAN})
Kill      == Edit({KillToEnd(buffer, m) : m \in BOOLEAN})
Cut       == Edit({DeleteSelection(buffer, m) : m \in BOOLEAN})

Paste(text) ==
  /\ Room(Document(text))
  /\ Edit({InsertText(buffer, Document(text), m) : m \in BOOLEAN})

Go(b) == ~searching /\ buffer' = b /\ UNCHANGED <<field, searching>>

MoveKey(shift) == \E to \in Moves(buffer) : Go(Move(buffer, shift, to))

MoveWrappedKey(shift, columns, down) ==
  Go(Move(buffer, shift, MoveWrapped(buffer, columns, down)))

Everything == Go(SelectAll(buffer))                                  \* Ctrl+A
Escape     == Go(IF HasSelection(buffer) THEN ClearSelection(buffer) ELSE buffer)

\* np_restore_snapshot: a text, then the cursor.
Restore(text, pos) == Go(SetCursor(SetText(buffer, Document(text)), pos))

-----------------------------------------------------------------------------
(***************************************************************************)
(* Find.                                                                   *)
(***************************************************************************)
OpenFind ==                                                          \* Ctrl+F
  /\ ~searching /\ searching' = TRUE
  /\ field' = Field!EmptyField
  /\ buffer' = ClearSelection(buffer)

CloseFind == searching /\ searching' = FALSE /\ UNCHANGED <<buffer, field>>   \* Esc

\* A key that the field takes ends the selection of what was found.
FindKey ==
  /\ searching
  /\ \E memory \in BOOLEAN : \E key \in Field!FieldKeys(field, memory) :
       /\ field' = key.field
       /\ buffer' = IF key.taken THEN ClearSelection(buffer) ELSE buffer
  /\ UNCHANGED searching

FindEnter ==
  /\ searching
  /\ buffer' = FindSelects(buffer, field.text)
  /\ UNCHANGED <<field, searching>>

Next ==
  \/ \E c \in Chars : Type(c)
  \/ Enter \/ Backspace \/ Delete \/ Kill \/ Cut
  \/ \E text \in Pastes : Paste(text)
  \/ \E shift \in BOOLEAN : MoveKey(shift)
  \/ \E shift, down \in BOOLEAN, size \in Sizes : MoveWrappedKey(shift, size.columns, down)
  \/ Everything \/ Escape
  \/ \E text \in Texts, row \in 0..1, col \in 0..2 : Restore(text, Pos(row, col))
  \/ OpenFind \/ CloseFind \/ FindKey \/ FindEnter

Spec == Init /\ [][Next]_vars

-----------------------------------------------------------------------------
(***************************************************************************)
(* Properties.                                                             *)
(***************************************************************************)

(***************************************************************************)
(* Every edit, move, failed edit and search leaves whole characters, and   *)
(* the cursor, the anchor and the cursor of the query between two of them: *)
(* no offset outlives the text it was taken in (text_buffer.h:11-14).      *)
(***************************************************************************)
PlacesExist == BufferOK(buffer) /\ Field!FieldOK(field)

(***************************************************************************)
(* The buffer of lines and byte offsets, with its shortcuts for edits in   *)
(* one line and its replacement of the whole document for the others, is   *)
(* one text with a cursor and a selection (PlainText); an edit that fails  *)
(* leaves it as it was.                                                    *)
(***************************************************************************)
Characters(t) ==
  LET of[n \in 0..Len(t)] ==
        IF n = 0 THEN <<>> ELSE IF t[n] = Cont THEN of[n - 1] ELSE Append(of[n - 1], t[n])
  IN  of[Len(t)]

CharsBefore(p) == Len(Characters(SubSeq(ToText(buffer), 1, Offset(buffer, p))))

Plain == INSTANCE PlainText WITH
  LineEnd <- NewLine,
  Inserts <- {<<c>> : c \in Chars \cup {NewLine}} \cup Pastes \cup {<<>>},
  Loads   <- Texts,
  text    <- Characters(ToText(buffer)),
  point   <- CharsBefore(buffer.at),
  mark    <- CharsBefore(IF HasSelection(buffer) THEN buffer.anchor ELSE buffer.at)

EditsAsPromised == Plain!Spec

(***************************************************************************)
(* Whatever was typed, deleted or found before, Enter in Find would select *)
(* the first occurrence of the query that starts at or after the cursor,   *)
(* in the order of the text, or else the first that ends at or before it   *)
(* (KEYBOARD_SHORTCUTS.md:149), and it leaves the text and the selection   *)
(* as they are only if there is neither.  An occurrence around the cursor  *)
(* may be missed.  It is stated of each state, not of each step: an Enter  *)
(* that selects nothing is no step.                                        *)
(***************************************************************************)
Same(s, t) == Len(s) = Len(t) /\ \A i \in DOMAIN s : Fold[s[i]] = Fold[t[i]]

Occurrences(b, query) ==
  {p \in UNION {{Pos(row, col) : col \in Boundaries(Line(b, row))} : row \in 0..LastRow(b)} :
     LET rest == SubSeq(Line(b, p.row), p.col + 1, p.col + Len(query))
     IN  /\ p.col + Len(query) <= Len(Line(b, p.row))
         /\ Valid(rest) /\ Same(Characters(rest), Characters(query))}

FindsNearest ==
  searching =>
    LET query  == field.text
        found  == Occurrences(buffer, query)
        after  == {p \in found : ~Before(p, buffer.at)}
        before == {p \in found : ~Before(buffer.at, Pos(p.row, p.col + Len(query)))}
        near   == IF after # {} THEN after ELSE before
        chosen == FindSelects(buffer, query)
    IN  IF query = <<>> \/ near = {} THEN chosen = buffer
        ELSE /\ chosen.selecting /\ chosen.anchor \in near
             /\ \A p \in near : ~Before(p, chosen.anchor)
             /\ chosen.at = Pos(chosen.anchor.row, chosen.anchor.col + Len(query))

(***************************************************************************)
(* Whatever the size of the window the cursor is drawn in it, on the row   *)
(* and in the column where its character is shown, and that of the query   *)
(* in its field; when lines are wrapped, over the last character of a row  *)
(* that is full (marks that take no cell may hide it there).               *)
(***************************************************************************)
CursorIsSeen ==
  \A size \in Sizes :
    LET plain   == PlainCursor(buffer, size.rows, size.columns)
        row     == PlainRow(buffer, plain.y, size.rows, size.columns)
        wrapped == WrappedCursor(buffer, size.rows, size.columns)
        chunk   == WrappedRow(buffer, wrapped.y, size.rows, size.columns)
        line    == Line(buffer, buffer.at.row)
    IN  /\ plain.shown /\ plain.y \in 0..(size.rows - 1)
        /\ row.row = buffer.at.row
        /\ plain.x = ColumnsIn(line, row.from, buffer.at.col)
        /\ Field!FieldCursorCell(field, size.columns) \in 0..(size.columns - 1)
        /\ (\A c \in ToSet(line) \ {Cont} : Columns[c] = 1) =>
             /\ wrapped.shown /\ wrapped.y \in 0..(size.rows - 1)
             /\ chunk.row = buffer.at.row
             /\ wrapped.x \in {ColumnsIn(line, chunk.from, buffer.at.col),
                               size.columns - 1}

(***************************************************************************)
(* Wrapping shows every character once, and in the style of the selection  *)
(* those that are selected; Up and Down then go one row of the screen up   *)
(* or down: the cursor never sticks between two rows of one line           *)
(* (text_buffer.c:1106-1156).                                              *)
(***************************************************************************)
Shown(t) ==
  LET seen[n \in 0..Len(t)] ==
        IF n = 0 THEN <<>>
        ELSE IF t[n] \in Chars /\ Columns[t[n]] = 1 THEN Append(seen[n - 1], t[n])
        ELSE seen[n - 1]
  IN  seen[Len(t)]

WrapIsFaithful ==
  \A size \in Sizes :
    LET rows == VisualRows(buffer, size.columns)
        here == CursorVisual(buffer, size.columns)
        there(down) == CursorVisual([buffer EXCEPT !.at =
                         MoveWrapped(buffer, size.columns, down)], size.columns)
    IN  /\ \A row \in 0..LastRow(buffer) :
             FlattenSeq([i \in DOMAIN rows |->
               IF rows[i].row = row THEN SubSeq(Line(buffer, row), rows[i].from + 1, rows[i].to)
               ELSE <<>>]) = Line(buffer, row)
        /\ Shown(SelectedText(buffer)) =
             Shown(FlattenSeq([i \in DOMAIN rows |-> SelectedIn(buffer, rows[i], size.columns)]))
        /\ there(TRUE)  = IF here = Len(rows) THEN here ELSE here + 1
        /\ there(FALSE) = IF here = 1 THEN here ELSE here - 1
=============================================================================
