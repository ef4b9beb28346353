----------------------------- MODULE TextInput -----------------------------
(***************************************************************************)
(* The one-line text field of src/ui/text_input.c as operators on its      *)
(* value.  An operation returns whether the key was taken and the field it *)
(* leaves; one that has to allocate may fail, which changes nothing.       *)
(***************************************************************************)
EXTENDS Utf8Text

CONSTANT MaxLen        \* max_len of the field, in bytes

EmptyField == [text |-> <<>>, cursor |-> 0]

Taken(f)   == [taken |-> TRUE, field |-> f]
Refused(f) == [taken |-> FALSE, field |-> f]

\* text_input_set_text: what is too long loses its end, at a boundary.
FieldSetText(f, t, memory) ==
  LET len == IF Len(t) > MaxLen THEN ValidPrefix(t, MaxLen) ELSE Len(t)
  IN  IF memory THEN [text |-> SubSeq(t, 1, len), cursor |-> len] ELSE f

FieldInsert(f, c, memory) ==
  IF Len(f.text) + Bytes[c] > MaxLen \/ ~memory THEN Refused(f)
  ELSE Taken([text   |-> Splice(f.text, f.cursor, f.cursor, Encode(c)),
              cursor |-> f.cursor + Bytes[c]])

FieldBackspace(f) ==
  LET previous == PrevChar(f.text, f.cursor)
  IN  IF f.cursor = 0 THEN Refused(f)
      ELSE Taken([text |-> Splice(f.text, previous, f.cursor, <<>>), cursor |-> previous])

FieldDelete(f) ==
  IF f.cursor >= Len(f.text) THEN Refused(f)
  ELSE Taken([f EXCEPT !.text = Splice(@, f.cursor, NextChar(@, f.cursor), <<>>)])

FieldKillToEnd(f) == Taken([f EXCEPT !.text = SubSeq(@, 1, f.cursor)])

FieldMoves(f) ==
  { Taken([f EXCEPT !.cursor = to]) :
      to \in {0, Len(f.text), PrevChar(f.text, f.cursor), NextChar(f.text, f.cursor)} }

\* text_input_handle_key, for every key.
FieldKeys(f, memory) ==
  FieldMoves(f)
    \cup {FieldInsert(f, c, memory) : c \in Chars}
    \cup {FieldBackspace(f), FieldDelete(f), FieldKillToEnd(f), Taken(EmptyField)}

(***************************************************************************)
(* text_input_render: the first byte shown and the cell of the cursor.     *)
(***************************************************************************)
FieldStart(f, width) ==
  Min({p \in Boundaries(f.text) :
         p <= f.cursor /\ (p = f.cursor \/ ColumnsIn(f.text, p, f.cursor) < width)})

FieldCursorCell(f, width) == ColumnsIn(f.text, FieldStart(f, width), f.cursor)

FieldOK(f) ==
  /\ Valid(f.text) /\ Len(f.text) <= MaxLen
  /\ f.cursor \in Boundaries(f.text)
=============================================================================
