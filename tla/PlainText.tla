----------------------------- MODULE PlainText -----------------------------
(***************************************************************************)
(* What a user of Notepad's editor is promised: a text of characters with  *)
(* a cursor and the other end of a selection, between two characters each. *)
(* An edit replaces what is selected, or one character or the rest of a    *)
(* line when nothing is, and leaves the cursor behind what it put there;   *)
(* whatever else happens leaves the text alone.  Implemented by Editor.    *)
(***************************************************************************)
EXTENDS Naturals, Sequences

CONSTANTS
  LineEnd,     \* the character that ends a line
  Inserts,     \* what one edit can insert
  Loads        \* texts that are loaded or restored

VARIABLES text, point, mark

Least(a, b)    == IF a < b THEN a ELSE b
Greatest(a, b) == IF a > b THEN a ELSE b

Init == text = <<>> /\ point = 0 /\ mark = 0

ReplaceBetween(from, to, new) ==
  /\ text' = SubSeq(text, 1, from) \o new \o SubSeq(text, to + 1, Len(text))
  /\ point' = from + Len(new) /\ mark' = point'

Insert == \E new \in Inserts :
            ReplaceBetween(Least(point, mark), Greatest(point, mark), new)

EraseBefore == point = mark /\ point > 0 /\ ReplaceBetween(point - 1, point, <<>>)
EraseAfter  == point = mark /\ point < Len(text) /\ ReplaceBetween(point, point + 1, <<>>)

EraseLine ==
  /\ point = mark
  /\ \E to \in (point + 1)..Len(text) :
       /\ \A k \in (point + 1)..to : text[k] # LineEnd
       /\ to < Len(text) => text[to + 1] = LineEnd
       /\ ReplaceBetween(point, to, <<>>)

Move == UNCHANGED text /\ point' \in 0..Len(text) /\ mark' \in 0..Len(text)

Load ==
  /\ text' \in Loads
  /\ point' \in 0..Len(text') /\ mark' = point'

Next == Insert \/ EraseBefore \/ EraseAfter \/ EraseLine \/ Move \/ Load

Spec == Init /\ [][Next]_<<text, point, mark>>
=============================================================================
