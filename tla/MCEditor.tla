------------------------------ MODULE MCEditor ------------------------------
(***************************************************************************)
(* A small instance of Editor: a letter in two cases, a letter of two      *)
(* bytes and a combining mark.                                             *)
(***************************************************************************)
EXTENDS Editor, TLC

Letters == {"a", "A", "n~"}
Marked  == {"a", "n~", "mark"}
Width2  == [c \in Letters \cup Marked |-> IF c \in {"n~", "mark"} THEN 2 ELSE 1]
CellsOf == [c \in Letters \cup Marked |-> IF c = "mark" THEN 0 ELSE 1]
Lower   == [c \in Letters \cup Marked |-> IF c = "A" THEN "a" ELSE c]
Used    == Letters \cup Marked

Clips   == {<<"a", NewLine, "A">>}
Files   == {<<"n~", "a">>, <<"a", NewLine, "mark">>}
Areas   == {[rows |-> 1, columns |-> 1], [rows |-> 2, columns |-> 2]}

\* What is left of a query after Find is closed is never read again: opening
\* Find empties the field.
QueryInUse == searching \/ field = Field!EmptyField
=============================================================================
