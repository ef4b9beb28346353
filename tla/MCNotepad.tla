------------------------------ MODULE MCNotepad ------------------------------
(***************************************************************************)
(* A small instance of Notepad: texts of 0 to 4 bytes, 3 of which fit.     *)
(***************************************************************************)
EXTENDS Notepad

CONSTANTS none, one, two, four, here, there

Texts  == {none, one, two, four}
Places == {here, there}
Sizes  == [t \in Texts |-> CASE t = none -> 0 [] t = one -> 1 [] t = two -> 2 [] OTHER -> 4]
=============================================================================
