----------------------------- MODULE MCDesktop -----------------------------
(***************************************************************************)
(* Small instances of Desktop.                                             *)
(***************************************************************************)
EXTENDS Desktop

AllKinds  == Kinds
Documents == {"filemanager", "notepad"}

\* Focus by click, and press and release with the drag they make.
Buttons == {{"clicked"}, {"pressed"}, {"released"}}
Presses == {{"pressed"}}

\* The larger instance leaves window mode and minimizing to the smaller one.
Plain == desk.mode = NoWindow /\ desk.wm.minimized = {}
=============================================================================
