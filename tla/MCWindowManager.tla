-------------------------- MODULE MCWindowManager --------------------------
(***************************************************************************)
(* A small instance of WindowManager.                                      *)
(***************************************************************************)
EXTENDS WindowManager

Window(h, w, y, x)  == [h |-> h, w |-> w, y |-> y, x |-> x,
                        fixed |-> FALSE, modal |-> FALSE]
FixedWindow         == [Window(4, 12, 0, 0) EXCEPT !.fixed = TRUE]
ModalWindow         == [Window(4, 12, 0, 0) EXCEPT !.modal = TRUE]

Press == {"pressed"}
Up    == {"released"}
Tap   == {"clicked"}

StackScreens == {[rows |-> 5, cols |-> 12]}
StackSpecs  == {Window(4, 12, 0, 0), FixedWindow, ModalWindow}
StackEvents == {Press, Up, Tap}
StackPoints == {[y |-> 0, x |-> 0], [y |-> 1, x |-> 0]}
=============================================================================
