----------------------------- MODULE MCMaximize -----------------------------
(***************************************************************************)
(* A small instance of Maximize.                                           *)
(***************************************************************************)
EXTENDS Maximize

Window(h, w, y, x)  == [h |-> h, w |-> w, y |-> y, x |-> x,
                        fixed |-> FALSE, modal |-> FALSE]
FixedWindow         == [Window(4, 12, 0, 0) EXCEPT !.fixed = TRUE]

\* One row to move in, and the same terminal made smaller.
Tall  == [rows |-> 6, cols |-> 12]
Short == [rows |-> 5, cols |-> 12]

Press  == {"pressed"}
Drag   == {"pressed", "moved"}      \* motion with the button held, raw terminal
Move   == {"moved"}                 \* motion, curses
UpAt   == {"released", "moved"}
Double == {"dblclick"}

MCScreens == {Tall, Short}
MCSpecs   == {Window(4, 12, -1, -1), FixedWindow}
MCEvents  == {Press, Drag, Move, UpAt, Double}
MCTerminals == {[reliable |-> TRUE, console |-> FALSE]}
MCPoints  == {[y |-> 0, x |-> 0], [y |-> 1, x |-> 0]}
=============================================================================
