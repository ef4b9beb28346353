------------------------------- MODULE WmOps -------------------------------
(***************************************************************************)
(* The window manager of src/wm/window_manager.c as operators on a value:  *)
(* every operator takes the manager's state and returns the state the C    *)
(* function leaves.  Handlers that call several window manager functions   *)
(* in a row are compositions of these operators.                           *)
(*                                                                         *)
(* The array wm->windows is the stacking order, last element on top.  What *)
(* the code asks of it is which of two windows is higher, so it is kept as *)
(* the relation "above".  Per-window flags are kept as sets of window ids. *)
(* Positions and sizes are in WindowGeometry.                              *)
(***************************************************************************)
EXTENDS Integers, FiniteSets

NoWindow == -1                 \* WINDOW_ID_INVALID
NoMotionLimit == 3             \* sessions without motion that degrade dragging

(***************************************************************************)
(* The state right after wm_create.                                        *)
(***************************************************************************)
WmInit ==
  [ open        |-> {},        \* ids in wm->windows
    above       |-> {},        \* <<i, j>>: i comes after j in wm->windows
    fixed       |-> {},        \* WINDOW_FLAG_FIXED
    modal       |-> {},        \* WINDOW_FLAG_MODAL
    minimized   |-> {},
    closing     |-> {},        \* close_requested
    active      |-> NoWindow,  \* active_id
    lit         |-> {},        \* windows with is_active set
    next        |-> 1,         \* next_id
    dragEnabled |-> TRUE,
    autoDegrade |-> FALSE,
    degraded    |-> FALSE,
    sessions    |-> 0,         \* drag_no_motion_sessions
    dragging    |-> FALSE,
    dragWin     |-> NoWindow,  \* drag_window_id
    dragMoved   |-> FALSE ]    \* drag_session_moved

Visible(w)   == w.open \ (w.minimized \cup w.closing)
Focusable(w) == Visible(w) \ w.fixed

IsTop(w, S, i)    == i \in S /\ \A j \in S \ {i} : <<i, j>> \in w.above
IsBottom(w, S, i) == i \in S /\ \A j \in S \ {i} : <<j, i>> \in w.above

Topmost(w, S)    == IF S = {} THEN NoWindow ELSE CHOOSE i \in S : IsTop(w, S, i)
Bottommost(w, S) == IF S = {} THEN NoWindow ELSE CHOOSE i \in S : IsBottom(w, S, i)

TopmostModal(w) == Topmost(w, Visible(w) \cap w.modal)

UpdateActiveFlags(w) == [w EXCEPT !.lit = Visible(w) \cap {w.active}]

\* Focus stays where it is while that window can be seen.
SelectTopmostVisible(w) ==
  UpdateActiveFlags(
    IF w.active \in Visible(w)
      THEN w
      ELSE [w EXCEPT !.active = Topmost(w, Visible(w))])

\* Frees every window marked close_requested.  drag_session_moved is kept.
CleanupClosed(w) ==
  LET kept     == w.open \ w.closing
      dragLost == w.dragWin \in w.closing
  IN  SelectTopmostVisible(
        [w EXCEPT !.open      = kept,
                  !.above     = @ \cap (kept \X kept),
                  !.fixed     = @ \cap kept,
                  !.modal     = @ \cap kept,
                  !.minimized = @ \cap kept,
                  !.closing   = {},
                  !.active    = IF @ \in w.closing THEN NoWindow ELSE @,
                  !.dragging  = IF dragLost THEN FALSE ELSE @,
                  !.dragWin   = IF dragLost THEN NoWindow ELSE @])

RequestClose(w, id) ==
  IF id \in w.open THEN [w EXCEPT !.closing = @ \cup {id}] ELSE w

\* Mutant: the window is marked, and freed at the next event only.
CloseWindowLater(w, id) == RequestClose(w, id)

CloseWindow(w, id) ==
  IF id \in w.open THEN CleanupClosed(RequestClose(w, id)) ELSE w

\* Mutant: focusing a minimized window does not bring it back.
FocusWindowHidden(w, id) ==
  IF id \in w.open \ w.closing THEN UpdateActiveFlags([w EXCEPT !.active = id]) ELSE w

FocusWindow(w, id) ==
  IF id \in w.open \ w.closing
    THEN UpdateActiveFlags([w EXCEPT !.minimized = @ \ {id}, !.active = id])
    ELSE w

\* Mutant: the window and the topmost one change places.
BringToFrontSwaps(w, id) ==
  LET top     == Topmost(w, w.open)
      swap(i) == IF i = id THEN top ELSE IF i = top THEN id ELSE i
  IN  IF id \in Visible(w)
        THEN [w EXCEPT !.above = {<<swap(p[1]), swap(p[2])>> : p \in @}]
        ELSE w

BringToFront(w, id) ==
  IF id \in Visible(w)
    THEN [w EXCEPT !.above = (@ \ (w.open \X {id})) \cup ({id} \X (w.open \ {id}))]
    ELSE w

Raise(w, id) == BringToFront(FocusWindow(w, id), id)

\* wm_create_window on a screen that is large enough ...
CreateWindow(w, isFixed, isModal) ==
  LET id == w.next
  IN  UpdateActiveFlags(
        [w EXCEPT !.open   = @ \cup {id},
                  !.above  = @ \cup ({id} \X w.open),
                  !.fixed  = IF isFixed THEN @ \cup {id} ELSE @,
                  !.modal  = IF isModal THEN @ \cup {id} ELSE @,
                  !.active = id,
                  !.next   = id + 1])

\* ... and on one that is too small: only the id is used up.
CreateFails(w) == [w EXCEPT !.next = @ + 1]

(***************************************************************************)
(* F6.  The scan starts one place above the active window (or above the    *)
(* top of the stack, that is at its bottom, when there is none), wraps     *)
(* around and ends at the active window itself.                            *)
(***************************************************************************)
CycleTarget(w) ==
  LET from   == IF w.active \in w.open THEN w.active ELSE Topmost(w, w.open)
      higher == {i \in Focusable(w) : <<i, from>> \in w.above}
  IN  Bottommost(w, IF higher # {} THEN higher ELSE Focusable(w))

CycleFocus(w) ==
  IF \/ Cardinality(w.open) < 2
     \/ TopmostModal(w) # NoWindow
     \/ CycleTarget(w) \in {NoWindow, w.active}
    THEN w
    ELSE UpdateActiveFlags(
           BringToFront([w EXCEPT !.active = CycleTarget(w)], CycleTarget(w)))

CanMinimize(w, id) == id \in w.open \ (w.minimized \cup w.fixed \cup w.modal)

\* Mutant: a drag in progress goes on.
MinimizeWindowHeld(w, id) ==
  IF CanMinimize(w, id)
    THEN SelectTopmostVisible(
           [w EXCEPT !.minimized = @ \cup {id},
                     !.active    = IF @ = id THEN NoWindow ELSE @])
    ELSE w

\* Mutant: the focus it had goes to no other window.
MinimizeWindowAlone(w, id) ==
  IF CanMinimize(w, id)
    THEN UpdateActiveFlags(
           [w EXCEPT !.minimized = @ \cup {id},
                     !.active    = IF @ = id THEN NoWindow ELSE @])
    ELSE w

MinimizeWindow(w, id) ==
  IF CanMinimize(w, id)
    THEN SelectTopmostVisible(
           [w EXCEPT !.minimized = @ \cup {id},
                     !.active    = IF @ = id THEN NoWindow ELSE @,
                     !.dragging  = IF w.dragWin = id THEN FALSE ELSE @,
                     !.dragWin   = IF @ = id THEN NoWindow ELSE @,
                     !.dragMoved = IF w.dragWin = id THEN FALSE ELSE @])
    ELSE w

RestoreWindow(w, id) ==
  IF id \in w.minimized
    THEN UpdateActiveFlags([w EXCEPT !.minimized = @ \ {id}])
    ELSE w

SetDragEnabled(w, on) ==
  IF on
    THEN [w EXCEPT !.dragEnabled = TRUE, !.degraded = FALSE, !.sessions = 0]
    ELSE [w EXCEPT !.dragEnabled = FALSE, !.dragging = FALSE,
                   !.dragWin = NoWindow, !.dragMoved = FALSE]

SetDragAutoDegrade(w, on) ==
  IF on
    THEN [w EXCEPT !.autoDegrade = TRUE]
    ELSE [w EXCEPT !.autoDegrade = FALSE, !.sessions = 0, !.degraded = FALSE,
                   !.dragEnabled = TRUE]

(***************************************************************************)
(* The mouse.  An event is the set of its flags, a subset of               *)
(* {"pressed", "clicked", "released", "moved", "dblclick"}; hit is the     *)
(* topmost visible window under the pointer, or NoWindow.                  *)
(***************************************************************************)
PressFocus(w, m, hit) ==
  IF hit # NoWindow /\ {"pressed", "clicked"} \cap m # {} THEN Raise(w, hit) ELSE w

\* Mutant: fixed windows can be dragged.
StartsDragFixed(w, m, hit, onTitle) ==
  w.dragEnabled /\ "pressed" \in m /\ "clicked" \notin m /\ hit # NoWindow /\ onTitle

StartsDrag(w, m, hit, onTitle) ==
  /\ w.dragEnabled
  /\ "pressed" \in m /\ "clicked" \notin m
  /\ hit # NoWindow /\ hit \notin w.fixed
  /\ onTitle

StartDrag(w, m, hit, onTitle) ==
  IF StartsDrag(w, m, hit, onTitle)
    THEN [w EXCEPT !.dragging = TRUE, !.dragWin = hit, !.dragMoved = FALSE]
    ELSE w

ButtonUp(m) == {"released", "clicked"} \cap m # {}

\* The dragged window follows the pointer.
Follows(w, m) == w.dragging /\ "moved" \in m /\ w.dragWin \in Visible(w)

NoteMotion(w, m) ==
  IF Follows(w, m) /\ ~ButtonUp(m) THEN [w EXCEPT !.dragMoved = TRUE] ELSE w

CountSession(w) ==
  IF w.dragMoved THEN [w EXCEPT !.sessions = 0]
  ELSE IF w.autoDegrade
    THEN LET n == w.sessions + 1
         IN  [w EXCEPT !.sessions    = n,
                       !.dragEnabled = IF n >= NoMotionLimit THEN FALSE ELSE @,
                       !.degraded    = IF n >= NoMotionLimit THEN TRUE ELSE @]
    ELSE w

EndDrag(w, m) ==
  IF w.dragging /\ ButtonUp(m)
    THEN [CountSession(w) EXCEPT !.dragging = FALSE, !.dragWin = NoWindow,
                                 !.dragMoved = FALSE]
    ELSE w

\* Mutant: windows under a modal one react to the mouse.
PointerUnderModal(w, m, hit, onTitle) ==
  EndDrag(NoteMotion(StartDrag(PressFocus(w, m, hit), m, hit, onTitle), m), m)

\* What a mouse event does to the manager before the window's callback runs.
Pointer(w, m, hit, onTitle) ==
  IF TopmostModal(w) # NoWindow
    THEN w
    ELSE EndDrag(NoteMotion(StartDrag(PressFocus(w, m, hit), m, hit, onTitle), m), m)

\* The window whose event callback gets a mouse event or a key.
MouseTarget(w, hit) ==
  IF TopmostModal(w) # NoWindow THEN TopmostModal(w) ELSE hit

KeyTarget(w) ==
  LET target == IF TopmostModal(w) # NoWindow THEN TopmostModal(w) ELSE w.active
  IN  IF target \in Visible(w) THEN target ELSE NoWindow

-----------------------------------------------------------------------------
(***************************************************************************)
(* What the clients of the manager rely on between two calls.              *)
(***************************************************************************)

WmValues ==
  [ open : SUBSET Nat, above : SUBSET (Nat \X Nat), fixed : SUBSET Nat,
    modal : SUBSET Nat, minimized : SUBSET Nat, closing : SUBSET Nat,
    active : Nat \cup {NoWindow}, lit : SUBSET Nat, next : Nat \ {0},
    dragEnabled : BOOLEAN, autoDegrade : BOOLEAN, degraded : BOOLEAN,
    sessions : 0 .. NoMotionLimit, dragging : BOOLEAN,
    dragWin : Nat \cup {NoWindow}, dragMoved : BOOLEAN ]

(***************************************************************************)
(* Every field has its type, no id that the manager keeps (flag sets,      *)
(* focus, drag) is that of a freed window, and no window that asked to be  *)
(* closed survives the event.                                              *)
(***************************************************************************)
WmTypeOK(w) ==
  /\ w \in WmValues
  /\ w.open \subseteq 1 .. w.next - 1
  /\ w.above \subseteq w.open \X w.open
  /\ w.fixed \cup w.modal \cup w.minimized \cup w.lit \subseteq w.open
  /\ {w.active, w.dragWin} \subseteq w.open \cup {NoWindow}
  /\ w.closing = {}

(***************************************************************************)
(* Focus is on a window that can be seen, or nowhere, and the frame drawn  *)
(* as active is that of the focused window: after any sequence of closes,  *)
(* minimizes, raises and callbacks keys never go to a hidden window.       *)
(***************************************************************************)
FocusOK(w) ==
  /\ w.active \in Visible(w) \cup {NoWindow}
  /\ w.lit = Visible(w) \cap {w.active}

(***************************************************************************)
(* A drag in progress is of a window that can be seen and moved, and only  *)
(* while dragging is enabled: closing, minimizing or disabling in the      *)
(* middle of a drag leaves no drag behind (window_manager.c:124-127,       *)
(* 206-209, 361-365).                                                      *)
(***************************************************************************)
DragOK(w) ==
  /\ w.dragging <=> w.dragWin # NoWindow
  /\ w.dragging => w.dragEnabled /\ w.dragWin \in Focusable(w)

(***************************************************************************)
(* Dragging is switched off by degradation exactly after NoMotionLimit     *)
(* sessions in a row without motion, only while automatic degradation is   *)
(* on (window_manager.c:501-510).                                          *)
(***************************************************************************)
DegradeOK(w) ==
  /\ w.degraded <=> w.sessions = NoMotionLimit
  /\ w.degraded => w.autoDegrade /\ ~w.dragEnabled

(***************************************************************************)
(* The stacking order stays a strict total order of the open windows: any  *)
(* set of them has one topmost and one bottommost window.                  *)
(***************************************************************************)
StackOK(w) ==
  /\ \A i, j \in w.open :
        <<i, j>> \in w.above <=> (i # j /\ <<j, i>> \notin w.above)
  /\ \A S \in SUBSET w.open :
        S # {} => (\E i \in S : IsTop(w, S, i)) /\ (\E i \in S : IsBottom(w, S, i))
=============================================================================
