--------------------------- MODULE WindowManager ---------------------------
(***************************************************************************)
(* The window manager as a state machine: one action per function of       *)
(* src/wm/window_manager.h that changes state, and one per kind of event   *)
(* that wm_handle_event routes.  Its clients may call the functions in any *)
(* order.  The callback of a window may ask for that window to be closed,  *)
(* which the manager carries out before wm_handle_event returns.           *)
(***************************************************************************)
EXTENDS WmOps, WindowGeometry

CONSTANTS
  Specs,          \* window specifications: [h, w, y, x, fixed, modal]
  Screens,        \* sizes the terminal can have: [rows, cols]
  Points,         \* pointer positions: [y, x]
  MouseEvents,    \* what a mouse event can report, sets of flags
  MaxWindows      \* bound on the ids handed out, for model checking

MouseFlags == {"pressed", "clicked", "released", "moved", "dblclick"}

ASSUME WindowManagerAssumption ==
  /\ Specs \subseteq [h : Int, w : Int, y : Int, x : Int,
                      fixed : BOOLEAN, modal : BOOLEAN]
  /\ Screens \subseteq [rows : Nat \ {0}, cols : Nat \ {0}]
  /\ Points \subseteq [y : Int, x : Int]
  /\ MouseEvents \subseteq SUBSET MouseFlags
  /\ MaxWindows \in Nat

VARIABLES
  wm,          \* focus, stacking, drag state: a WmOps value
  rect,        \* rectangle of every open window
  grab,        \* where in the dragged window the pointer holds it
  screen,      \* current size of the terminal
  delivered    \* the window whose event callback ran in the last step

vars == <<wm, rect, grab, screen, delivered>>

Init ==
  /\ wm = WmInit
  /\ rect = [i \in {} |-> 0]
  /\ grab = [y |-> 0, x |-> 0]
  /\ screen \in Screens
  /\ delivered = NoWindow

Forget(r, open) == [i \in open |-> r[i]]     \* frees the windows that are gone

-----------------------------------------------------------------------------
(***************************************************************************)
(* The functions clients call.                                             *)
(***************************************************************************)
Quiet == UNCHANGED <<grab, screen>> /\ delivered' = NoWindow

Create(spec) ==
  /\ wm.next <= MaxWindows
  /\ IF ScreenTooSmall(screen)
       THEN wm' = CreateFails(wm) /\ UNCHANGED rect
       ELSE /\ wm' = CreateWindow(wm, spec.fixed, spec.modal)
            /\ rect' = [i \in wm.open \cup {wm.next} |->
                          IF i = wm.next
                            THEN InitialRect(spec, screen, Cardinality(wm.open))
                            ELSE rect[i]]
  /\ Quiet

Close(id) ==
  /\ wm' = CloseWindow(wm, id)
  /\ rect' = Forget(rect, wm'.open)
  /\ Quiet

Focus(id)        == wm' = FocusWindow(wm, id)    /\ UNCHANGED rect /\ Quiet
ToFront(id)      == wm' = BringToFront(wm, id)   /\ UNCHANGED rect /\ Quiet
Cycle            == wm' = CycleFocus(wm)         /\ UNCHANGED rect /\ Quiet
Minimize(id)     == wm' = MinimizeWindow(wm, id) /\ UNCHANGED rect /\ Quiet
Restore(id)      == wm' = RestoreWindow(wm, id)  /\ UNCHANGED rect /\ Quiet
EnableDrag(on)   == wm' = SetDragEnabled(wm, on) /\ UNCHANGED rect /\ Quiet
AutoDegrade(on)  == wm' = SetDragAutoDegrade(wm, on) /\ UNCHANGED rect /\ Quiet

\* The deltas of the arrow keys in window mode.
Arrows == {[y |-> -1, x |-> 0], [y |-> 1, x |-> 0],
           [y |-> 0, x |-> -1], [y |-> 0, x |-> 1]}

MoveActive(d) ==
  /\ wm.active \in Focusable(wm)
  /\ rect' = [rect EXCEPT ![wm.active] = MoveBy(@, d.y, d.x, screen)]
  /\ UNCHANGED wm /\ Quiet

ResizeActive(d) ==
  /\ wm.active \in Focusable(wm)
  /\ rect' = [rect EXCEPT ![wm.active] = ResizeBy(@, d.y, d.x, screen)]
  /\ UNCHANGED wm /\ Quiet

-----------------------------------------------------------------------------
(***************************************************************************)
(* wm_handle_event.                                                        *)
(***************************************************************************)
\* Mutant: the hit test finds windows that are not drawn.
HitAtHidden(p) == Topmost(wm, {i \in wm.open : Contains(rect[i], p)})

HitAt(p) == Topmost(wm, {i \in Visible(wm) : Contains(rect[i], p)})

\* The callback of window id runs and may request that id be closed.
Callback(w, id) == {w} \cup {RequestClose(w, id)}

Mouse(m, p) ==
  LET hit     == HitAt(p)
      onTitle == hit # NoWindow /\ OnTitle(rect[hit], p)
      blocked == TopmostModal(wm) # NoWindow
      pressed == PressFocus(wm, m, hit)
      held    == StartDrag(pressed, m, hit, onTitle)
      grab1   == IF ~blocked /\ StartsDrag(pressed, m, hit, onTitle)
                   THEN [y |-> p.y - rect[hit].y, x |-> p.x - rect[hit].x]
                   ELSE grab
      rect1   == IF ~blocked /\ Follows(held, m)
                   THEN [rect EXCEPT ![held.dragWin] =
                           MoveTo(@, p.y - grab1.y, p.x - grab1.x, screen)]
                   ELSE rect
      target  == MouseTarget(wm, hit)
  IN  /\ \E w \in Callback(Pointer(wm, m, hit, onTitle), target) :
           wm' = CleanupClosed(w)
      /\ rect' = Forget(rect1, wm'.open)
      /\ grab' = grab1
      /\ delivered' = target
      /\ UNCHANGED screen

Key ==
  /\ \E w \in Callback(wm, KeyTarget(wm)) : wm' = CleanupClosed(w)
  /\ rect' = Forget(rect, wm'.open)
  /\ delivered' = KeyTarget(wm)
  /\ UNCHANGED <<grab, screen>>

TerminalResize(s) ==
  /\ screen' = s
  /\ rect' = [i \in wm.open |-> Clamp(rect[i], s)]
  /\ wm' = CleanupClosed(wm)
  /\ delivered' = NoWindow
  /\ UNCHANGED grab

Next ==
  \/ \E spec \in Specs : Create(spec)
  \/ \E id \in wm.open :
        Close(id) \/ Focus(id) \/ ToFront(id) \/ Minimize(id) \/ Restore(id)
  \/ Cycle
  \/ \E on \in BOOLEAN : EnableDrag(on) \/ AutoDegrade(on)
  \/ \E d \in Arrows : MoveActive(d) \/ ResizeActive(d)
  \/ \E m \in MouseEvents, p \in Points : Mouse(m, p)
  \/ Key
  \/ \E s \in Screens : TerminalResize(s)

Spec == Init /\ [][Next]_vars

-----------------------------------------------------------------------------
(***************************************************************************)
(* Invariants.                                                             *)
(***************************************************************************)
Rectangles == {r \in [y : Int, x : Int, h : Nat, w : Nat] :
                 r.h >= MinHeight /\ r.w >= MinWidth}

(***************************************************************************)
(* The state of the manager is well formed and keeps no freed window       *)
(* (WmTypeOK), and exactly the open windows have rectangles, none smaller  *)
(* than the minimum.                                                       *)
(***************************************************************************)
TypeOK ==
  /\ WmTypeOK(wm)
  /\ rect \in [wm.open -> Rectangles]
  /\ grab \in [y : Int, x : Int]
  /\ screen \in Screens
  /\ delivered \in Nat \cup {NoWindow}

\* Keys never go to a hidden window (FocusOK in WmOps).
FocusInv == FocusOK(wm)

\* No drag survives the closing, hiding or disabling of it (DragOK in WmOps).
DragInv == DragOK(wm)

\* Degradation happens at the limit and only when asked for (DegradeOK in WmOps).
DegradeInv == DegradeOK(wm)

\* One window is on top of any others (StackOK in WmOps).
StackInv == StackOK(wm)

\* The title is above the taskbar if a row is to spare, and the rest on the
\* screen if it fits below and beside the corner or the corner can give way.
OnScreen(r, s) ==
  /\ 0 <= r.y /\ r.y < Greatest(1, s.rows - 1)
  /\ 0 <= r.x /\ r.x < s.cols
  /\ r.y = 0 \/ r.y + r.h <= s.rows
  /\ r.x = 0 \/ r.x + r.w <= s.cols

(***************************************************************************)
(* Every open window has its title above the last row, which is the        *)
(* taskbar's, whenever a row is to spare, and as a whole is on the screen, *)
(* its last row at most under the taskbar, or else starts at the top or    *)
(* the left: no move, drag, resize of the window or of the terminal puts a *)
(* window where the pointer cannot take hold of it (wm_clamp_window).      *)
(***************************************************************************)
TitleOnScreen == \A i \in wm.open : OnScreen(rect[i], screen)

-----------------------------------------------------------------------------
(***************************************************************************)
(* Action properties.                                                      *)
(***************************************************************************)

(***************************************************************************)
(* Input goes to a window that was visible when it arrived; never to a     *)
(* minimized one, wherever the pointer and the focus are                   *)
(* (window_manager.h:68-69).                                               *)
(***************************************************************************)
InputReachesVisible == [][delivered' # NoWindow => delivered' \in Visible(wm)]_vars

(***************************************************************************)
(* While a modal window is visible, input is delivered to the topmost one  *)
(* only, and changes neither the place, the stacking, the focus nor the    *)
(* drag of any other window (window_manager.h:21-24).                      *)
(***************************************************************************)
ModalBlocks ==
  [][ LET modal  == TopmostModal(wm)
          others == wm.open \ {modal}
      IN  modal # NoWindow /\ delivered' # NoWindow =>
            /\ delivered' = modal
            /\ others \subseteq wm'.open
            /\ \A i \in others : rect'[i] = rect[i]
            /\ wm.above \cap (others \X others) = wm'.above \cap (others \X others)
            /\ wm.active \in others => wm'.active = wm.active
            /\ wm.dragWin \in others => wm'.dragWin = wm.dragWin ]_vars

(***************************************************************************)
(* A step changes the place of at most one window in the stack: all the    *)
(* others keep their relative order through raises, cycles, minimizes and  *)
(* closes.                                                                 *)
(***************************************************************************)
OthersKeepOrder ==
  [][ \E raised \in wm'.open \cup {NoWindow} :
        LET others == (wm.open \cap wm'.open) \ {raised}
        IN  wm.above \cap (others \X others) = wm'.above \cap (others \X others) ]_<<wm>>

(***************************************************************************)
(* The only window whose rectangle changes is the one that has the focus,  *)
(* before the event or after it, or is being dragged, and never a fixed    *)
(* one (window_manager.h:20); any other is moved only as far as it takes   *)
(* to keep it on the screen.                                               *)
(***************************************************************************)
OnlyHeldMoves ==
  [][ \A i \in wm.open \cap wm'.open :
        rect'[i] # rect[i] =>
          \/ i \in {wm.active, wm'.active, wm.dragWin} \ wm.fixed
          \/ rect'[i] = Clamp(rect[i], screen') ]_<<rect>>
=============================================================================
