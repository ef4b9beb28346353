------------------------------ MODULE Maximize ------------------------------
(***************************************************************************)
(* The window manager as the desktop uses it, through the bridges that add *)
(* maximized windows to it (src/wm/window_maximize.h and                   *)
(* src/ui/window_maximize_bridge.h).  A maximized window is kept as such   *)
(* in a slot beside the manager, with the rectangle to give back; its own  *)
(* rectangle is that of any window, which the manager moves and clamps     *)
(* without knowing of the slots.                                           *)
(***************************************************************************)
EXTENDS WindowManager

CONSTANTS
  SlotCap,        \* WM_MAXIMIZE_SLOT_CAP, 64 in the code
  Terminals       \* [reliable, console]: reliable pointer reports, or a
                  \* Linux console without any

GrowDelta == 1000000    \* WM_MAXIMIZE_GROW_DELTA

ASSUME MaximizeAssumption ==
  /\ SlotCap \in Nat \ {0}
  /\ Terminals \subseteq [reliable : BOOLEAN, console : BOOLEAN]

\* A terminal tells its size in 16 bits.
ASSUME TerminalAssumption ==
  \A s \in Screens : s.rows < GrowDelta /\ s.cols < GrowDelta

VARIABLES
  slots,      \* the slots of open windows: [maximized, restore]; those of
              \* windows that are gone are dropped by the next look
  was         \* the rectangle a window had when it was not maximized last

mvars == <<wm, rect, grab, screen, delivered, slots, was>>

NoSlots == [i \in {} |-> [maximized |-> FALSE]]

Maximized(i) == i \in DOMAIN slots /\ slots[i].maximized

-----------------------------------------------------------------------------
(***************************************************************************)
(* Rectangles.                                                             *)
(***************************************************************************)
\* wm_apply_maximized_geometry: grow over the whole terminal, then leave the
\* last row to the taskbar.
Fill(r, s) ==
  LET grown == ResizeBy(MoveBy(r, -r.y, -r.x, s), GrowDelta, GrowDelta, s)
  IN  IF grown.h > MinHeight THEN ResizeBy(grown, -1, 0, s) ELSE grown

\* Mutant: moved while it is still too large to be put there.
GiveBackEarly(r, back, s) ==
  ResizeBy(MoveBy(r, back.y - r.y, back.x - r.x, s), back.h - r.h, back.w - r.w, s)

\* Back from r to the rectangle it had: its size first, then its place.
GiveBack(r, back, s) ==
  MoveBy(ResizeBy(r, back.h - r.h, back.w - r.w, s), back.y - r.y, back.x - r.x, s)

-----------------------------------------------------------------------------
(***************************************************************************)
(* F8, and a double click on the title of the active window.               *)
(***************************************************************************)
\* The active window obeys: it is visible and not fixed.
Obeys == wm.active \in Focusable(wm)

HasSlot == wm.active \in DOMAIN slots \/ Cardinality(DOMAIN slots) < SlotCap

MaximizeActive ==
  /\ Obeys /\ ~Maximized(wm.active) /\ HasSlot
  /\ rect' = [rect EXCEPT ![wm.active] = Fill(@, screen)]
  /\ slots' = [i \in DOMAIN slots \cup {wm.active} |->
                 IF i = wm.active THEN [maximized |-> TRUE, restore |-> rect[i]]
                                  ELSE slots[i]]

UnmaximizeActive ==
  /\ Obeys /\ Maximized(wm.active)
  /\ rect' = [rect EXCEPT ![wm.active] = GiveBack(@, slots[wm.active].restore, screen)]
  /\ slots' = [slots EXCEPT ![wm.active].maximized = FALSE]

Toggles == Obeys /\ (Maximized(wm.active) \/ HasSlot)

Toggle == (MaximizeActive \/ UnmaximizeActive) /\ UNCHANGED wm /\ Quiet

OpenSlots == slots' = [i \in DOMAIN slots \cap wm'.open |-> slots[i]]

\* A window that finds no slot has been grown by then and is put back ...
PutBack(i) == GiveBack(Fill(rect[i], screen), rect[i], screen)

\* ... and the key goes on its way.
ToggleFails ==
  /\ ~Toggles
  /\ \E w \in Callback(wm, KeyTarget(wm)) : wm' = CleanupClosed(w)
  /\ rect' = Forget([i \in wm.open |->
                       IF i = wm.active /\ Obeys THEN PutBack(i) ELSE rect[i]],
                    wm'.open)
  /\ delivered' = KeyTarget(wm)
  /\ OpenSlots
  /\ UNCHANGED <<grab, screen>>

OnActiveTitle(p) ==
  wm.active # NoWindow /\ OnTitle(rect[wm.active], p)

\* desktop_maximize_handle_event, of a mouse event.  (Left out is a double
\* click on a window that finds no slot and is put back somewhere else.)
MouseEvent(m, p) ==
  LET twice == "dblclick" \in m /\ OnActiveTitle(p)
  IN  IF twice /\ Toggles
        THEN Toggle
        ELSE /\ twice /\ Obeys => PutBack(wm.active) = rect[wm.active]
             /\ Mouse(m, p) /\ OpenSlots

-----------------------------------------------------------------------------
(***************************************************************************)
(* What the bridges add to functions of the manager.                       *)
(***************************************************************************)
\* Mutant: the window is not fitted again.
RefreshedNever(r, w, id, s) == r

\* wm_refresh_maximized_window: only the active window is fitted again.
Refreshed(r, w, id, s) ==
  IF Maximized(id) /\ id = w.active /\ id \in Focusable(w)
    THEN [r EXCEPT ![id] = Fill(@, s)] ELSE r

\* wm_focus_window, from the taskbar and the launcher.
FocusFits(id) ==
  /\ wm' = FocusWindow(wm, id)
  /\ rect' = Refreshed(rect, wm', id, screen)
  /\ UNCHANGED slots /\ Quiet

MoveNormal(d)   == ~Maximized(wm.active) /\ MoveActive(d) /\ UNCHANGED slots
ResizeNormal(d) == ~Maximized(wm.active) /\ ResizeActive(d) /\ UNCHANGED slots

ResizeTerminal(s) ==
  /\ screen' = s
  /\ wm' = CleanupClosed(wm)
  /\ rect' = Refreshed([i \in wm.open |-> Clamp(rect[i], s)], wm', wm'.active, s)
  /\ delivered' = NoWindow
  /\ OpenSlots
  /\ UNCHANGED grab

Step ==
  \/ \E spec \in Specs : Create(spec) /\ UNCHANGED slots
  \/ \E id \in wm.open : \/ Close(id) /\ OpenSlots
                         \/ FocusFits(id)
                         \/ (ToFront(id) \/ Minimize(id) \/ Restore(id)) /\ UNCHANGED slots
  \/ Cycle /\ UNCHANGED slots
  \/ \E d \in Arrows : MoveNormal(d) \/ ResizeNormal(d)
  \/ \E m \in MouseEvents, p \in Points : MouseEvent(m, p)
  \/ Toggle \/ ToggleFails
  \/ \E s \in Screens : ResizeTerminal(s)

\* desktop_create sets dragging once, by what the terminal can do.
MInit ==
  /\ \E t \in Terminals :
        wm = SetDragAutoDegrade(SetDragEnabled(WmInit, t.reliable), t.console)
  /\ rect = [i \in {} |-> 0]
  /\ grab = [y |-> 0, x |-> 0]
  /\ screen \in Screens
  /\ delivered = NoWindow
  /\ slots = NoSlots /\ was = rect

MNext ==
  /\ Step
  /\ was' = [i \in wm'.open |-> IF Maximized(i)' THEN was[i] ELSE rect'[i]]

MSpec == MInit /\ [][MNext]_mvars

-----------------------------------------------------------------------------
WorkArea(s) == [y |-> 0, x |-> 0, h |-> s.rows - 1, w |-> s.cols]
Roomy(s)    == s.rows > MinHeight /\ s.cols >= MinWidthKeys

(***************************************************************************)
(* On a terminal with room for a window and the taskbar, a window that is  *)
(* maximized, and one that is maximized and active when the terminal has   *)
(* changed, fills the work area; and it goes on to fill it until it is     *)
(* unmaximized or the terminal changes while another window is active:     *)
(* no key and no drag moves it, though the manager knows nothing of slots  *)
(* (docs/ARCHITECTURE.md:208-213).                                         *)
(***************************************************************************)
MaximizedFills ==
  [][ \A i \in wm.open \cap wm'.open :
        /\ Maximized(i)'
        /\ Roomy(screen')
        /\ IF screen' = screen THEN ~Maximized(i) \/ rect[i] = WorkArea(screen)
                               ELSE i = wm'.active
        => rect'[i] = WorkArea(screen') ]_<<rect, slots, screen>>

Fits(r, s) ==
  /\ r.w >= MinWidthKeys /\ r.x + r.w <= s.cols
  /\ r.h >= MinHeight    /\ r.y + r.h < s.rows

(***************************************************************************)
(* Whatever happened to it meanwhile, a window at the corner is given back *)
(* the rectangle it had before it was maximized, if that still fits above  *)
(* the taskbar (docs/PROJECT_STATUS.md:75); and one that cannot be         *)
(* maximized keeps its own.                                                *)
(***************************************************************************)
RestoresExactly ==
  [][ \A i \in wm.open \cap wm'.open :
        Fits(was[i], screen) =>
          \/ rect'[i] = was[i]
          \/ IF Maximized(i) THEN Maximized(i)' \/ rect[i].y # 0 \/ rect[i].x # 0
                             ELSE ~ToggleFails ]_<<rect, slots>>
=============================================================================
