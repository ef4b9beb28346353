--------------------------- MODULE Windows_proofs ---------------------------
(***************************************************************************)
(* Proofs about the window manager alone, and then about maximized windows *)
(* on it, for any window specifications and screens, any number of windows *)
(* and any sequence of calls and events.  The second part rests on the     *)
(* first: what the bridges add changes rectangles and slots, and focus     *)
(* only by functions of the manager.  The lemmas about these functions are *)
(* in WmOps_proofs.                                                        *)
(***************************************************************************)
EXTENDS Maximize, WmOps_proofs

(***************************************************************************)
(* The rectangles.                                                         *)
(***************************************************************************)
\* A clamped rectangle is on the screen and keeps its size.
LEMMA ClampRight ==
  ASSUME NEW r \in Rectangles, NEW s \in [rows : Nat \ {0}, cols : Nat \ {0}]
  PROVE  Clamp(r, s) \in Rectangles /\ OnScreen(Clamp(r, s), s)
<1> DEFINE y == Within(r.y, 0, Greatest(0, s.rows - r.h - 1))
           x == Within(r.x, 0, Greatest(0, s.cols - r.w))
<1>1. /\ y \in Int /\ 0 <= y /\ y < Greatest(1, s.rows - 1)
      /\ y = 0 \/ y + r.h <= s.rows
  BY DEF Rectangles, Within, Least, Greatest, MinHeight
<1>3. /\ x \in Int /\ 0 <= x /\ x < s.cols
      /\ x = 0 \/ x + r.w <= s.cols
  BY DEF Rectangles, Within, Least, Greatest, MinWidth
<1>2. Clamp(r, s) = [r EXCEPT !.y = y, !.x = x]
  BY DEF Clamp
<1> HIDE DEF y, x
<1> QED  BY <1>1, <1>2, <1>3 DEF Rectangles, OnScreen

\* A moved rectangle is on the screen and keeps its size.
LEMMA MoveRight ==
  ASSUME NEW r \in Rectangles, NEW s \in [rows : Nat \ {0}, cols : Nat \ {0}],
         NEW y \in Int, NEW x \in Int
  PROVE  MoveTo(r, y, x, s) \in Rectangles /\ OnScreen(MoveTo(r, y, x, s), s)
<1>1. [r EXCEPT !.y = y, !.x = x] \in Rectangles
  BY DEF Rectangles
<1> QED  BY <1>1, ClampRight DEF MoveTo

\* A resized rectangle stays where it was and is not below the minimum size.
LEMMA ResizeRight ==
  ASSUME NEW r \in Rectangles, NEW s \in [rows : Nat \ {0}, cols : Nat \ {0}],
         OnScreen(r, s), NEW dh \in Int, NEW dw \in Int
  PROVE  ResizeBy(r, dh, dw, s) \in Rectangles /\ OnScreen(ResizeBy(r, dh, dw, s), s)
<1> DEFINE h0 == Greatest(r.h + dh, MinHeight)
           w0 == Greatest(r.w + dw, MinWidthKeys)
           h  == IF s.rows > 0 /\ r.y + h0 > s.rows THEN s.rows - r.y ELSE h0
           w  == IF s.cols > 0 /\ r.x + w0 > s.cols THEN s.cols - r.x ELSE w0
<1>1. /\ h \in Int /\ r.y + h <= s.rows
      /\ w \in Int /\ r.x + w <= s.cols
  BY DEF Rectangles, Greatest, MinHeight, MinWidthKeys
<1>2. ResizeBy(r, dh, dw, s) =
        IF h < MinHeight \/ w < MinWidthKeys THEN r ELSE [r EXCEPT !.h = h, !.w = w]
  BY DEF ResizeBy
<1> HIDE DEF h, w
<1>3. CASE h < MinHeight \/ w < MinWidthKeys
  BY <1>2, <1>3
<1>4. CASE ~(h < MinHeight \/ w < MinWidthKeys)
  <2>1. h \in Nat /\ w \in Nat /\ h >= MinHeight /\ w >= MinWidth
    BY <1>1, <1>4 DEF MinHeight, MinWidthKeys, MinWidth
  <2>2. [r EXCEPT !.h = h, !.w = w] \in Rectangles
    BY <2>1 DEF Rectangles
  <2>3. OnScreen([r EXCEPT !.h = h, !.w = w], s)
    BY <1>1, <2>1 DEF Rectangles, OnScreen
  <2> QED  BY <1>2, <1>4, <2>2, <2>3
<1> QED  BY <1>3, <1>4

\* A new window is on the screen and is not below the minimum size.
LEMMA InitialRight ==
  ASSUME NEW spec \in Specs, NEW s \in Screens, NEW n \in Nat
  PROVE  InitialRect(spec, s, n) \in Rectangles /\ OnScreen(InitialRect(spec, s, n), s)
<1> DEFINE h       == Least(Greatest(spec.h, MinHeight), Greatest(s.rows - 1, MinHeight))
           w       == Least(Greatest(spec.w, MinWidth), Greatest(s.cols, MinWidth))
           cascade == n % 5
           placed  == IF spec.y < 0 \/ spec.x < 0
                        THEN [y |-> 1 + cascade, x |-> 2 + 3 * cascade, h |-> h, w |-> w]
                        ELSE [y |-> spec.y, x |-> spec.x, h |-> h, w |-> w]
<1>1. /\ spec \in [h : Int, w : Int, y : Int, x : Int, fixed : BOOLEAN, modal : BOOLEAN]
      /\ s \in [rows : Nat \ {0}, cols : Nat \ {0}]
  BY WindowManagerAssumption
<1>2. h \in Nat /\ h >= MinHeight /\ w \in Nat /\ w >= MinWidth
  BY <1>1 DEF Least, Greatest, MinHeight, MinWidth
<1>3. 1 + cascade \in Int /\ 2 + 3 * cascade \in Int
  <2>1. cascade \in Int
    OBVIOUS
  <2> HIDE DEF cascade
  <2> QED  BY <2>1
<1>4. placed \in Rectangles
  <2> HIDE DEF h, w, cascade
  <2> QED  BY <1>1, <1>2, <1>3 DEF Rectangles
<1>5. InitialRect(spec, s, n) = Clamp(placed, s)
  BY DEF InitialRect
<1> HIDE DEF placed
<1> QED  BY <1>1, <1>4, <1>5, ClampRight

-----------------------------------------------------------------------------
(***************************************************************************)
(* The state machine.                                                      *)
(***************************************************************************)
IInv ==
  /\ WmInv(wm)
  /\ IsFiniteSet(wm.open)
  /\ TypeOK
  /\ TitleOnScreen

\* wm_create leaves a manager that satisfies IInv.
LEMMA InitRight == Init => IInv
<1> SUFFICES ASSUME Init PROVE IInv
  OBVIOUS
<1>1. WmInit.open = {} /\ WmTypeOK(WmInit) /\ WmInv(WmInit)
  BY WmInitRight DEF WmInit, WmInv
<1>2. IsFiniteSet(wm.open)
  BY <1>1, FS_EmptySet DEF Init
<1>3. TypeOK /\ TitleOnScreen
  BY <1>1 DEF Init, TypeOK, TitleOnScreen
<1> QED  BY <1>1, <1>2, <1>3 DEF Init, IInv

(***************************************************************************)
(* A call that leaves the rectangles alone and opens or closes nothing.    *)
(***************************************************************************)
LEMMA QuietCall ==
  ASSUME IInv, WmInv(wm'), wm'.open \subseteq wm.open,
         rect' = Forget(rect, wm'.open), Quiet
  PROVE  IInv'
<1>1. /\ wm.open \in SUBSET Nat /\ IsFiniteSet(wm'.open)
  BY FS_Subset DEF IInv, WmInv, WmTypeOK, WmValues
<1>2. rect' \in [wm'.open -> Rectangles] /\ \A i \in wm'.open : rect'[i] = rect[i]
  BY DEF IInv, TypeOK, Forget
<1>3. TypeOK'
  BY <1>2 DEF IInv, TypeOK, Quiet, WmInv
<1>4. TitleOnScreen'
  BY <1>2 DEF IInv, TitleOnScreen, Quiet
<1> QED  BY <1>1, <1>3, <1>4 DEF IInv

\* Every call that creates no window and moves none keeps IInv.
LEMMA CallsRight ==
  ASSUME IInv, NEW id \in wm.open, NEW on \in BOOLEAN,
         \/ Close(id) \/ Focus(id) \/ ToFront(id) \/ Minimize(id) \/ Restore(id)
         \/ Cycle \/ EnableDrag(on) \/ AutoDegrade(on)
  PROVE  IInv'
<1>1. WmInv(wm) /\ wm \in WmValues /\ rect = Forget(rect, wm.open)
  BY DEF IInv, WmInv, WmTypeOK, TypeOK, Forget
<1>2. CASE Close(id)
  BY <1>1, <1>2, CloseRight, OpenShrinks, QuietCall DEF Close
<1>3. ASSUME WmInv(wm'), wm'.open = wm.open, UNCHANGED rect, Quiet
      PROVE  IInv'
  BY <1>1, <1>3, QuietCall
<1>4. CASE Focus(id)
  BY <1>1, <1>3, <1>4, FocusRight, OpenKept DEF Focus
<1>5. CASE ToFront(id)
  BY <1>1, <1>3, <1>5, FrontRight, OpenKept DEF ToFront
<1>6. CASE Minimize(id)
  BY <1>1, <1>3, <1>6, MinimizeRight, OpenKept DEF Minimize
<1>7. CASE Restore(id)
  BY <1>1, <1>3, <1>7, RestoreRight, OpenKept DEF Restore
<1>8. CASE Cycle
  BY <1>1, <1>3, <1>8, CycleRight, OpenKept DEF Cycle
<1>9. CASE EnableDrag(on)
  BY <1>1, <1>3, <1>9, SetDragRight, OpenKept DEF EnableDrag
<1>10. CASE AutoDegrade(on)
  BY <1>1, <1>3, <1>10, SetDragRight, OpenKept DEF AutoDegrade
<1> QED  BY <1>2, <1>4, <1>5, <1>6, <1>7, <1>8, <1>9, <1>10

\* wm_create_window keeps IInv, also when it fails.
LEMMA CreateStep ==
  ASSUME IInv, NEW spec \in Specs, Create(spec)
  PROVE  IInv'
<1>1. WmInv(wm) /\ wm \in WmValues /\ IsFiniteSet(wm.open) /\ screen \in Screens
  BY DEF IInv, WmInv, WmTypeOK, TypeOK
<1>2. spec.fixed \in BOOLEAN /\ spec.modal \in BOOLEAN
  BY WindowManagerAssumption
<1>3. CASE ScreenTooSmall(screen)
  <2>1. WmInv(wm') /\ wm'.open = wm.open /\ rect' = Forget(rect, wm'.open)
    BY <1>1, <1>3, CreateFailsRight DEF Create, IInv, TypeOK, Forget
  <2> QED  BY <2>1, QuietCall DEF Create
<1>4. CASE ~ScreenTooSmall(screen)
  <2> DEFINE placed == InitialRect(spec, screen, Cardinality(wm.open))
  <2>1. WmInv(wm') /\ wm'.open = wm.open \cup {wm.next}
    BY <1>1, <1>2, <1>4, CreateRight DEF Create
  <2>2. rect' = [i \in wm'.open |-> IF i = wm.next THEN placed ELSE rect[i]]
    BY <1>4, <2>1 DEF Create
  <2>3. IsFiniteSet(wm'.open) /\ Cardinality(wm.open) \in Nat
    <3>1. IsFiniteSet(wm.open \cup {wm.next})
      BY <1>1, FS_AddElement
    <3>2. Cardinality(wm.open) \in Nat
      BY <1>1, FS_CardinalityType
    <3> QED  BY <2>1, <3>1, <3>2
  <2>4. placed \in Rectangles /\ OnScreen(placed, screen)
    BY <1>1, <2>3, InitialRight
  <2> HIDE DEF placed
  <2>5. UNCHANGED <<grab, screen>> /\ delivered' = NoWindow
    BY DEF Create, Quiet
  <2>6. /\ rect' \in [wm'.open -> Rectangles]
        /\ \A i \in wm'.open : OnScreen(rect'[i], screen)
    BY <2>1, <2>2, <2>4 DEF IInv, TypeOK, TitleOnScreen, OnScreen
  <2>7. TypeOK'
    BY <2>1, <2>5, <2>6 DEF TypeOK, IInv, WmInv
  <2>8. TitleOnScreen'
    BY <2>5, <2>6 DEF TitleOnScreen, OnScreen
  <2> QED  BY <2>1, <2>3, <2>7, <2>8 DEF IInv
<1> QED  BY <1>3, <1>4

(***************************************************************************)
(* One rectangle is replaced by another one on the screen.                 *)
(***************************************************************************)
LEMMA ArrowsRight ==
  ASSUME IInv, NEW d \in Arrows, MoveActive(d) \/ ResizeActive(d)
  PROVE  IInv'
<1> DEFINE moved   == MoveBy(rect[wm.active], d.y, d.x, screen)
           resized == ResizeBy(rect[wm.active], d.y, d.x, screen)
<1>1. /\ wm.active \in wm.open /\ rect[wm.active] \in Rectangles
      /\ OnScreen(rect[wm.active], screen)
      /\ screen \in [rows : Nat \ {0}, cols : Nat \ {0}]
  BY WindowManagerAssumption
     DEF IInv, TypeOK, TitleOnScreen, OnScreen, MoveActive, ResizeActive, Focusable, Visible
<1>2. d.y \in Int /\ d.x \in Int
  BY DEF Arrows
<1>3. moved \in Rectangles /\ OnScreen(moved, screen)
  <2>1. rect[wm.active].y + d.y \in Int /\ rect[wm.active].x + d.x \in Int
    BY <1>1, <1>2 DEF Rectangles
  <2> QED  BY <1>1, <2>1, MoveRight DEF MoveBy
<1>4. resized \in Rectangles /\ OnScreen(resized, screen)
  BY <1>1, <1>2, ResizeRight
<1>5. PICK r \in Rectangles : OnScreen(r, screen) /\ rect' = [rect EXCEPT ![wm.active] = r]
  BY <1>3, <1>4 DEF MoveActive, ResizeActive
<1>6. UNCHANGED <<wm, grab, screen>> /\ delivered' = NoWindow
  BY DEF MoveActive, ResizeActive, Quiet
<1>7. TypeOK'
  BY <1>5, <1>6 DEF IInv, TypeOK
<1>8. TitleOnScreen'
  BY <1>1, <1>5, <1>6 DEF IInv, TypeOK, TitleOnScreen, OnScreen
<1> QED  BY <1>6, <1>7, <1>8 DEF IInv

\* A new terminal size keeps IInv: every window is clamped to it.
LEMMA ResizeStep ==
  ASSUME IInv, NEW s \in Screens, TerminalResize(s)
  PROVE  IInv'
<1>1. WmInv(wm) /\ HalfInv(wm) /\ wm \in WmValues
  BY InvParts DEF IInv, WmInv, WmTypeOK
<1>2. WmInv(wm')
  BY <1>1, CleanupRight DEF TerminalResize
<1>3. wm'.open = wm.open
  <2>1. wm.closing = {}
    BY <1>1 DEF WmInv, WmTypeOK
  <2> QED  BY <1>1, <2>1, OpenShrinks DEF TerminalResize
<1>4. \A i \in wm.open : Clamp(rect[i], s) \in Rectangles /\ OnScreen(Clamp(rect[i], s), s)
  BY WindowManagerAssumption, ClampRight DEF IInv, TypeOK
<1>5. /\ rect' = [i \in wm.open |-> Clamp(rect[i], s)]
      /\ screen' = s /\ delivered' = NoWindow /\ UNCHANGED grab
  BY DEF TerminalResize
<1>6. TypeOK'
  BY <1>2, <1>3, <1>4, <1>5 DEF IInv, TypeOK, WmInv
<1>7. TitleOnScreen'
  BY <1>3, <1>4, <1>5 DEF TitleOnScreen, OnScreen
<1> QED  BY <1>2, <1>3, <1>6, <1>7 DEF IInv

(***************************************************************************)
(* Input: the callback may ask for its window to be closed.                *)
(***************************************************************************)
LEMMA CallbackRight ==
  ASSUME NEW w, WmInv(w), NEW id, NEW v \in Callback(w, id)
  PROVE  WmInv(CleanupClosed(v)) /\ CleanupClosed(v).open \subseteq w.open
<1>1. HalfInv(w) /\ w \in WmValues
  BY InvParts DEF WmInv, WmTypeOK
<1>2. v = w \/ v = RequestClose(w, id)
  BY DEF Callback
<1> QED  BY <1>1, <1>2, CleanupRight, CloseRight, OpenShrinks

\* Input is only ever aimed at visible windows.
LEMMA TargetsVisible ==
  ASSUME WmInv(wm), NEW p
  PROVE  /\ HitAt(p) \in Visible(wm) \cup {NoWindow}
         /\ TopmostModal(wm) \in Visible(wm) \cup {NoWindow}
         /\ KeyTarget(wm) \in Visible(wm) \cup {NoWindow}
         /\ Visible(wm) \subseteq wm.open /\ wm.open \subseteq Nat
<1>1. /\ StackOK(wm) /\ Visible(wm) \subseteq wm.open /\ wm.open \subseteq Nat
  BY DEF WmInv, WmTypeOK, WmValues, Visible
<1>2. HitAt(p) \in Visible(wm) \cup {NoWindow}
  <2> DEFINE under == {i \in Visible(wm) : Contains(rect[i], p)}
  <2>1. under \subseteq Visible(wm) /\ under \subseteq wm.open
    BY <1>1
  <2>2. HitAt(p) = Topmost(wm, under)
    BY DEF HitAt
  <2> HIDE DEF under
  <2> QED  BY <1>1, <2>1, <2>2, TopmostIn
<1>3. TopmostModal(wm) \in Visible(wm) \cup {NoWindow}
  <2> DEFINE modals == Visible(wm) \cap wm.modal
  <2>1. modals \subseteq Visible(wm) /\ modals \subseteq wm.open
    BY <1>1
  <2>2. TopmostModal(wm) = Topmost(wm, modals)
    BY DEF TopmostModal
  <2> HIDE DEF modals
  <2> QED  BY <1>1, <2>1, <2>2, TopmostIn
<1> QED  BY <1>1, <1>2, <1>3 DEF KeyTarget

\* A key, whatever its callback asks for, keeps IInv.
LEMMA KeyStep ==
  ASSUME IInv, Key
  PROVE  IInv'
<1>1. WmInv(wm) /\ wm \in WmValues
  BY DEF IInv, WmInv, WmTypeOK
<1>2. WmInv(wm') /\ wm'.open \subseteq wm.open
  BY <1>1, CallbackRight DEF Key
<1>3. delivered' \in Nat \cup {NoWindow}
  BY <1>1, TargetsVisible DEF Key
<1>4. IsFiniteSet(wm'.open)
  BY <1>2, FS_Subset DEF IInv
<1>5. rect' \in [wm'.open -> Rectangles] /\ \A i \in wm'.open : rect'[i] = rect[i]
  BY <1>2 DEF Key, Forget, IInv, TypeOK
<1>6. TypeOK' /\ TitleOnScreen'
  BY <1>2, <1>3, <1>5 DEF Key, IInv, TypeOK, TitleOnScreen, WmInv
<1> QED  BY <1>2, <1>4, <1>6 DEF IInv

\* A mouse event, with the press, drag and release it may be, keeps IInv.
LEMMA MouseStep ==
  ASSUME IInv, NEW m \in MouseEvents, NEW p \in Points, Mouse(m, p)
  PROVE  IInv'
<1> DEFINE hit     == HitAt(p)
           onTitle == hit # NoWindow /\ OnTitle(rect[hit], p)
           blocked == TopmostModal(wm) # NoWindow
           pressed == PressFocus(wm, m, hit)
           held    == StartDrag(pressed, m, hit, onTitle)
           starts  == StartsDrag(pressed, m, hit, onTitle)
           taken   == [y |-> p.y - rect[hit].y, x |-> p.x - rect[hit].x]
           grab1   == IF ~blocked /\ starts THEN taken ELSE grab
           place   == MoveTo(rect[held.dragWin], p.y - grab1.y, p.x - grab1.x, screen)
           rect1   == IF ~blocked /\ Follows(held, m)
                        THEN [rect EXCEPT ![held.dragWin] = place]
                        ELSE rect
           target  == MouseTarget(wm, hit)
           after   == Pointer(wm, m, hit, onTitle)
<1>1. /\ \E v \in Callback(after, target) : wm' = CleanupClosed(v)
      /\ rect' = Forget(rect1, wm'.open) /\ grab' = grab1
      /\ delivered' = target /\ UNCHANGED screen
  BY DEF Mouse
<1>2. /\ WmInv(wm) /\ wm \in WmValues /\ rect \in [wm.open -> Rectangles]
      /\ grab \in [y : Int, x : Int] /\ p \in [y : Int, x : Int]
      /\ screen \in [rows : Nat \ {0}, cols : Nat \ {0}]
      /\ \A i \in wm.open : OnScreen(rect[i], screen)
  BY WindowManagerAssumption
     DEF IInv, WmInv, WmTypeOK, TypeOK, TitleOnScreen, OnScreen
<1>3. /\ hit \in Visible(wm) \cup {NoWindow} /\ target \in Visible(wm) \cup {NoWindow}
      /\ Visible(wm) \subseteq wm.open /\ wm.open \subseteq Nat
  BY <1>2, TargetsVisible DEF MouseTarget
<1>4. /\ WmInv(pressed) /\ pressed.open = wm.open
      /\ hit \in Visible(wm) => hit \in Visible(pressed)
  BY <1>2, PressFocusRight
<1> HIDE DEF hit, onTitle, pressed
<1>5. WmInv(held) /\ held.open = wm.open
  <2>1. starts => hit \in Visible(pressed)
    BY <1>3, <1>4 DEF StartsDrag
  <2>2. pressed \in WmValues
    BY <1>4 DEF WmInv, WmTypeOK
  <2> QED  BY <1>4, <2>1, <2>2, StartDragRight, OpenKept
<1> HIDE DEF held
<1>6. WmInv(after) /\ after.open = wm.open
  <2> DEFINE noted == NoteMotion(held, m)
  <2>1. held \in WmValues
    BY <1>5 DEF WmInv, WmTypeOK
  <2>2. WmInv(noted) /\ noted.open = wm.open
    BY <1>5, <2>1, NoteMotionRight, OpenKept
  <2>3. noted \in WmValues
    BY <2>2 DEF WmInv, WmTypeOK
  <2>4. WmInv(EndDrag(noted, m)) /\ EndDrag(noted, m).open = wm.open
    BY <2>2, <2>3, EndDragRight, OpenKept
  <2>5. after = wm \/ after = EndDrag(noted, m)
    BY DEF Pointer, held, pressed
  <2> QED  BY <1>2, <2>4, <2>5
<1> HIDE DEF after
<1>7. WmInv(wm') /\ wm'.open \subseteq wm.open
  BY <1>1, <1>6, CallbackRight
<1>8. grab1 \in [y : Int, x : Int]
  <2>1. CASE ~blocked /\ starts
    <3>1. hit \in wm.open
      BY <1>3, <2>1 DEF StartsDrag
    <3>2. rect[hit] \in Rectangles
      BY <1>2, <3>1
    <3> QED  BY <1>2, <2>1, <3>2 DEF Rectangles
  <2>2. CASE ~(~blocked /\ starts)
    BY <1>2, <2>2
  <2> QED  BY <2>1, <2>2
<1> HIDE DEF grab1
<1>9. rect1 \in [wm.open -> Rectangles] /\ \A i \in wm.open : OnScreen(rect1[i], screen)
  <2>1. CASE ~blocked /\ Follows(held, m)
    <3>1. held.dragWin \in wm.open
      BY <1>5, <2>1 DEF Follows, Visible
    <3>2. p.y - grab1.y \in Int /\ p.x - grab1.x \in Int
      BY <1>2, <1>8
    <3>3. place \in Rectangles /\ OnScreen(place, screen)
      BY <1>2, <3>1, <3>2, MoveRight
    <3> HIDE DEF place
    <3> QED  BY <1>2, <2>1, <3>1, <3>3 DEF OnScreen
  <2>2. CASE ~(~blocked /\ Follows(held, m))
    BY <1>2, <2>2
  <2> QED  BY <2>1, <2>2
<1> HIDE DEF rect1, target
<1>10. /\ rect' \in [wm'.open -> Rectangles]
       /\ \A i \in wm'.open : OnScreen(rect'[i], screen')
  BY <1>1, <1>7, <1>9 DEF Forget
<1>11. TypeOK' /\ TitleOnScreen'
  BY <1>1, <1>3, <1>7, <1>8, <1>10
     DEF TypeOK, TitleOnScreen, OnScreen, WmInv, IInv
<1>12. IsFiniteSet(wm'.open)
  BY <1>7, FS_Subset DEF IInv
<1> QED  BY <1>7, <1>11, <1>12 DEF IInv

-----------------------------------------------------------------------------
(***************************************************************************)
(* The invariant is inductive, and everything it consists of is therefore  *)
(* true of every state the manager can reach.                              *)
(***************************************************************************)
THEOREM Inductive == Spec => []IInv
<1>1. Init => IInv
  BY InitRight
<1>2. IInv /\ [Next]_vars => IInv'
  <2> SUFFICES ASSUME IInv, [Next]_vars PROVE IInv'
    OBVIOUS
  <2>1. CASE UNCHANGED vars
    BY <2>1 DEF vars, IInv, TypeOK, TitleOnScreen
  <2>2. CASE \E spec \in Specs : Create(spec)
    BY <2>2, CreateStep
  <2>3. CASE \E id \in wm.open :
               Close(id) \/ Focus(id) \/ ToFront(id) \/ Minimize(id) \/ Restore(id)
    BY <2>3, CallsRight
  <2>4. CASE Cycle
    <3>1. WmInv(wm) /\ wm \in WmValues /\ rect = Forget(rect, wm.open)
      BY DEF IInv, WmInv, WmTypeOK, TypeOK, Forget
    <3> QED  BY <2>4, <3>1, CycleRight, OpenKept, QuietCall DEF Cycle
  <2>5. CASE \E on \in BOOLEAN : EnableDrag(on) \/ AutoDegrade(on)
    <3>1. WmInv(wm) /\ wm \in WmValues /\ rect = Forget(rect, wm.open)
      BY DEF IInv, WmInv, WmTypeOK, TypeOK, Forget
    <3>2. PICK on \in BOOLEAN : EnableDrag(on) \/ AutoDegrade(on)
      BY <2>5
    <3>3. CASE EnableDrag(on)
      BY <3>1, <3>3, SetDragRight, OpenKept, QuietCall DEF EnableDrag
    <3>4. CASE AutoDegrade(on)
      BY <3>1, <3>4, SetDragRight, OpenKept, QuietCall DEF AutoDegrade
    <3> QED  BY <3>2, <3>3, <3>4
  <2>6. CASE \E d \in Arrows : MoveActive(d) \/ ResizeActive(d)
    BY <2>6, ArrowsRight
  <2>7. CASE \E m \in MouseEvents, p \in Points : Mouse(m, p)
    BY <2>7, MouseStep
  <2>8. CASE Key
    BY <2>8, KeyStep
  <2>9. CASE \E s \in Screens : TerminalResize(s)
    BY <2>9, ResizeStep
  <2> QED
    BY <2>1, <2>2, <2>3, <2>4, <2>5, <2>6, <2>7, <2>8, <2>9 DEF Next
<1> QED  BY <1>1, <1>2, PTL DEF Spec

(***************************************************************************)
(* Types and sizes: ids of freed windows are kept nowhere, and exactly the *)
(* open windows have rectangles, none smaller than the minimum.            *)
(***************************************************************************)
THEOREM TypeCorrect == Spec => []TypeOK
<1>1. IInv => TypeOK
  BY DEF IInv
<1> QED  BY <1>1, Inductive, PTL

(***************************************************************************)
(* Focus is on a visible window or nowhere, and the frame drawn as active  *)
(* is that window's.                                                       *)
(***************************************************************************)
THEOREM FocusCorrect == Spec => []FocusInv
<1>1. IInv => FocusInv
  BY DEF IInv, WmInv, FocusInv
<1> QED  BY <1>1, Inductive, PTL

(***************************************************************************)
(* A drag is of a visible, movable window, while dragging is enabled.      *)
(***************************************************************************)
THEOREM DragCorrect == Spec => []DragInv
<1>1. IInv => DragInv
  BY DEF IInv, WmInv, DragInv
<1> QED  BY <1>1, Inductive, PTL

(***************************************************************************)
(* Dragging degrades exactly at the limit, and only when asked to.         *)
(***************************************************************************)
THEOREM DegradeCorrect == Spec => []DegradeInv
<1>1. IInv => DegradeInv
  BY DEF IInv, WmInv, DegradeInv
<1> QED  BY <1>1, Inductive, PTL

(***************************************************************************)
(* The stacking order is a strict total order with a top and a bottom.     *)
(***************************************************************************)
THEOREM StackCorrect == Spec => []StackInv
<1>1. IInv => StackInv
  BY DEF IInv, WmInv, StackInv
<1> QED  BY <1>1, Inductive, PTL

(***************************************************************************)
(* Every open window can be taken hold of: its title is above the taskbar  *)
(* and as much of it as fits is on the screen.                             *)
(***************************************************************************)
THEOREM TitlesOnScreen == Spec => []TitleOnScreen
<1>1. IInv => TitleOnScreen
  BY DEF IInv
<1> QED  BY <1>1, Inductive, PTL

(***************************************************************************)
(* No key and no mouse event reaches a window that was hidden when it      *)
(* arrived.                                                                *)
(***************************************************************************)
THEOREM InputCorrect == Spec => InputReachesVisible
<1> DEFINE Delivery == delivered' # NoWindow => delivered' \in Visible(wm)
<1>1. IInv /\ [Next]_vars => [Delivery]_vars
  <2> SUFFICES ASSUME IInv, Next PROVE Delivery
    OBVIOUS
  <2>1. CASE \E m \in MouseEvents, p \in Points : Mouse(m, p)
    BY <2>1, TargetsVisible DEF IInv, Mouse, MouseTarget
  <2>2. CASE Key
    BY <2>2, TargetsVisible DEF IInv, Key
  <2>3. CASE \E s \in Screens : TerminalResize(s)
    BY <2>3 DEF TerminalResize
  <2>4. CASE \E spec \in Specs : Create(spec)
    BY <2>4 DEF Create, Quiet
  <2>5. CASE \E id \in wm.open :
               Close(id) \/ Focus(id) \/ ToFront(id) \/ Minimize(id) \/ Restore(id)
    BY <2>5 DEF Close, Focus, ToFront, Minimize, Restore, Quiet
  <2>6. CASE Cycle
    BY <2>6 DEF Cycle, Quiet
  <2>7. CASE \E on \in BOOLEAN : EnableDrag(on) \/ AutoDegrade(on)
    BY <2>7 DEF EnableDrag, AutoDegrade, Quiet
  <2>8. CASE \E d \in Arrows : MoveActive(d) \/ ResizeActive(d)
    BY <2>8 DEF MoveActive, ResizeActive, Quiet
  <2> QED
    BY <2>1, <2>2, <2>3, <2>4, <2>5, <2>6, <2>7, <2>8 DEF Next
<1> QED  BY <1>1, Inductive, PTL DEF Spec, InputReachesVisible

-----------------------------------------------------------------------------
\* The statement of OthersKeepOrder about one step.
OneMoves ==
  \E raised \in wm'.open \cup {NoWindow} :
    LET others == (wm.open \cap wm'.open) \ {raised}
    IN  wm.above \cap (others \X others) = wm'.above \cap (others \X others)

\* It is enough to name the window that is raised, open or not.
LEMMA OnlyRaised ==
  ASSUME NEW id,
         \A S \in SUBSET (wm.open \cap wm'.open) : id \notin S => SameOrder(wm, wm', S)
  PROVE  OneMoves
<1>1. ASSUME NEW raised \in wm'.open \cup {NoWindow},
             id \notin (wm.open \cap wm'.open) \ {raised}
      PROVE  OneMoves
  <2> DEFINE others == (wm.open \cap wm'.open) \ {raised}
  <2>1. SameOrder(wm, wm', others)
    BY <1>1
  <2> HIDE DEF others
  <2>2. wm.above \cap (others \X others) = wm'.above \cap (others \X others)
    BY <2>1 DEF SameOrder
  <2> QED  BY <2>2 DEF OneMoves, others
<1>2. CASE id \in wm'.open
  BY <1>1, <1>2
<1>3. CASE id \notin wm'.open
  BY <1>1, <1>3
<1> QED  BY <1>2, <1>3

\* A step that changes the order of no two windows that stay.
LEMMA NoneRaised ==
  ASSUME \A S \in SUBSET (wm.open \cap wm'.open) : SameOrder(wm, wm', S)
  PROVE  OneMoves
BY OnlyRaised

\* A callback's wish to close its window frees that window at most.
LEMMA CallbackOrder ==
  ASSUME NEW w \in WmValues, NEW id, NEW v \in Callback(w, id),
         NEW S, S \subseteq CleanupClosed(v).open
  PROVE  SameOrder(w, CleanupClosed(v), S)
<1>1. v = w \/ v = RequestClose(w, id)
  BY DEF Callback
<1>2. v \in WmValues /\ v.above = w.above
  BY <1>1, OrderKept DEF RequestClose, WmValues
<1>3. SameOrder(v, CleanupClosed(v), S)
  BY <1>2, OrderCleaned
<1> QED  BY <1>2, <1>3 DEF SameOrder

(***************************************************************************)
(* A step changes the place of at most one window in the stack.            *)
(***************************************************************************)
THEOREM OrderCorrect == Spec => OthersKeepOrder
<1>1. IInv /\ [Next]_vars => [OneMoves]_<<wm>>
  <2> SUFFICES ASSUME IInv, Next PROVE OneMoves \/ UNCHANGED wm
    BY DEF vars
  <2> DEFINE Stay == SUBSET (wm.open \cap wm'.open)
  <2>1. WmInv(wm) /\ wm \in WmValues /\ wm.open \subseteq Nat
    BY DEF IInv, WmInv, WmTypeOK, WmValues
  <2>2. CASE \E spec \in Specs : Create(spec)
    <3>1. PICK spec \in Specs : Create(spec)
      BY <2>2
    <3>2. \A S \in Stay : wm'.above \cap (S \X S) = wm.above \cap (S \X S)
      <4>1. CASE ScreenTooSmall(screen)
        BY <2>1, <3>1, <4>1 DEF Create, CreateFails, WmValues
      <4>2. CASE ~ScreenTooSmall(screen)
        <5>1. wm' = CreateWindow(wm, spec.fixed, spec.modal)
          BY <3>1, <4>2 DEF Create
        <5>2. wm'.above = wm.above \cup ({wm.next} \X wm.open)
          BY <2>1, <5>1 DEF CreateWindow, UpdateActiveFlags, WmValues
        <5>3. wm.next \notin wm.open
          BY <2>1 DEF WmInv, WmTypeOK, WmValues
        <5> QED  BY <5>2, <5>3
      <4> QED  BY <4>1, <4>2
    <3> QED  BY <3>2, NoneRaised DEF SameOrder
  <2>3. CASE \E id \in wm.open :
               Close(id) \/ Focus(id) \/ ToFront(id) \/ Minimize(id) \/ Restore(id)
    <3>1. PICK id \in wm.open :
               Close(id) \/ Focus(id) \/ ToFront(id) \/ Minimize(id) \/ Restore(id)
      BY <2>3
    <3>2. CASE Close(id)
      <4>1. wm' = CleanupClosed(RequestClose(wm, id)) /\ RequestClose(wm, id) \in Callback(wm, id)
        BY <3>2 DEF Close, CloseWindow, Callback
      <4>2. \A S \in Stay : SameOrder(wm, wm', S)
        BY <2>1, <4>1, CallbackOrder
      <4> QED  BY <4>2, NoneRaised
    <3>3. CASE Focus(id) \/ Minimize(id) \/ Restore(id)
      <4>1. wm'.above = wm.above
        BY <2>1, <3>3, OrderKept DEF Focus, Minimize, Restore
      <4> QED  BY <4>1, NoneRaised DEF SameOrder
    <3>4. CASE ToFront(id)
      <4>1. \A S \in Stay : id \notin S => SameOrder(wm, wm', S)
        BY <2>1, <3>4, OrderRaised DEF ToFront
      <4> QED  BY <4>1, OnlyRaised
    <3> QED  BY <3>1, <3>2, <3>3, <3>4
  <2>4. CASE Cycle
    <3>1. \A S \in Stay : CycleTarget(wm) \notin S => SameOrder(wm, wm', S)
      BY <2>1, <2>4, CycleOrder DEF Cycle
    <3> QED  BY <3>1, OnlyRaised
  <2>5. CASE \E on \in BOOLEAN : EnableDrag(on) \/ AutoDegrade(on)
    <3>1. wm'.above = wm.above
      BY <2>1, <2>5, OrderKept DEF EnableDrag, AutoDegrade
    <3> QED  BY <3>1, NoneRaised DEF SameOrder
  <2>6. CASE \E d \in Arrows : MoveActive(d) \/ ResizeActive(d)
    BY <2>6 DEF MoveActive, ResizeActive
  <2>7. CASE \E m \in MouseEvents, p \in Points : Mouse(m, p)
    <3>1. PICK m \in MouseEvents, p \in Points : Mouse(m, p)
      BY <2>7
    <3> DEFINE hit     == HitAt(p)
               onTitle == hit # NoWindow /\ OnTitle(rect[hit], p)
               after   == Pointer(wm, m, hit, onTitle)
               target  == MouseTarget(wm, hit)
    <3>2. PICK v \in Callback(after, target) : wm' = CleanupClosed(v)
      BY <3>1 DEF Mouse
    <3>3. hit \in Visible(wm) \cup {NoWindow}
      BY <2>1, TargetsVisible
    <3> HIDE DEF hit, onTitle
    <3>4. after \in WmValues /\ after.open = wm.open
      BY <2>1, <3>3, PointerRight DEF WmInv, WmTypeOK
    <3>5. \A S \in Stay : hit \notin S => SameOrder(wm, after, S)
      BY <2>1, <3>3, PointerOrder
    <3> HIDE DEF after, target
    <3>6. \A S \in Stay : SameOrder(after, wm', S)
      BY <3>2, <3>4, CallbackOrder
    <3>7. \A S \in Stay : hit \notin S => SameOrder(wm, wm', S)
      BY <3>5, <3>6 DEF SameOrder
    <3> QED  BY <3>7, OnlyRaised
  <2>8. CASE Key
    <3>1. PICK v \in Callback(wm, KeyTarget(wm)) : wm' = CleanupClosed(v)
      BY <2>8 DEF Key
    <3>2. \A S \in Stay : SameOrder(wm, wm', S)
      BY <2>1, <3>1, CallbackOrder
    <3> QED  BY <3>2, NoneRaised
  <2>9. CASE \E s \in Screens : TerminalResize(s)
    <3>1. wm' = CleanupClosed(wm)
      BY <2>9 DEF TerminalResize
    <3>2. \A S \in Stay : SameOrder(wm, wm', S)
      BY <2>1, <3>1, OrderCleaned
    <3> QED  BY <3>2, NoneRaised
  <2> QED
    BY <2>2, <2>3, <2>4, <2>5, <2>6, <2>7, <2>8, <2>9 DEF Next
<1> QED  BY <1>1, Inductive, PTL DEF Spec, OthersKeepOrder, OneMoves

(***************************************************************************)
(* What is left of the manager when only one window may be closed: the     *)
(* focus and the drag of any other stay where they are.                    *)
(***************************************************************************)
LEMMA CallbackLocal ==
  ASSUME NEW w, WmInv(w), NEW id, NEW v \in Callback(w, id)
  PROVE  LET u == CleanupClosed(v)
         IN  /\ w.open \ {id} \subseteq u.open
             /\ w.active \in w.open \ {id} => u.active = w.active
             /\ w.dragWin \in w.open \ {id} => u.dragWin = w.dragWin
<1>1. w \in WmValues /\ w.closing = {} /\ w.active \in Visible(w) \cup {NoWindow}
  BY DEF WmInv, WmTypeOK, FocusOK
<1>2. v = w \/ v = RequestClose(w, id)
  BY DEF Callback
<1>3. /\ v \in WmValues /\ v.open = w.open /\ v.closing \subseteq {id}
      /\ v.active = w.active /\ v.dragWin = w.dragWin
      /\ v.minimized = w.minimized
  BY <1>1, <1>2 DEF RequestClose, WmValues
<1> DEFINE kept  == v.open \ v.closing
           above == v.above \cap (kept \X kept)
           fixed == v.fixed \cap kept
           modal == v.modal \cap kept
           mini  == v.minimized \cap kept
           focus == IF v.active \in v.closing THEN NoWindow ELSE v.active
           drags == IF v.dragWin \in v.closing THEN FALSE ELSE v.dragging
           held  == IF v.dragWin \in v.closing THEN NoWindow ELSE v.dragWin
           c     == [v EXCEPT !.open = kept, !.above = above, !.fixed = fixed,
                              !.modal = modal, !.minimized = mini, !.closing = {},
                              !.active = focus, !.dragging = drags,
                              !.dragWin = held]
<1>4. CleanupClosed(v) = SelectTopmostVisible(c)
  BY DEF CleanupClosed
<1>5. /\ c.open = kept /\ c.closing = {} /\ c.minimized = mini
      /\ c.active = focus /\ c.dragWin = held
  <2> HIDE DEF kept, above, fixed, modal, mini, focus, drags, held
  <2> QED  BY <1>3 DEF WmValues
<1>6. c \in WmValues
  <2>1. /\ kept \in SUBSET Nat /\ above \in SUBSET (Nat \X Nat)
        /\ fixed \in SUBSET Nat /\ modal \in SUBSET Nat /\ mini \in SUBSET Nat
        /\ focus \in Nat \cup {NoWindow} /\ held \in Nat \cup {NoWindow}
        /\ drags \in BOOLEAN
    BY <1>3 DEF WmValues
  <2> HIDE DEF kept, above, fixed, modal, mini, focus, drags, held
  <2> QED  BY <1>3, <2>1 DEF WmValues
<1> HIDE DEF c
<1>7. /\ SelectTopmostVisible(c).dragWin = c.dragWin
      /\ SelectTopmostVisible(c).open = c.open
      /\ c.active \in Visible(c) => SelectTopmostVisible(c).active = c.active
  <2>1. CASE c.active \in Visible(c)
    BY <1>6, <2>1 DEF SelectTopmostVisible, UpdateActiveFlags, WmValues
  <2>2. CASE c.active \notin Visible(c)
    <3> DEFINE top == Topmost(c, Visible(c))
               t   == [c EXCEPT !.active = top]
    <3>1. UpdateActiveFlags(t).dragWin = c.dragWin /\ UpdateActiveFlags(t).open = c.open
      <4> HIDE DEF top
      <4> QED  BY <1>6 DEF UpdateActiveFlags, WmValues
    <3>2. SelectTopmostVisible(c) = UpdateActiveFlags(t)
      BY <2>2 DEF SelectTopmostVisible
    <3> HIDE DEF t
    <3> QED  BY <2>2, <3>1, <3>2
  <2> QED  BY <2>1, <2>2
<1>8. w.active \in w.open \ {id} => c.active = w.active /\ c.active \in Visible(c)
  <2> SUFFICES ASSUME w.active \in w.open \ {id}
               PROVE  c.active = w.active /\ c.active \in Visible(c)
    OBVIOUS
  <2>1. w.active \notin w.minimized
    BY <1>1 DEF Visible, NoWindow, WmValues
  <2>2. w.active \in kept /\ focus = w.active
    BY <1>3
  <2>3. w.active \notin mini
    BY <2>1, <1>3
  <2> HIDE DEF kept, above, fixed, modal, mini, focus, drags, held
  <2> QED  BY <1>5, <2>2, <2>3 DEF Visible
<1>9. w.dragWin \in w.open \ {id} => c.dragWin = w.dragWin
  BY <1>3, <1>5
<1>10. w.open \ {id} \subseteq c.open
  BY <1>3, <1>5
<1> QED  BY <1>4, <1>7, <1>8, <1>9, <1>10

(***************************************************************************)
(* A visible modal window takes all input, and shields the others from it. *)
(***************************************************************************)
THEOREM ModalCorrect == Spec => ModalBlocks
<1> DEFINE Blocks ==
      LET modal  == TopmostModal(wm)
          others == wm.open \ {modal}
      IN  modal # NoWindow /\ delivered' # NoWindow =>
            /\ delivered' = modal
            /\ others \subseteq wm'.open
            /\ \A i \in others : rect'[i] = rect[i]
            /\ wm.above \cap (others \X others) = wm'.above \cap (others \X others)
            /\ wm.active \in others => wm'.active = wm.active
            /\ wm.dragWin \in others => wm'.dragWin = wm.dragWin
<1>1. IInv /\ [Next]_vars => [Blocks]_vars
  <2> SUFFICES ASSUME IInv, Next PROVE Blocks
    OBVIOUS
  <2> DEFINE modal  == TopmostModal(wm)
             others == wm.open \ {modal}
  <2> SUFFICES ASSUME modal # NoWindow, delivered' # NoWindow
               PROVE  /\ delivered' = modal
                      /\ others \subseteq wm'.open
                      /\ \A i \in others : rect'[i] = rect[i]
                      /\ wm.above \cap (others \X others) = wm'.above \cap (others \X others)
                      /\ wm.active \in others => wm'.active = wm.active
                      /\ wm.dragWin \in others => wm'.dragWin = wm.dragWin
    OBVIOUS
  <2>1. WmInv(wm) /\ wm \in WmValues
    BY DEF IInv, WmInv, WmTypeOK
  <2>2. modal \in Visible(wm)
    BY <2>1, TargetsVisible
  <2>3. (\E m \in MouseEvents, p \in Points : Mouse(m, p)) \/ Key
    BY DEF Next, Create, Close, Focus, ToFront, Minimize, Restore, Cycle, EnableDrag,
           AutoDegrade, MoveActive, ResizeActive, TerminalResize, Quiet
  <2>4. /\ delivered' = modal
        /\ \E v \in Callback(wm, modal) : wm' = CleanupClosed(v)
        /\ rect' = Forget(rect, wm'.open)
    <3>1. CASE \E m \in MouseEvents, p \in Points : Mouse(m, p)
      BY <3>1 DEF Mouse, MouseTarget, Pointer
    <3>2. CASE Key
      BY <2>2, <3>2 DEF Key, KeyTarget
    <3> QED  BY <2>3, <3>1, <3>2
  <2> HIDE DEF modal
  <2>5. PICK v \in Callback(wm, modal) : wm' = CleanupClosed(v)
    BY <2>4
  <2>6. /\ others \subseteq wm'.open
        /\ wm.active \in others => wm'.active = wm.active
        /\ wm.dragWin \in others => wm'.dragWin = wm.dragWin
    BY <2>1, <2>5, CallbackLocal
  <2>7. SameOrder(wm, wm', others)
    BY <2>1, <2>5, <2>6, CallbackOrder
  <2>8. \A i \in others : rect'[i] = rect[i]
    BY <2>4, <2>6 DEF Forget
  <2> QED  BY <2>4, <2>6, <2>7, <2>8 DEF SameOrder
<1> QED  BY <1>1, Inductive, PTL DEF Spec, ModalBlocks

-----------------------------------------------------------------------------
(***************************************************************************)
(* Maximized windows.                                                      *)
(***************************************************************************)
Sizes == {s \in [rows : Nat \ {0}, cols : Nat \ {0}] :
            s.rows < GrowDelta /\ s.cols < GrowDelta}

LEMMA ScreenSizes == Screens \subseteq Sizes
BY WindowManagerAssumption, TerminalAssumption DEF Sizes

(***************************************************************************)
(* Resizing and moving, with their results written out.                    *)
(***************************************************************************)
\* A rectangle is its four fields, whichever of them are changed.
LEMMA Moved ==
  ASSUME NEW r \in Rectangles, NEW y \in Int, NEW x \in Int
  PROVE  /\ [r EXCEPT !.y = y, !.x = x] \in Rectangles
         /\ [r EXCEPT !.y = y, !.x = x] = [y |-> y, x |-> x, h |-> r.h, w |-> r.w]
<1> DEFINE u == [r EXCEPT !.y = y, !.x = x]
<1>1. u \in Rectangles
  BY DEF Rectangles
<1>2. u.y = y /\ u.x = x /\ u.h = r.h /\ u.w = r.w
  BY DEF Rectangles
<1> HIDE DEF u
<1>3. u = [y |-> u.y, x |-> u.x, h |-> u.h, w |-> u.w]
  BY <1>1 DEF Rectangles
<1> QED  BY <1>1, <1>2, <1>3 DEF u

LEMMA Resized ==
  ASSUME NEW r \in Rectangles, NEW h \in Nat, NEW w \in Nat,
         h >= MinHeight, w >= MinWidth
  PROVE  [r EXCEPT !.h = h, !.w = w] = [y |-> r.y, x |-> r.x, h |-> h, w |-> w]
<1> DEFINE u == [r EXCEPT !.h = h, !.w = w]
<1>1. u \in Rectangles
  BY DEF Rectangles
<1>2. u.y = r.y /\ u.x = r.x /\ u.h = h /\ u.w = w
  BY DEF Rectangles
<1> HIDE DEF u
<1>3. u = [y |-> u.y, x |-> u.x, h |-> u.h, w |-> u.w]
  BY <1>1 DEF Rectangles
<1> QED  BY <1>2, <1>3 DEF u

\* A rectangle that is clamped where it fits stays there.
LEMMA ClampFits ==
  ASSUME NEW r \in Rectangles, NEW s \in Sizes, r.y >= 0, r.x >= 0,
         r.y + r.h < s.rows, r.x + r.w <= s.cols
  PROVE  Clamp(r, s) = r
<1>1. /\ Within(r.y, 0, Greatest(0, s.rows - r.h - 1)) = r.y
      /\ Within(r.x, 0, Greatest(0, s.cols - r.w)) = r.x
  BY DEF Within, Least, Greatest, Rectangles, Sizes
<1>2. [r EXCEPT !.y = r.y, !.x = r.x] = r
  BY DEF Rectangles
<1> QED  BY <1>1, <1>2 DEF Clamp

\* The corner is a place for any rectangle.
LEMMA ClampCorner ==
  ASSUME NEW r \in Rectangles, NEW s \in Sizes, r.y = 0, r.x = 0
  PROVE  Clamp(r, s) = r
<1>1. /\ Within(r.y, 0, Greatest(0, s.rows - r.h - 1)) = r.y
      /\ Within(r.x, 0, Greatest(0, s.cols - r.w)) = r.x
  BY DEF Within, Least, Greatest, Rectangles, Sizes
<1>2. [r EXCEPT !.y = r.y, !.x = r.x] = r
  BY DEF Rectangles
<1> QED  BY <1>1, <1>2 DEF Clamp

\* A window at the corner takes any size it may have.
LEMMA ResizeCorner ==
  ASSUME NEW r \in Rectangles, NEW s \in Sizes, r.y = 0, r.x = 0,
         NEW h \in Nat, NEW w \in Nat,
         h >= MinHeight, w >= MinWidthKeys, h <= s.rows, w <= s.cols,
         NEW dh \in Int, NEW dw \in Int,
         h = r.h + dh \/ (h = s.rows /\ r.h + dh >= h),
         w = r.w + dw \/ (w = s.cols /\ r.w + dw >= w)
  PROVE  ResizeBy(r, dh, dw, s) = [y |-> 0, x |-> 0, h |-> h, w |-> w]
<1> DEFINE h0 == Greatest(r.h + dh, MinHeight)
           w0 == Greatest(r.w + dw, MinWidthKeys)
           h1 == IF s.rows > 0 /\ r.y + h0 > s.rows THEN s.rows - r.y ELSE h0
           w1 == IF s.cols > 0 /\ r.x + w0 > s.cols THEN s.cols - r.x ELSE w0
<1>1. h1 = h /\ w1 = w
  BY DEF Rectangles, Sizes, Greatest, MinHeight, MinWidthKeys
<1>2. ResizeBy(r, dh, dw, s) =
        IF h1 < MinHeight \/ w1 < MinWidthKeys THEN r ELSE [r EXCEPT !.h = h1, !.w = w1]
  BY DEF ResizeBy
<1> HIDE DEF h1, w1
<1>3. [r EXCEPT !.h = h, !.w = w] = [y |-> 0, x |-> 0, h |-> h, w |-> w]
  <2>1. w >= MinWidth
    BY DEF MinWidthKeys, MinWidth
  <2>2. [r EXCEPT !.h = h, !.w = w] = [y |-> r.y, x |-> r.x, h |-> h, w |-> w]
    BY <2>1, Resized
  <2> QED  BY <2>2
<1> QED  BY <1>1, <1>2, <1>3 DEF MinHeight, MinWidthKeys

(***************************************************************************)
(* A maximized window is at the corner and on the screen; it fills the     *)
(* work area if there is one.                                              *)
(***************************************************************************)
LEMMA FillRight ==
  ASSUME NEW r \in Rectangles, NEW s \in Sizes
  PROVE  /\ Fill(r, s) \in Rectangles /\ OnScreen(Fill(r, s), s)
         /\ Fill(r, s).y = 0 /\ Fill(r, s).x = 0
         /\ Roomy(s) => Fill(r, s) = WorkArea(s)
<1> DEFINE c     == [r EXCEPT !.y = 0, !.x = 0]
           grown == ResizeBy(c, GrowDelta, GrowDelta, s)
<1>1. c \in Rectangles /\ c.y = 0 /\ c.x = 0 /\ c.h = r.h /\ c.w = r.w
  <2>1. 0 \in Int
    OBVIOUS
  <2>2. c \in Rectangles /\ c = [y |-> 0, x |-> 0, h |-> r.h, w |-> r.w]
    BY <2>1, Moved
  <2> HIDE DEF c
  <2> QED  BY <2>2
<1>2. MoveBy(r, -r.y, -r.x, s) = c
  <2>1. r.y + (-r.y) = 0 /\ r.x + (-r.x) = 0
    BY DEF Rectangles
  <2> QED  BY <1>1, <2>1, ClampCorner DEF MoveBy, MoveTo
<1> HIDE DEF c
<1>3. Fill(r, s) = IF grown.h > MinHeight THEN ResizeBy(grown, -1, 0, s) ELSE grown
  BY <1>2 DEF Fill
<1>4. s \in [rows : Nat \ {0}, cols : Nat \ {0}] /\ GrowDelta \in Int
  BY DEF Sizes, GrowDelta
<1>5. OnScreen(c, s)
  BY <1>1, <1>4 DEF OnScreen, Greatest
<1>6. grown \in Rectangles /\ OnScreen(grown, s)
  BY <1>1, <1>4, <1>5, ResizeRight
<1>7. \A q \in Rectangles, dh \in Int, dw \in Int :
         LET u == ResizeBy(q, dh, dw, s) IN u.y = q.y /\ u.x = q.x
  BY DEF ResizeBy, Rectangles
<1>8. Roomy(s) => grown = [y |-> 0, x |-> 0, h |-> s.rows, w |-> s.cols]
  <2> SUFFICES ASSUME Roomy(s) PROVE grown = [y |-> 0, x |-> 0, h |-> s.rows, w |-> s.cols]
    OBVIOUS
  <2>1. /\ s.rows \in Nat /\ s.cols \in Nat
        /\ s.rows >= MinHeight /\ s.cols >= MinWidthKeys
        /\ c.h + GrowDelta >= s.rows /\ c.w + GrowDelta >= s.cols
    BY <1>1 DEF Roomy, Sizes, Rectangles, MinHeight, GrowDelta
  <2> QED  BY <1>1, <1>4, <2>1, ResizeCorner
<1>9. /\ grown.y = 0 /\ grown.x = 0
  BY <1>1, <1>4, <1>7
<1> HIDE DEF grown
<1>10. Fill(r, s) \in Rectangles /\ OnScreen(Fill(r, s), s)
  BY <1>3, <1>4, <1>6, ResizeRight
<1>11. Fill(r, s).y = 0 /\ Fill(r, s).x = 0
  BY <1>3, <1>6, <1>7, <1>9
<1>12. Roomy(s) => Fill(r, s) = WorkArea(s)
  <2> SUFFICES ASSUME Roomy(s) PROVE Fill(r, s) = WorkArea(s)
    OBVIOUS
  <2>1. grown.h = s.rows /\ grown.w = s.cols
    BY <1>1, <1>8 DEF Rectangles
  <2>2. /\ s.rows - 1 \in Nat /\ s.cols \in Nat
        /\ s.rows - 1 >= MinHeight /\ s.cols >= MinWidthKeys
        /\ s.rows - 1 = grown.h + (-1) /\ s.cols = grown.w + 0
        /\ s.rows - 1 <= s.rows
    BY <2>1 DEF Roomy, Sizes, MinHeight, MinWidthKeys
  <2>3. ResizeBy(grown, -1, 0, s) = WorkArea(s)
    BY <1>6, <1>9, <2>2, ResizeCorner DEF WorkArea
  <2>4. grown.h > MinHeight
    BY <2>1 DEF Roomy
  <2> QED  BY <1>3, <2>3, <2>4
<1> QED  BY <1>10, <1>11, <1>12

(***************************************************************************)
(* A window given back is on the screen; from the corner it gets its very  *)
(* rectangle if that fits.                                                 *)
(***************************************************************************)
LEMMA GiveBackRight ==
  ASSUME NEW r \in Rectangles, NEW s \in Sizes, OnScreen(r, s),
         NEW back \in Rectangles
  PROVE  /\ GiveBack(r, back, s) \in Rectangles /\ OnScreen(GiveBack(r, back, s), s)
         /\ r.y = 0 /\ r.x = 0 /\ back.y >= 0 /\ back.x >= 0 /\ Fits(back, s)
              => GiveBack(r, back, s) = back
<1> DEFINE u == ResizeBy(r, back.h - r.h, back.w - r.w, s)
<1>1. /\ s \in [rows : Nat \ {0}, cols : Nat \ {0}]
      /\ back.h - r.h \in Int /\ back.w - r.w \in Int
      /\ back.y - r.y \in Int /\ back.x - r.x \in Int
  BY DEF Sizes, Rectangles
<1>2. u \in Rectangles
  BY <1>1, ResizeRight
<1>3. GiveBack(r, back, s) = MoveTo(u, u.y + (back.y - r.y), u.x + (back.x - r.x), s)
  BY DEF GiveBack, MoveBy
<1>4. GiveBack(r, back, s) \in Rectangles /\ OnScreen(GiveBack(r, back, s), s)
  <2> HIDE DEF u
  <2>1. u.y + (back.y - r.y) \in Int /\ u.x + (back.x - r.x) \in Int
    BY <1>1, <1>2 DEF Rectangles
  <2> QED  BY <1>1, <1>2, <1>3, <2>1, MoveRight
<1>5. ASSUME r.y = 0, r.x = 0, back.y >= 0, back.x >= 0, Fits(back, s)
      PROVE  GiveBack(r, back, s) = back
  <2>1. /\ back.h \in Nat /\ back.w \in Nat
        /\ back.h >= MinHeight /\ back.w >= MinWidthKeys
        /\ back.h <= s.rows /\ back.w <= s.cols
        /\ back.h = r.h + (back.h - r.h) /\ back.w = r.w + (back.w - r.w)
    BY <1>5 DEF Fits, Rectangles, Sizes
  <2>2. u = [y |-> 0, x |-> 0, h |-> back.h, w |-> back.w]
    BY <1>1, <1>5, <2>1, ResizeCorner
  <2> HIDE DEF u
  <2>3. u.y = 0 /\ u.x = 0 /\ u.h = back.h /\ u.w = back.w
    BY <1>5, <2>2 DEF Rectangles
  <2>4. u.y + (back.y - r.y) = back.y /\ u.x + (back.x - r.x) = back.x
    BY <1>5, <2>3 DEF Rectangles
  <2>5. [u EXCEPT !.y = back.y, !.x = back.x] = back
    BY <1>2, <2>3 DEF Rectangles
  <2>6. Clamp(back, s) = back
    BY <1>5, ClampFits DEF Fits
  <2> QED  BY <1>3, <2>4, <2>5, <2>6 DEF MoveTo
<1> QED  BY <1>4, <1>5

\* A window that fills the work area cannot be moved.
LEMMA FillerStays ==
  ASSUME NEW s \in Sizes, Roomy(s), NEW y \in Int, NEW x \in Int
  PROVE  /\ WorkArea(s) \in Rectangles
         /\ MoveTo(WorkArea(s), y, x, s) = WorkArea(s)
         /\ Clamp(WorkArea(s), s) = WorkArea(s)
<1> DEFINE a == WorkArea(s)
<1>1. a \in Rectangles /\ a.y = 0 /\ a.x = 0 /\ a.h = s.rows - 1 /\ a.w = s.cols
  BY DEF WorkArea, Rectangles, Roomy, Sizes, MinHeight, MinWidthKeys, MinWidth
<1>2. /\ Greatest(0, s.rows - a.h - 1) = 0 /\ Greatest(0, s.cols - a.w) = 0
  BY <1>1 DEF Greatest, Sizes
<1>3. \A v \in Int : Within(v, 0, 0) = 0
  BY DEF Within, Least, Greatest
<1> HIDE DEF a
<1> DEFINE m == [a EXCEPT !.y = y, !.x = x]
<1>4. m \in Rectangles /\ m.y = y /\ m.x = x /\ m.h = a.h /\ m.w = a.w
  BY <1>1 DEF Rectangles
<1>5. [m EXCEPT !.y = 0, !.x = 0] = a
  BY <1>1 DEF Rectangles
<1> HIDE DEF m
<1>6. Clamp(m, s) = a
  BY <1>2, <1>3, <1>4, <1>5 DEF Clamp
<1>7. Clamp(a, s) = a
  BY <1>1, ClampCorner
<1> QED  BY <1>1, <1>6, <1>7 DEF MoveTo, m, a

-----------------------------------------------------------------------------
(***************************************************************************)
(* Only creating a window makes one fixed.                                 *)
(***************************************************************************)
LEMMA FixedKept ==
  ASSUME NEW w \in WmValues, NEW id, NEW m, NEW onTitle
  PROVE  /\ FocusWindow(w, id).fixed = w.fixed
         /\ BringToFront(w, id).fixed = w.fixed
         /\ CycleFocus(w).fixed = w.fixed
         /\ MinimizeWindow(w, id).fixed = w.fixed
         /\ RestoreWindow(w, id).fixed = w.fixed
         /\ StartDrag(w, m, id, onTitle).fixed = w.fixed
         /\ NoteMotion(w, m).fixed = w.fixed
         /\ EndDrag(w, m).fixed = w.fixed
         /\ RequestClose(w, id).fixed = w.fixed
         /\ CleanupClosed(w).fixed \subseteq w.fixed
         /\ CleanupClosed(RequestClose(w, id)).fixed \subseteq w.fixed
         /\ CloseWindow(w, id).fixed \subseteq w.fixed
<1>1. FocusWindow(w, id).fixed = w.fixed
  BY DEF FocusWindow, UpdateActiveFlags, WmValues
<1>2. BringToFront(w, id).fixed = w.fixed
  BY DEF BringToFront, WmValues
<1>3. CycleFocus(w).fixed = w.fixed
  <2> DEFINE t == CycleTarget(w)
             v == [w EXCEPT !.active = t]
             u == BringToFront(v, t)
  <2>1. v.fixed = w.fixed /\ u.fixed = v.fixed /\ UpdateActiveFlags(u).fixed = u.fixed
    <3> HIDE DEF t
    <3> QED  BY DEF BringToFront, UpdateActiveFlags, WmValues
  <2>2. CycleFocus(w) = w \/ CycleFocus(w) = UpdateActiveFlags(u)
    BY DEF CycleFocus
  <2> QED  BY <2>1, <2>2
<1>4. MinimizeWindow(w, id).fixed = w.fixed
  BY DEF MinimizeWindow, SelectTopmostVisible, UpdateActiveFlags, WmValues
<1>5. RestoreWindow(w, id).fixed = w.fixed
  BY DEF RestoreWindow, UpdateActiveFlags, WmValues
<1>6. StartDrag(w, m, id, onTitle).fixed = w.fixed /\ NoteMotion(w, m).fixed = w.fixed
  BY DEF StartDrag, NoteMotion, WmValues
<1>7. EndDrag(w, m).fixed = w.fixed
  BY DEF EndDrag, CountSession, WmValues
<1>8. RequestClose(w, id).fixed = w.fixed
  BY DEF RequestClose, WmValues
<1>9. /\ CleanupClosed(w).fixed \subseteq w.fixed
      /\ CleanupClosed(RequestClose(w, id)).fixed \subseteq w.fixed
  BY DEF CleanupClosed, RequestClose, SelectTopmostVisible, UpdateActiveFlags, WmValues
<1> QED  BY <1>1, <1>2, <1>3, <1>4, <1>5, <1>6, <1>7, <1>8, <1>9 DEF CloseWindow

(***************************************************************************)
(* The invariant: slots are of open windows that are not fixed, and hold   *)
(* the rectangle a maximized window had; any other window has its own.     *)
(***************************************************************************)
SlotValues == [maximized : BOOLEAN, restore : Rectangles]

SlotInv ==
  /\ DOMAIN slots \subseteq wm.open \ wm.fixed
  /\ \A i \in DOMAIN slots : slots[i] \in SlotValues
  /\ was \in [wm.open -> Rectangles]
  /\ \A i \in wm.open : was[i].y >= 0 /\ was[i].x >= 0
  /\ \A i \in wm.open : IF Maximized(i) THEN slots[i].restore = was[i] ELSE was[i] = rect[i]

MInv == IInv /\ SlotInv

(***************************************************************************)
(* A step is one of four kinds: it leaves the slots, and moves or fills at *)
(* most maximized windows; the active window is maximized, or given back;  *)
(* or the terminal has changed.                                            *)
(***************************************************************************)
SlotsStay ==
  /\ DOMAIN slots' = DOMAIN slots \cap wm'.open
  /\ \A i \in DOMAIN slots' : slots'[i] = slots[i]

Held ==
  /\ SlotsStay /\ screen' = screen
  /\ \A i \in wm.open \cap wm'.open : Maximized(i) =>
       \/ rect'[i] = rect[i]
       \/ \E y, x \in Int : rect'[i] = MoveTo(rect[i], y, x, screen)
       \/ rect'[i] = Fill(rect[i], screen)

Toggled == (MaximizeActive \/ UnmaximizeActive) /\ UNCHANGED <<wm, screen>>

Refitted ==
  /\ SlotsStay /\ screen' \in Screens
  /\ \A i \in wm.open \cap wm'.open :
       /\ rect'[i] \in {Clamp(rect[i], screen'), Fill(Clamp(rect[i], screen'), screen')}
       /\ Maximized(i) /\ i = wm'.active => rect'[i] = Fill(Clamp(rect[i], screen'), screen')

FixedStays == wm'.fixed \cap wm.open \subseteq wm.fixed

StepRight == IInv' /\ FixedStays /\ (Held \/ Toggled \/ Refitted)

\* Facts about the state before a step that every case needs.
LEMMA Before ==
  ASSUME MInv
  PROVE  /\ IInv /\ WmInv(wm) /\ wm \in WmValues /\ wm.closing = {}
         /\ wm.open \subseteq 1 .. wm.next - 1 /\ wm.open \subseteq Nat
         /\ rect \in [wm.open -> Rectangles]
         /\ \A i \in wm.open : OnScreen(rect[i], screen)
         /\ screen \in Screens /\ screen \in Sizes
         /\ grab \in [y : Int, x : Int]
         /\ NoWindow \notin wm.open
<1>1. IInv /\ WmInv(wm) /\ wm \in WmValues /\ wm.closing = {}
      /\ wm.open \subseteq 1 .. wm.next - 1 /\ wm.next \in Nat
  BY DEF MInv, IInv, WmInv, WmTypeOK, WmValues
<1>2. /\ rect \in [wm.open -> Rectangles] /\ grab \in [y : Int, x : Int]
      /\ screen \in Screens
      /\ \A i \in wm.open : OnScreen(rect[i], screen)
  BY <1>1 DEF IInv, TypeOK, TitleOnScreen, OnScreen
<1>3. wm.open \subseteq Nat /\ NoWindow \notin wm.open
  BY <1>1 DEF NoWindow
<1> QED  BY <1>1, <1>2, <1>3, ScreenSizes

\* A step that leaves the manager right and every window on the screen.
LEMMA PlacedRight ==
  ASSUME MInv, WmInv(wm'), wm'.open \subseteq wm.open, screen' \in Screens,
         rect' \in [wm'.open -> Rectangles],
         \A i \in wm'.open : OnScreen(rect'[i], screen'),
         grab' = grab, delivered' \in Nat \cup {NoWindow}
  PROVE  IInv'
<1>1. IsFiniteSet(wm'.open)
  BY FS_Subset DEF MInv, IInv
<1>2. TypeOK'
  BY DEF MInv, IInv, TypeOK, WmInv
<1>3. TitleOnScreen'
  BY DEF TitleOnScreen, OnScreen
<1> QED  BY <1>1, <1>2, <1>3 DEF IInv

-----------------------------------------------------------------------------
\* Creating a window leaves the others alone.
LEMMA CreateKeepsSlots ==
  ASSUME MInv, NEW spec \in Specs, Create(spec), UNCHANGED slots
  PROVE  StepRight
<1>1. IInv'
  BY Before, CreateStep
<1>2. wm.open \subseteq wm'.open /\ FixedStays
  <2>1. CASE ScreenTooSmall(screen)
    BY <2>1, Before, CreateFailsRight DEF Create, CreateFails, WmValues, FixedStays
  <2>2. CASE ~ScreenTooSmall(screen)
    <3>1. spec.fixed \in BOOLEAN /\ spec.modal \in BOOLEAN
      BY WindowManagerAssumption
    <3>2. wm' = CreateWindow(wm, spec.fixed, spec.modal)
      BY <2>2 DEF Create
    <3>3. wm'.open = wm.open \cup {wm.next}
      BY <3>1, <3>2, Before, CreateRight
    <3>4. wm'.fixed \subseteq wm.fixed \cup {wm.next}
      BY <3>1, <3>2, Before DEF CreateWindow, UpdateActiveFlags, WmValues
    <3>5. wm.next \notin wm.open
      BY Before DEF WmValues
    <3> QED  BY <3>3, <3>4, <3>5 DEF FixedStays
  <2> QED  BY <2>1, <2>2
<1>3. \A i \in wm.open : rect'[i] = rect[i]
  <2>1. wm.next \notin wm.open
    BY Before DEF WmValues
  <2> QED  BY <2>1, Before DEF Create
<1>4. SlotsStay /\ screen' = screen
  BY <1>2 DEF SlotsStay, MInv, SlotInv, Create, Quiet
<1> QED  BY <1>1, <1>2, <1>3, <1>4 DEF StepRight, Held

\* Functions of the manager that move nothing.
LEMMA CallsKeepSlots ==
  ASSUME MInv, NEW id \in wm.open,
         \/ Close(id) /\ OpenSlots
         \/ (ToFront(id) \/ Minimize(id) \/ Restore(id) \/ Cycle) /\ UNCHANGED slots
  PROVE  StepRight
<1>1. IInv'
  BY Before, CallsRight
<1>2. CASE Close(id) /\ OpenSlots
  <2>1. wm'.open \subseteq wm.open /\ FixedStays
    BY <1>2, Before, OpenShrinks, FixedKept DEF Close, FixedStays
  <2>2. /\ \A i \in wm'.open : rect'[i] = rect[i]
        /\ screen' = screen /\ SlotsStay
    BY <1>2 DEF Close, Forget, Quiet, OpenSlots, SlotsStay
  <2> QED  BY <1>1, <2>1, <2>2 DEF StepRight, Held
<1>3. CASE (ToFront(id) \/ Minimize(id) \/ Restore(id) \/ Cycle) /\ UNCHANGED slots
  <2>1. wm'.open = wm.open /\ FixedStays
    <3>1. PICK w \in {BringToFront(wm, id), MinimizeWindow(wm, id), RestoreWindow(wm, id),
                       CycleFocus(wm)} : wm' = w
      BY <1>3 DEF ToFront, Minimize, Restore, Cycle
    <3>2. w.open = wm.open
      BY Before, OpenKept
    <3>3. w.fixed = wm.fixed
      BY Before, FixedKept
    <3> QED  BY <3>1, <3>2, <3>3 DEF FixedStays
  <2>2. UNCHANGED <<rect, screen>>
    BY <1>3 DEF ToFront, Minimize, Restore, Cycle, Quiet
  <2>3. SlotsStay
    BY <1>3, <2>1 DEF SlotsStay, MInv, SlotInv
  <2> QED  BY <1>1, <2>1, <2>2, <2>3 DEF StepRight, Held
<1> QED  BY <1>2, <1>3

\* The arrow keys do not move a maximized window.
LEMMA ArrowsKeepSlots ==
  ASSUME MInv, NEW d \in Arrows, MoveNormal(d) \/ ResizeNormal(d)
  PROVE  StepRight
<1>1. IInv'
  BY Before, ArrowsRight DEF MoveNormal, ResizeNormal
<1>2. UNCHANGED <<wm, screen, slots>> /\ ~Maximized(wm.active)
  BY DEF MoveNormal, ResizeNormal, MoveActive, ResizeActive, Quiet
<1>3. \A i \in wm.open : Maximized(i) => rect'[i] = rect[i]
  BY <1>2, Before DEF MoveNormal, ResizeNormal, MoveActive, ResizeActive
<1>4. SlotsStay /\ FixedStays
  BY <1>2 DEF SlotsStay, FixedStays, MInv, SlotInv
<1> QED  BY <1>1, <1>2, <1>3, <1>4 DEF StepRight, Held

\* Focusing from the taskbar may fit a maximized window again.
LEMMA FocusKeepsSlots ==
  ASSUME MInv, NEW id \in wm.open, FocusFits(id)
  PROVE  StepRight
<1>1. /\ WmInv(wm') /\ wm'.open = wm.open /\ FixedStays
  BY Before, FocusRight, OpenKept, FixedKept DEF FocusFits, FixedStays
<1>2. /\ UNCHANGED <<slots, screen, grab>> /\ delivered' = NoWindow
  BY DEF FocusFits, Quiet
<1>3. Fill(rect[id], screen) \in Rectangles /\ OnScreen(Fill(rect[id], screen), screen)
  BY Before, FillRight
<1>4. rect' = rect \/ rect' = [rect EXCEPT ![id] = Fill(rect[id], screen)]
  BY DEF FocusFits, Refreshed
<1>5. /\ rect' \in [wm.open -> Rectangles]
      /\ \A i \in wm.open : /\ OnScreen(rect'[i], screen)
                            /\ rect'[i] = rect[i] \/ rect'[i] = Fill(rect[i], screen)
  BY <1>3, <1>4, Before
<1>6. IInv'
  BY <1>1, <1>2, <1>5, Before, PlacedRight
<1>7. SlotsStay
  BY <1>1, <1>2 DEF SlotsStay, MInv, SlotInv
<1> QED  BY <1>1, <1>2, <1>5, <1>6, <1>7 DEF StepRight, Held

\* F8 and a double click change the rectangle of the active window only.
LEMMA ToggleRight ==
  ASSUME MInv, Toggle
  PROVE  StepRight
<1>1. UNCHANGED <<wm, screen, grab>> /\ delivered' = NoWindow
  BY DEF Toggle, Quiet
<1>2. MaximizeActive \/ UnmaximizeActive
  BY DEF Toggle
<1>3. wm.active \in wm.open
  BY <1>2 DEF MaximizeActive, UnmaximizeActive, Obeys, Focusable, Visible
<1>4. PICK r \in Rectangles : /\ OnScreen(r, screen)
                              /\ rect' = [rect EXCEPT ![wm.active] = r]
  <2>1. CASE MaximizeActive
    <3>1. rect' = [rect EXCEPT ![wm.active] = Fill(rect[wm.active], screen)]
      BY <2>1 DEF MaximizeActive
    <3> QED  BY <1>3, <3>1, Before, FillRight
  <2>2. CASE UnmaximizeActive
    <3> DEFINE back == slots[wm.active].restore
    <3>1. rect' = [rect EXCEPT ![wm.active] = GiveBack(rect[wm.active], back, screen)]
      BY <2>2 DEF UnmaximizeActive
    <3>2. back \in Rectangles
      BY <2>2 DEF UnmaximizeActive, Maximized, MInv, SlotInv, SlotValues
    <3> HIDE DEF back
    <3> QED  BY <1>3, <3>1, <3>2, Before, GiveBackRight
  <2> QED  BY <1>2, <2>1, <2>2
<1>5. /\ rect' \in [wm.open -> Rectangles]
      /\ \A i \in wm.open : OnScreen(rect'[i], screen)
  BY <1>4, Before
<1>6. IInv'
  BY <1>1, <1>5, Before, PlacedRight
<1> QED  BY <1>1, <1>2, <1>6 DEF StepRight, FixedStays, Toggled

\* A key when nothing can be toggled: a maximized window is not touched.
LEMMA FailureKeepsSlots ==
  ASSUME MInv, ToggleFails
  PROVE  StepRight
<1>1. PICK w \in Callback(wm, KeyTarget(wm)) : wm' = CleanupClosed(w)
  BY DEF ToggleFails, PutBack
<1>2. WmInv(wm') /\ wm'.open \subseteq wm.open /\ FixedStays
  <2>1. WmInv(wm') /\ wm'.open \subseteq wm.open
    BY <1>1, Before, CallbackRight
  <2>2. w = wm \/ w = RequestClose(wm, KeyTarget(wm))
    BY <1>1 DEF Callback
  <2>3. wm'.fixed \subseteq wm.fixed
    <3>1. wm \in WmValues /\ wm.closing = {}
      BY Before
    <3>2. w \in WmValues /\ w.fixed = wm.fixed
      BY <2>2, <3>1, FixedKept DEF RequestClose, WmValues
    <3> QED  BY <1>1, <3>2, FixedKept
  <2> QED  BY <2>1, <2>3 DEF FixedStays
<1>3. delivered' \in Nat \cup {NoWindow} /\ UNCHANGED <<grab, screen>>
  BY Before, TargetsVisible DEF ToggleFails, PutBack
<1> DEFINE back == GiveBack(Fill(rect[wm.active], screen), rect[wm.active], screen)
<1>4. \A i \in wm'.open : rect'[i] = IF i = wm.active /\ Obeys THEN back ELSE rect[i]
  BY <1>2 DEF ToggleFails, PutBack, Forget
<1>5. wm.active \in wm.open => back \in Rectangles /\ OnScreen(back, screen)
  <2> SUFFICES ASSUME wm.active \in wm.open
               PROVE  back \in Rectangles /\ OnScreen(back, screen)
    OBVIOUS
  <2>1. rect[wm.active] \in Rectangles
    BY Before
  <2>2. /\ Fill(rect[wm.active], screen) \in Rectangles
        /\ OnScreen(Fill(rect[wm.active], screen), screen)
    BY <2>1, Before, FillRight
  <2> QED  BY <2>1, <2>2, Before, GiveBackRight
<1> HIDE DEF back
<1>6. rect' = [i \in wm'.open |-> rect'[i]]
  BY <1>2 DEF ToggleFails, PutBack, Forget
<1>7. \A i \in wm'.open : rect'[i] \in Rectangles /\ OnScreen(rect'[i], screen)
  BY <1>2, <1>4, <1>5, Before
<1>8. IInv'
  BY <1>2, <1>3, <1>6, <1>7, Before, PlacedRight
<1>9. \A i \in wm'.open : Maximized(i) => rect'[i] = rect[i]
  BY <1>4 DEF ToggleFails, PutBack, Toggles
<1>10. SlotsStay
  BY DEF SlotsStay, ToggleFails, OpenSlots
<1> QED  BY <1>2, <1>3, <1>8, <1>9, <1>10 DEF StepRight, Held

\* A new size clamps every window and fits the active one again.
LEMMA TerminalKeepsSlots ==
  ASSUME MInv, NEW s \in Screens, ResizeTerminal(s)
  PROVE  StepRight
<1>1. wm' = CleanupClosed(wm) /\ screen' = s /\ delivered' = NoWindow /\ UNCHANGED grab
  BY DEF ResizeTerminal
<1>2. WmInv(wm') /\ wm'.open = wm.open /\ FixedStays
  <2>1. WmInv(wm')
    BY <1>1, Before, CleanupRight, InvParts
  <2>2. wm'.open = wm.open
    <3>1. wm \in WmValues /\ wm.closing = {}
      BY Before
    <3>2. CleanupClosed(wm).open = wm.open \ wm.closing
      BY <3>1, OpenShrinks, Zenon
    <3> QED  BY <1>1, <3>1, <3>2
  <2>3. FixedStays
    BY <1>1, Before, FixedKept DEF FixedStays
  <2> QED  BY <2>1, <2>2, <2>3
<1>3. s \in Sizes /\ s \in [rows : Nat \ {0}, cols : Nat \ {0}]
  BY ScreenSizes, WindowManagerAssumption
<1> DEFINE clamped == [i \in wm.open |-> Clamp(rect[i], s)]
           id      == wm'.active
<1>4. /\ clamped \in [wm.open -> Rectangles]
      /\ \A i \in wm.open : OnScreen(clamped[i], s) /\ clamped[i] = Clamp(rect[i], s)
  BY <1>3, Before, ClampRight
<1>5. rect' = Refreshed(clamped, wm', id, s)
  BY DEF ResizeTerminal
<1>6. Maximized(id) => id \in wm.open /\ id \in Focusable(wm')
  <2> SUFFICES ASSUME Maximized(id) PROVE id \in wm.open /\ id \in Focusable(wm')
    OBVIOUS
  <2>1. id \in wm.open \ wm.fixed
    BY DEF Maximized, MInv, SlotInv
  <2>2. id \in Visible(wm')
    BY <1>2, <2>1, Before DEF WmInv, FocusOK
  <2> QED  BY <1>2, <2>1, <2>2 DEF FixedStays, Focusable
<1> HIDE DEF clamped
<1>7. rect' = IF Maximized(id) THEN [clamped EXCEPT ![id] = Fill(clamped[id], s)] ELSE clamped
  BY <1>5, <1>6 DEF Refreshed
<1> HIDE DEF id
<1>8. \A i \in wm.open : Fill(clamped[i], s) \in Rectangles /\ OnScreen(Fill(clamped[i], s), s)
  BY <1>3, <1>4, FillRight
<1>9. /\ rect' \in [wm.open -> Rectangles]
      /\ \A i \in wm.open :
           /\ OnScreen(rect'[i], s)
           /\ rect'[i] \in {clamped[i], Fill(clamped[i], s)}
           /\ Maximized(i) /\ i = id => rect'[i] = Fill(clamped[i], s)
  <2>1. CASE Maximized(id)
    <3>1. rect' = [clamped EXCEPT ![id] = Fill(clamped[id], s)]
      BY <1>7, <2>1
    <3> QED  BY <1>4, <1>6, <1>8, <2>1, <3>1
  <2>2. CASE ~Maximized(id)
    BY <1>4, <1>7, <2>2
  <2> QED  BY <2>1, <2>2
<1>10. IInv'
  BY <1>1, <1>2, <1>9, Before, PlacedRight
<1>11. SlotsStay
  BY DEF SlotsStay, ResizeTerminal, OpenSlots
<1> QED  BY <1>1, <1>2, <1>4, <1>9, <1>10, <1>11 DEF StepRight, Refitted, id

\* A mouse event may drag a window, wherever the callback's wish leads.
LEMMA MouseKeepsSlots ==
  ASSUME MInv, NEW m \in MouseEvents, NEW p \in Points, Mouse(m, p), OpenSlots
  PROVE  StepRight
<1>1. IInv'
  BY Before, MouseStep
<1> DEFINE hit     == HitAt(p)
           onTitle == hit # NoWindow /\ OnTitle(rect[hit], p)
           pressed == PressFocus(wm, m, hit)
           held    == StartDrag(pressed, m, hit, onTitle)
           noted   == NoteMotion(held, m)
           after   == Pointer(wm, m, hit, onTitle)
           target  == MouseTarget(wm, hit)
           place   == MoveTo(rect[held.dragWin], p.y - grab'.y, p.x - grab'.x, screen)
<1>2. /\ \E v \in Callback(after, target) : wm' = CleanupClosed(v)
      /\ \/ rect' = Forget(rect, wm'.open)
         \/ rect' = Forget([rect EXCEPT ![held.dragWin] = place], wm'.open)
      /\ UNCHANGED screen
  BY DEF Mouse
<1>3. hit \in Visible(wm) \cup {NoWindow}
  BY Before, TargetsVisible
<1>4. /\ WmInv(pressed) /\ pressed \in WmValues
      /\ pressed.open = wm.open /\ pressed.fixed = wm.fixed
      /\ hit \in Visible(wm) => hit \in Visible(pressed)
  <2> DEFINE f == FocusWindow(wm, hit)
  <2>1. WmInv(f) /\ f \in WmValues /\ f.fixed = wm.fixed
    <3>1. WmInv(wm) /\ wm \in WmValues
      BY Before
    <3>2. WmInv(f)
      BY <3>1, FocusRight
    <3>3. f.fixed = wm.fixed
      BY <3>1, FixedKept
    <3> HIDE DEF f
    <3> QED  BY <3>2, <3>3 DEF WmInv, WmTypeOK
  <2>2. BringToFront(f, hit).fixed = f.fixed
    BY <2>1, FixedKept
  <2>3. pressed.fixed = wm.fixed
    BY <2>1, <2>2 DEF PressFocus, Raise
  <2>4. /\ WmInv(pressed) /\ pressed.open = wm.open
        /\ hit \in Visible(wm) => hit \in Visible(pressed)
    BY Before, PressFocusRight
  <2> QED  BY <2>3, <2>4 DEF WmInv, WmTypeOK
<1> HIDE DEF hit, onTitle, pressed
<1>5. WmInv(held) /\ held \in WmValues /\ held.open = wm.open /\ held.fixed = wm.fixed
  <2>1. StartsDrag(pressed, m, hit, onTitle) => hit \in Visible(pressed)
    BY <1>3, <1>4 DEF StartsDrag
  <2> QED  BY <1>4, <2>1, StartDragRight, OpenKept, FixedKept DEF WmInv, WmTypeOK
<1> HIDE DEF held
<1>6. WmInv(noted) /\ noted \in WmValues /\ noted.open = wm.open /\ noted.fixed = wm.fixed
  BY <1>5, NoteMotionRight, OpenKept, FixedKept DEF WmInv, WmTypeOK
<1> HIDE DEF noted
<1>7. WmInv(after) /\ after \in WmValues /\ after.open = wm.open /\ after.fixed = wm.fixed
  <2>1. /\ WmInv(EndDrag(noted, m)) /\ EndDrag(noted, m).open = wm.open
        /\ EndDrag(noted, m).fixed = wm.fixed
    BY <1>6, EndDragRight, OpenKept, FixedKept
  <2>2. after = wm \/ after = EndDrag(noted, m)
    BY DEF Pointer, noted, held, pressed
  <2> QED  BY <2>1, <2>2, Before DEF WmInv, WmTypeOK
<1> HIDE DEF after
<1>8. wm'.open \subseteq wm.open /\ wm'.fixed \subseteq wm.fixed
  <2>1. PICK v \in Callback(after, target) : wm' = CleanupClosed(v)
    BY <1>2
  <2>2. CleanupClosed(v).open \subseteq after.open
    BY <1>7, <2>1, CallbackRight
  <2>3. v = after \/ v = RequestClose(after, target)
    BY <2>1 DEF Callback
  <2>4. CleanupClosed(v).fixed \subseteq after.fixed
    BY <1>7, <2>3, FixedKept
  <2> QED  BY <1>7, <2>1, <2>2, <2>4
<1>9. p.y - grab'.y \in Int /\ p.x - grab'.x \in Int
  <2>1. grab' \in [y : Int, x : Int] /\ p \in [y : Int, x : Int]
    BY <1>1, WindowManagerAssumption DEF IInv, TypeOK
  <2> QED  BY <2>1
<1>10. \A i \in wm'.open :
         \/ rect'[i] = rect[i]
         \/ \E y, x \in Int : rect'[i] = MoveTo(rect[i], y, x, screen)
  <2>1. CASE rect' = Forget(rect, wm'.open)
    BY <2>1 DEF Forget
  <2>2. CASE rect' = Forget([rect EXCEPT ![held.dragWin] = place], wm'.open)
    <3>1. \A i \in wm'.open : rect'[i] = IF i = held.dragWin THEN place ELSE rect[i]
      <4> HIDE DEF place
      <4> QED  BY <1>8, <2>2, Before DEF Forget
    <3> QED  BY <1>9, <3>1
  <2> QED  BY <1>2, <2>1, <2>2
<1>11. SlotsStay
  BY DEF SlotsStay, OpenSlots
<1> QED  BY <1>1, <1>2, <1>8, <1>10, <1>11 DEF StepRight, Held, FixedStays

LEMMA EveryStep ==
  ASSUME MInv, Step
  PROVE  StepRight
<1>1. CASE \E spec \in Specs : Create(spec) /\ UNCHANGED slots
  BY <1>1, CreateKeepsSlots
<1>2. CASE \E id \in wm.open : \/ Close(id) /\ OpenSlots
                               \/ FocusFits(id)
                               \/ (ToFront(id) \/ Minimize(id) \/ Restore(id)) /\ UNCHANGED slots
  BY <1>2, CallsKeepSlots, FocusKeepsSlots
<1>3. CASE Cycle /\ UNCHANGED slots
  <2>1. CASE wm.open # {}
    BY <1>3, <2>1, CallsKeepSlots
  <2>2. CASE wm.open = {}
    <3>1. wm' = wm
      BY <1>3, <2>2, FS_EmptySet DEF Cycle, CycleFocus
    <3>2. UNCHANGED <<rect, grab, screen, slots>> /\ delivered' = NoWindow
      BY <1>3 DEF Cycle, Quiet
    <3>3. IInv'
      BY <3>1, <3>2, Before, PlacedRight
    <3> QED  BY <3>1, <3>2, <3>3 DEF StepRight, Held, SlotsStay, FixedStays, MInv, SlotInv
  <2> QED  BY <2>1, <2>2
<1>4. CASE \E d \in Arrows : MoveNormal(d) \/ ResizeNormal(d)
  BY <1>4, ArrowsKeepSlots
<1>5. CASE \E m \in MouseEvents, p \in Points : MouseEvent(m, p)
  BY <1>5, ToggleRight, MouseKeepsSlots DEF MouseEvent
<1>6. CASE Toggle
  BY <1>6, ToggleRight
<1>7. CASE ToggleFails
  BY <1>7, FailureKeepsSlots
<1>8. CASE \E s \in Screens : ResizeTerminal(s)
  BY <1>8, TerminalKeepsSlots
<1> QED  BY <1>1, <1>2, <1>3, <1>4, <1>5, <1>6, <1>7, <1>8 DEF Step

-----------------------------------------------------------------------------
(***************************************************************************)
(* The slots after a step: they are of windows that are still open, and    *)
(* what they would give back is the rectangle from before.                 *)
(***************************************************************************)
LEMMA SlotsAfter ==
  ASSUME MInv, StepRight
  PROVE  /\ DOMAIN slots' \subseteq (wm.open \cap wm'.open) \ wm'.fixed
         /\ \A i \in DOMAIN slots' : /\ slots'[i] \in SlotValues
                                     /\ slots'[i].maximized => slots'[i].restore = was[i]
<1>1. CASE SlotsStay
  BY <1>1 DEF StepRight, SlotsStay, FixedStays, MInv, SlotInv, Maximized
<1>2. CASE MaximizeActive /\ UNCHANGED <<wm, screen>>
  <2>1. wm.active \in wm.open \ wm.fixed /\ ~Maximized(wm.active)
    BY <1>2 DEF MaximizeActive, Obeys, Focusable, Visible
  <2>2. was[wm.active] = rect[wm.active] /\ rect[wm.active] \in Rectangles
    BY <2>1, Before DEF MInv, SlotInv
  <2>3. \A i \in DOMAIN slots' :
          slots'[i] = IF i = wm.active THEN [maximized |-> TRUE, restore |-> rect[i]]
                                       ELSE slots[i]
    BY <1>2 DEF MaximizeActive
  <2>4. DOMAIN slots' = DOMAIN slots \cup {wm.active}
    BY <1>2 DEF MaximizeActive
  <2>5. [maximized |-> TRUE, restore |-> rect[wm.active]] \in SlotValues
    BY <2>2 DEF SlotValues
  <2>6. ASSUME NEW i \in DOMAIN slots'
        PROVE  slots'[i] \in SlotValues /\ (slots'[i].maximized => slots'[i].restore = was[i])
    <3>1. CASE i = wm.active
      <4> DEFINE v == [maximized |-> TRUE, restore |-> rect[wm.active]]
      <4>1. v.restore = was[wm.active] /\ v \in SlotValues
        BY <2>2, <2>5
      <4>2. slots'[i] = v
        BY <2>3, <3>1
      <4> HIDE DEF v
      <4> QED  BY <3>1, <4>1, <4>2
    <3>2. CASE i # wm.active
      BY <2>3, <2>4, <3>2 DEF MInv, SlotInv, Maximized
    <3> QED  BY <3>1, <3>2
  <2> QED  BY <1>2, <2>1, <2>4, <2>6 DEF MInv, SlotInv
<1>3. CASE UnmaximizeActive /\ UNCHANGED <<wm, screen>>
  <2>1. slots' = [slots EXCEPT ![wm.active].maximized = FALSE]
        /\ wm.active \in DOMAIN slots
    BY <1>3 DEF UnmaximizeActive, Maximized
  <2>2. DOMAIN slots' = DOMAIN slots
    BY <2>1
  <2>3. \A i \in DOMAIN slots : i # wm.active => slots'[i] = slots[i]
    BY <2>1
  <2>4. slots'[wm.active] = [slots[wm.active] EXCEPT !.maximized = FALSE]
    BY <2>1
  <2>5. slots'[wm.active] \in SlotValues /\ slots'[wm.active].maximized = FALSE
    BY <2>1, <2>4 DEF SlotValues, MInv, SlotInv
  <2>6. ASSUME NEW i \in DOMAIN slots'
        PROVE  slots'[i] \in SlotValues /\ (slots'[i].maximized => slots'[i].restore = was[i])
    <3>1. CASE i = wm.active
      BY <2>5, <3>1
    <3>2. CASE i # wm.active
      BY <2>2, <2>3, <3>2 DEF MInv, SlotInv, Maximized
    <3> QED  BY <3>1, <3>2
  <2> QED  BY <1>3, <2>2, <2>6 DEF MInv, SlotInv
<1> QED  BY <1>1, <1>2, <1>3 DEF StepRight, Held, Toggled, Refitted

LEMMA MNextKeeps ==
  ASSUME MInv, MNext
  PROVE  MInv' /\ StepRight
<1>1. StepRight
  BY EveryStep DEF MNext
<1>2. /\ DOMAIN slots' \subseteq (wm.open \cap wm'.open) \ wm'.fixed
      /\ \A i \in DOMAIN slots' : /\ slots'[i] \in SlotValues
                                  /\ slots'[i].maximized => slots'[i].restore = was[i]
  BY <1>1, SlotsAfter
<1>3. was' = [i \in wm'.open |-> IF Maximized(i)' THEN was[i] ELSE rect'[i]]
  BY DEF MNext
<1>4. IInv' /\ rect' \in [wm'.open -> Rectangles]
      /\ \A i \in wm'.open : rect'[i].y >= 0 /\ rect'[i].x >= 0
  BY <1>1 DEF StepRight, IInv, TypeOK, TitleOnScreen, OnScreen, Rectangles
<1>5. ASSUME NEW i \in wm'.open
      PROVE  /\ was'[i] \in Rectangles /\ was'[i].y >= 0 /\ was'[i].x >= 0
             /\ IF Maximized(i)' THEN slots'[i].restore = was'[i] ELSE was'[i] = rect'[i]
  <2>1. CASE Maximized(i)'
    <3>1. i \in wm.open /\ slots'[i].restore = was[i] /\ was'[i] = was[i]
      BY <1>2, <1>3, <2>1 DEF Maximized
    <3> QED  BY <2>1, <3>1 DEF MInv, SlotInv
  <2>2. CASE ~Maximized(i)'
    BY <1>3, <1>4, <2>2
  <2> QED  BY <2>1, <2>2
<1>6. was' \in [wm'.open -> Rectangles]
  BY <1>3, <1>5
<1>7. SlotInv'
  BY <1>2, <1>5, <1>6 DEF SlotInv
<1> QED  BY <1>1, <1>4, <1>7 DEF MInv

(***************************************************************************)
(* What is true of the manager stays true under the bridges, and every     *)
(* slot of a maximized window keeps the rectangle to give back.            *)
(***************************************************************************)
THEOREM MaximizeInductive == MSpec => []MInv
<1>1. MInit => MInv
  <2> SUFFICES ASSUME MInit PROVE MInv
    OBVIOUS
  <2>1. PICK t \in Terminals : wm = SetDragAutoDegrade(SetDragEnabled(WmInit, t.reliable), t.console)
    BY DEF MInit
  <2>2. t.reliable \in BOOLEAN /\ t.console \in BOOLEAN
    BY MaximizeAssumption
  <2>3. WmInv(WmInit) /\ WmInit.open = {}
    <3>1. WmInit \in WmValues /\ WmInit.open = {} /\ WmInit.above = {}
      BY DEF WmInit, WmValues, NoWindow, NoMotionLimit
    <3>2. WmTypeOK(WmInit)
      BY <3>1 DEF WmTypeOK, WmInit
    <3>3. StackOK(WmInit)
      BY <3>1 DEF StackOK
    <3>4. FocusOK(WmInit) /\ DragOK(WmInit) /\ DegradeOK(WmInit)
      BY DEF FocusOK, DragOK, DegradeOK, WmInit, Visible, NoMotionLimit, NoWindow
    <3> QED  BY <3>1, <3>2, <3>3, <3>4 DEF WmInv
  <2> DEFINE w == SetDragEnabled(WmInit, t.reliable)
  <2>9. \A v \in WmValues, on \in BOOLEAN :
          SetDragEnabled(v, on).open = v.open /\ SetDragAutoDegrade(v, on).open = v.open
    BY DEF SetDragEnabled, SetDragAutoDegrade, WmValues
  <2>4. WmInv(w) /\ w.open = {}
    BY <2>2, <2>3, <2>9, SetDragRight DEF WmInv, WmTypeOK
  <2> HIDE DEF w
  <2>5. WmInv(wm) /\ wm.open = {}
    <3>1. wm = SetDragAutoDegrade(w, t.console)
      BY <2>1 DEF w
    <3> QED
      BY <2>2, <2>4, <2>9, <3>1, SetDragRight DEF WmInv, WmTypeOK
  <2>6. IsFiniteSet(wm.open)
    BY <2>5, FS_EmptySet
  <2>7. TypeOK /\ TitleOnScreen
    BY <2>5 DEF MInit, TypeOK, TitleOnScreen, WmInv
  <2>8. SlotInv
    BY <2>5 DEF MInit, SlotInv, NoSlots
  <2> QED  BY <2>5, <2>6, <2>7, <2>8 DEF MInv, IInv
<1>2. MInv /\ [MNext]_mvars => MInv'
  <2> SUFFICES ASSUME MInv, [MNext]_mvars PROVE MInv'
    OBVIOUS
  <2>1. CASE MNext
    BY <2>1, MNextKeeps
  <2>2. CASE UNCHANGED mvars
    BY <2>2 DEF mvars, MInv, SlotInv, IInv, TypeOK, TitleOnScreen, Maximized
  <2> QED  BY <2>1, <2>2
<1> QED  BY <1>1, <1>2, PTL DEF MSpec

(***************************************************************************)
(* The same when windows are maximized, given back and fitted to a new     *)
(* terminal.                                                               *)
(***************************************************************************)
THEOREM MaximizedOnScreen == MSpec => []TitleOnScreen
<1>1. MInv => TitleOnScreen
  BY DEF MInv, IInv
<1> QED  BY <1>1, MaximizeInductive, PTL

(***************************************************************************)
(* A maximized window goes on to fill the work area.                       *)
(***************************************************************************)
THEOREM FillsCorrect == MSpec => MaximizedFills
<1> DEFINE Filling ==
      \A i \in wm.open \cap wm'.open :
        /\ Maximized(i)'
        /\ Roomy(screen')
        /\ IF screen' = screen THEN ~Maximized(i) \/ rect[i] = WorkArea(screen)
                               ELSE i = wm'.active
        => rect'[i] = WorkArea(screen')
<1>1. MInv /\ [MNext]_mvars => [Filling]_<<rect, slots, screen>>
  <2> SUFFICES ASSUME MInv, MNext PROVE Filling
    BY DEF mvars
  <2>1. StepRight
    BY MNextKeeps
  <2> SUFFICES ASSUME NEW i \in wm.open \cap wm'.open, Maximized(i)', Roomy(screen'),
                      IF screen' = screen THEN ~Maximized(i) \/ rect[i] = WorkArea(screen)
                                          ELSE i = wm'.active
               PROVE  rect'[i] = WorkArea(screen')
    OBVIOUS
  <2>2. rect[i] \in Rectangles /\ screen \in Sizes
    BY Before
  <2>3. CASE Held
    <3>1. Maximized(i) /\ screen' = screen /\ rect[i] = WorkArea(screen)
      BY <2>3 DEF Held, SlotsStay, Maximized
    <3>2. \/ rect'[i] = rect[i]
          \/ \E y, x \in Int : rect'[i] = MoveTo(rect[i], y, x, screen)
          \/ rect'[i] = Fill(rect[i], screen)
      BY <2>3, <3>1 DEF Held
    <3> QED  BY <2>2, <3>1, <3>2, FillerStays, FillRight
  <2>4. CASE Toggled
    <3>1. CASE i = wm.active
      <4>1. MaximizeActive /\ screen' = screen
        BY <2>4, <3>1 DEF Toggled, UnmaximizeActive, Maximized, MInv, SlotInv, SlotValues
      <4>2. rect'[i] = Fill(rect[i], screen)
        BY <3>1, <4>1, Before DEF MaximizeActive
      <4> QED  BY <2>2, <4>1, <4>2, FillRight
    <3>2. CASE i # wm.active
      <4>1. rect'[i] = rect[i] /\ screen' = screen
        BY <2>4, <3>2, Before DEF Toggled, MaximizeActive, UnmaximizeActive
      <4>2. Maximized(i)
        BY <2>4, <3>2 DEF Toggled, MaximizeActive, UnmaximizeActive, Maximized
      <4> QED  BY <4>1, <4>2
    <3> QED  BY <3>1, <3>2
  <2>5. CASE Refitted
    <3>1. Maximized(i) /\ screen' \in Sizes
      BY <2>5, ScreenSizes DEF Refitted, SlotsStay, Maximized
    <3>2. screen' \in [rows : Nat \ {0}, cols : Nat \ {0}]
      BY <3>1 DEF Sizes
    <3>3. Clamp(rect[i], screen') \in Rectangles
      BY <2>2, <3>2, ClampRight
    <3>4. Fill(Clamp(rect[i], screen'), screen') = WorkArea(screen')
      BY <3>1, <3>3, FillRight
    <3>5. CASE screen' = screen
      <4>1. Clamp(rect[i], screen') = WorkArea(screen')
        BY <2>2, <3>1, <3>5, FillerStays
      <4> QED  BY <2>5, <3>4, <4>1 DEF Refitted
    <3>6. CASE screen' # screen
      BY <2>5, <3>1, <3>4, <3>6 DEF Refitted
    <3> QED  BY <3>5, <3>6
  <2> QED  BY <2>1, <2>3, <2>4, <2>5 DEF StepRight
<1> QED  BY <1>1, MaximizeInductive, PTL DEF MSpec, MaximizedFills

(***************************************************************************)
(* A window at the corner is given back the rectangle it had.              *)
(***************************************************************************)
THEOREM RestoresCorrect == MSpec => RestoresExactly
<1> DEFINE Restoring ==
      \A i \in wm.open \cap wm'.open :
        Fits(was[i], screen) =>
          \/ rect'[i] = was[i]
          \/ IF Maximized(i) THEN Maximized(i)' \/ rect[i].y # 0 \/ rect[i].x # 0
                             ELSE ~ToggleFails
<1>1. MInv /\ [MNext]_mvars => [Restoring]_<<rect, slots>>
  <2> SUFFICES ASSUME MInv, MNext PROVE Restoring
    BY DEF mvars
  <2>1. StepRight
    BY MNextKeeps
  <2> SUFFICES ASSUME NEW i \in wm.open \cap wm'.open, Fits(was[i], screen)
               PROVE  \/ rect'[i] = was[i]
                      \/ IF Maximized(i) THEN Maximized(i)' \/ rect[i].y # 0 \/ rect[i].x # 0
                                         ELSE ~ToggleFails
    OBVIOUS
  <2>2. /\ rect[i] \in Rectangles /\ OnScreen(rect[i], screen) /\ screen \in Sizes
        /\ was[i] \in Rectangles /\ was[i].y >= 0 /\ was[i].x >= 0
    BY Before DEF MInv, SlotInv
  <2>3. CASE Maximized(i)
    <3> SUFFICES ASSUME ~Maximized(i)', rect[i].y = 0, rect[i].x = 0
                 PROVE  rect'[i] = was[i]
      BY <2>3
    <3>1. ~SlotsStay
      BY <2>3 DEF SlotsStay, Maximized
    <3>2. Toggled
      BY <2>1, <3>1 DEF StepRight, Held, Refitted
    <3>3. UnmaximizeActive /\ i = wm.active
      BY <2>3, <3>2 DEF Toggled, MaximizeActive, UnmaximizeActive, Maximized
    <3>4. rect'[i] = GiveBack(rect[i], slots[i].restore, screen)
      BY <3>3, Before DEF UnmaximizeActive
    <3>5. slots[i].restore = was[i]
      BY <2>3 DEF MInv, SlotInv
    <3> QED  BY <2>2, <3>4, <3>5, GiveBackRight
  <2>4. CASE ~Maximized(i) /\ ToggleFails
    <3>1. was[i] = rect[i]
      BY <2>4 DEF MInv, SlotInv
    <3>2. /\ Fill(rect[i], screen) \in Rectangles
          /\ OnScreen(Fill(rect[i], screen), screen)
          /\ Fill(rect[i], screen).y = 0 /\ Fill(rect[i], screen).x = 0
      BY <2>2, FillRight
    <3>3. GiveBack(Fill(rect[i], screen), rect[i], screen) = rect[i]
      BY <2>2, <3>1, <3>2, GiveBackRight
    <3>4. rect'[i] = rect[i]
      BY <2>4, <3>3 DEF ToggleFails, PutBack, Forget
    <3> QED  BY <3>1, <3>4
  <2> QED  BY <2>3, <2>4
<1> QED  BY <1>1, MaximizeInductive, PTL DEF MSpec, RestoresExactly

-----------------------------------------------------------------------------
(***************************************************************************)
(* What a step moves.                                                      *)
(***************************************************************************)
Holding ==
  \A i \in wm.open \cap wm'.open :
    rect'[i] # rect[i] =>
      \/ i \in {wm.active, wm'.active, wm.dragWin} \ wm.fixed
      \/ rect'[i] = Clamp(rect[i], screen')

\* The window that follows the pointer is not fixed, and was dragged before the
\* event or has the focus since the press.
LEMMA DraggedRight ==
  ASSUME NEW w, WmInv(w), NEW m, NEW hit, NEW onTitle, hit \in Visible(w) \cup {NoWindow}
  PROVE  LET pressed == PressFocus(w, m, hit)
             held    == StartDrag(pressed, m, hit, onTitle)
             v       == EndDrag(NoteMotion(held, m), m)
         IN  Follows(held, m) =>
               /\ held.dragWin \notin w.fixed
               /\ \/ held.dragWin = w.dragWin
                  \/ held.dragWin = v.active /\ held.dragWin \notin v.minimized
<1> DEFINE f       == FocusWindow(w, hit)
           pressed == PressFocus(w, m, hit)
           held    == StartDrag(pressed, m, hit, onTitle)
           noted   == NoteMotion(held, m)
           v       == EndDrag(noted, m)
<1> SUFFICES ASSUME Follows(held, m)
             PROVE  /\ held.dragWin \notin w.fixed
                    /\ \/ held.dragWin = w.dragWin
                       \/ held.dragWin = v.active /\ held.dragWin \notin v.minimized
  OBVIOUS
<1>1. w \in WmValues /\ w.closing = {} /\ WmInv(f) /\ f \in WmValues
  BY FocusRight DEF WmInv, WmTypeOK
<1>2. /\ f.fixed = w.fixed /\ f.dragWin = w.dragWin /\ f.dragging = w.dragging
      /\ hit \in Visible(w) => f.active = hit
  BY <1>1 DEF FocusWindow, UpdateActiveFlags, Visible, WmValues
<1>3. /\ BringToFront(f, hit).fixed = f.fixed /\ BringToFront(f, hit).dragWin = f.dragWin
      /\ BringToFront(f, hit).dragging = f.dragging /\ BringToFront(f, hit).active = f.active
  <2> HIDE DEF f
  <2> QED  BY <1>1 DEF BringToFront, WmValues
<1>4. WmInv(pressed) /\ (hit \in Visible(w) => hit \in Visible(pressed))
  BY PressFocusRight
<1>5. pressed = BringToFront(f, hit) \/ pressed = w
  BY DEF PressFocus, Raise
<1>6. /\ pressed \in WmValues /\ pressed.fixed = w.fixed
      /\ pressed.dragWin = w.dragWin /\ pressed.dragging = w.dragging
  <2>1. pressed \in WmValues
    BY <1>4 DEF WmInv, WmTypeOK
  <2> HIDE DEF f, pressed
  <2> QED  BY <1>2, <1>3, <1>5, <2>1
<1>7. CASE ~StartsDrag(pressed, m, hit, onTitle)
  <2>1. held = pressed
    BY <1>7 DEF StartDrag
  <2>2. pressed.dragWin \in Focusable(pressed)
    BY <1>4, <2>1 DEF Follows, WmInv, DragOK
  <2> HIDE DEF pressed, held
  <2> QED  BY <1>6, <2>1, <2>2 DEF Focusable
<1>8. CASE StartsDrag(pressed, m, hit, onTitle)
  <2>1. hit # NoWindow /\ "pressed" \in m /\ hit \notin pressed.fixed
    BY <1>8 DEF StartsDrag
  <2>2. hit \in Visible(w) /\ pressed = BringToFront(f, hit)
    BY <2>1 DEF PressFocus, Raise
  <2>3. pressed.active = hit /\ hit \in Visible(pressed)
    <3> HIDE DEF f, pressed
    <3> QED  BY <1>2, <1>3, <1>4, <2>2
  <2> HIDE DEF pressed
  <2>4. held.dragWin = hit /\ held \in WmValues
    <3>1. held = [pressed EXCEPT !.dragging = TRUE, !.dragWin = hit, !.dragMoved = FALSE]
      BY <1>8 DEF StartDrag
    <3>2. hit \in Nat
      BY <1>1, <2>2 DEF Visible, WmValues
    <3> HIDE DEF held
    <3> QED  BY <1>6, <3>1, <3>2 DEF WmValues
  <2>5. SameWindows(held, pressed) /\ held.active = pressed.active
    BY <1>6, DragKeepsWindows
  <2> HIDE DEF held
  <2>6. SameWindows(noted, held) /\ noted.active = held.active /\ noted \in WmValues
    <3>1. noted \in WmValues
      BY <2>4 DEF NoteMotion, WmValues
    <3> QED  BY <2>4, <3>1, DragKeepsWindows
  <2> HIDE DEF noted
  <2>7. SameWindows(v, noted) /\ v.active = noted.active
    BY <2>6, DragKeepsWindows
  <2> HIDE DEF v
  <2>8. v.active = hit /\ hit \notin v.minimized
    BY <2>3, <2>5, <2>6, <2>7 DEF SameWindows, Visible
  <2> QED  BY <1>6, <2>1, <2>4, <2>8
<1> QED  BY <1>7, <1>8

\* The manager when windows are freed and the focus is not yet chosen.
Freed(w) ==
  LET kept == w.open \ w.closing
      lost == w.dragWin \in w.closing
  IN  [w EXCEPT !.open = kept, !.above = @ \cap (kept \X kept),
                !.fixed = @ \cap kept, !.modal = @ \cap kept,
                !.minimized = @ \cap kept, !.closing = {},
                !.active = IF @ \in w.closing THEN NoWindow ELSE @,
                !.dragging = IF lost THEN FALSE ELSE @,
                !.dragWin = IF lost THEN NoWindow ELSE @]

Typed(w) == w \in WmValues

\* It keeps the windows that did not ask to be closed, and their focus.
LEMMA FreedRight ==
  ASSUME NEW w, Typed(w)
  PROVE  /\ Freed(w) \in WmValues /\ Freed(w).closing = {}
         /\ Freed(w).open = w.open \ w.closing
         /\ Freed(w).minimized = w.minimized \cap (w.open \ w.closing)
         /\ w.active \notin w.closing => Freed(w).active = w.active
<1> DEFINE kept  == w.open \ w.closing
           above == w.above \cap (kept \X kept)
           fixed == w.fixed \cap kept
           modal == w.modal \cap kept
           mini  == w.minimized \cap kept
           focus == IF w.active \in w.closing THEN NoWindow ELSE w.active
           drags == IF w.dragWin \in w.closing THEN FALSE ELSE w.dragging
           held  == IF w.dragWin \in w.closing THEN NoWindow ELSE w.dragWin
           u     == [w EXCEPT !.open = kept, !.above = above, !.fixed = fixed,
                              !.modal = modal, !.minimized = mini, !.closing = {},
                              !.active = focus, !.dragging = drags,
                              !.dragWin = held]
<1>1. w \in WmValues
  BY DEF Typed
<1>2. /\ kept \in SUBSET Nat /\ above \in SUBSET (Nat \X Nat)
      /\ fixed \in SUBSET Nat /\ modal \in SUBSET Nat /\ mini \in SUBSET Nat
      /\ focus \in Nat \cup {NoWindow} /\ held \in Nat \cup {NoWindow}
      /\ drags \in BOOLEAN
  BY <1>1 DEF WmValues
<1>3. u \in WmValues
  <2> HIDE DEF kept, above, fixed, modal, mini, focus, drags, held
  <2> QED  BY <1>1, <1>2 DEF WmValues
<1>4. u.open = kept /\ u.closing = {} /\ u.minimized = mini /\ u.active = focus
  <2> HIDE DEF kept, above, fixed, modal, mini, focus, drags, held
  <2>1. u.open = kept
    BY <1>1 DEF WmValues
  <2>2. u.closing = {}
    BY <1>1 DEF WmValues
  <2>3. u.minimized = mini
    BY <1>1 DEF WmValues
  <2>4. u.active = focus
    BY <1>1 DEF WmValues
  <2> QED  BY <2>1, <2>2, <2>3, <2>4
<1>5. Freed(w) = u
  BY DEF Freed
<1> HIDE DEF u
<1> QED  BY <1>3, <1>4, <1>5

\* Closing windows takes the focus from no other that can be seen.
LEMMA FocusCleaned ==
  ASSUME NEW w \in WmValues, w.active \in w.open \ w.closing, w.active \notin w.minimized
  PROVE  CleanupClosed(w).active = w.active
<1> DEFINE u == Freed(w)
<1>1. CleanupClosed(w) = SelectTopmostVisible(u)
  BY DEF CleanupClosed, Freed
<1>2. /\ u \in WmValues /\ u.open = w.open \ w.closing /\ u.closing = {}
      /\ u.minimized = w.minimized \cap (w.open \ w.closing) /\ u.active = w.active
  BY FreedRight DEF Typed
<1> HIDE DEF u
<1>3. u.active \in Visible(u)
  BY <1>2 DEF Visible
<1>4. CleanupClosed(w) = UpdateActiveFlags(u)
  BY <1>1, <1>3 DEF SelectTopmostVisible
<1> QED  BY <1>2, <1>4 DEF UpdateActiveFlags, WmValues

\* A mouse event moves the window that is dragged.
LEMMA MouseHolds ==
  ASSUME MInv, NEW m \in MouseEvents, NEW p \in Points, Mouse(m, p), OpenSlots
  PROVE  Holding
<1> DEFINE hit     == HitAt(p)
           onTitle == hit # NoWindow /\ OnTitle(rect[hit], p)
           pressed == PressFocus(wm, m, hit)
           held    == StartDrag(pressed, m, hit, onTitle)
           ended   == EndDrag(NoteMotion(held, m), m)
           after   == Pointer(wm, m, hit, onTitle)
           target  == MouseTarget(wm, hit)
           place   == MoveTo(rect[held.dragWin], p.y - grab'.y, p.x - grab'.x, screen)
           blocked == TopmostModal(wm) # NoWindow
<1>1. /\ \E v \in Callback(after, target) : wm' = CleanupClosed(v)
      /\ rect' = Forget(IF ~blocked /\ Follows(held, m)
                          THEN [rect EXCEPT ![held.dragWin] = place] ELSE rect, wm'.open)
  BY DEF Mouse
<1>2. hit \in Visible(wm) \cup {NoWindow}
  BY Before, TargetsVisible
<1>3. Follows(held, m) =>
        /\ held.dragWin \notin wm.fixed
        /\ \/ held.dragWin = wm.dragWin
           \/ held.dragWin = ended.active /\ held.dragWin \notin ended.minimized
  BY <1>2, Before, DraggedRight
<1>4. WmInv(after) /\ after.open = wm.open
  BY <1>2, Before, PointerRight
<1>5. ~blocked => after = ended
  BY DEF Pointer
<1> HIDE DEF hit, held, ended, after, target, place, blocked
<1>6. PICK v \in Callback(after, target) : wm' = CleanupClosed(v)
  BY <1>1
<1>7. /\ after \in WmValues /\ v \in WmValues
      /\ v.open = after.open /\ v.active = after.active /\ v.minimized = after.minimized
  <2>1. after \in WmValues
    BY <1>4 DEF WmInv, WmTypeOK
  <2>2. v = after \/ v = RequestClose(after, target)
    BY <1>6 DEF Callback
  <2> QED  BY <2>1, <2>2 DEF RequestClose, WmValues
<1>8. ASSUME NEW i \in wm'.open, i = v.active, i \notin v.minimized PROVE i = wm'.active
  <2>1. CleanupClosed(v).open = v.open \ v.closing
    BY <1>7, OpenShrinks
  <2>2. i \in v.open \ v.closing
    BY <1>6, <1>8, <2>1
  <2> QED  BY <1>6, <1>7, <1>8, <2>2, FocusCleaned
<1> SUFFICES ASSUME NEW i \in wm.open \cap wm'.open, rect'[i] # rect[i]
             PROVE  i \in {wm.active, wm'.active, wm.dragWin} \ wm.fixed
  BY DEF Holding
<1>9. ~blocked /\ Follows(held, m) /\ i = held.dragWin
  BY <1>1 DEF Forget
<1> QED  BY <1>3, <1>5, <1>7, <1>8, <1>9

\* No other step moves any but the active window, or fits the rest to the screen.
LEMMA ToggleHolds ==
  ASSUME MInv, Toggle
  PROVE  Holding
<1>1. wm' = wm /\ wm.active \in wm.open \ wm.fixed
  BY DEF Toggle, MaximizeActive, UnmaximizeActive, Obeys, Focusable, Visible
<1>2. \A i \in wm.open : i # wm.active => rect'[i] = rect[i]
  BY Before DEF Toggle, MaximizeActive, UnmaximizeActive
<1> QED  BY <1>1, <1>2 DEF Holding

LEMMA FailureHolds ==
  ASSUME MInv, ToggleFails
  PROVE  Holding
<1>1. \A i \in wm.open \cap wm'.open : ~(i = wm.active /\ Obeys) => rect'[i] = rect[i]
  BY DEF ToggleFails, Forget
<1>2. Obeys => wm.active \notin wm.fixed
  BY DEF Obeys, Focusable
<1> QED  BY <1>1, <1>2 DEF Holding

LEMMA ArrowsHold ==
  ASSUME MInv, NEW d \in Arrows, MoveNormal(d) \/ ResizeNormal(d)
  PROVE  Holding
<1>1. wm.active \notin wm.fixed
  BY DEF MoveNormal, ResizeNormal, MoveActive, ResizeActive, Focusable
<1>2. \A i \in wm.open : i # wm.active => rect'[i] = rect[i]
  BY Before DEF MoveNormal, ResizeNormal, MoveActive, ResizeActive
<1> QED  BY <1>1, <1>2 DEF Holding

LEMMA FocusHolds ==
  ASSUME MInv, NEW id \in wm.open, FocusFits(id)
  PROVE  Holding
<1>1. CASE Maximized(id) /\ id = wm'.active
  <2>1. id \notin wm.fixed
    BY <1>1 DEF Maximized, MInv, SlotInv
  <2>2. \A i \in wm.open : i # id => rect'[i] = rect[i]
    BY Before DEF FocusFits, Refreshed
  <2> QED  BY <1>1, <2>1, <2>2 DEF Holding
<1>2. CASE ~(Maximized(id) /\ id = wm'.active)
  <2>1. rect' = rect
    BY <1>2 DEF FocusFits, Refreshed
  <2> QED  BY <2>1 DEF Holding
<1> QED  BY <1>1, <1>2

LEMMA TerminalHolds ==
  ASSUME MInv, NEW s \in Screens, ResizeTerminal(s)
  PROVE  Holding
<1> DEFINE clamped == [i \in wm.open |-> Clamp(rect[i], s)]
<1>1. screen' = s /\ rect' = Refreshed(clamped, wm', wm'.active, s)
  BY DEF ResizeTerminal
<1>2. \A i \in wm.open : clamped[i] = Clamp(rect[i], s)
  OBVIOUS
<1> HIDE DEF clamped
<1>3. \A i \in wm.open :
        rect'[i] = clamped[i] \/ (i = wm'.active /\ Maximized(i))
  BY <1>1 DEF Refreshed
<1>4. \A i : Maximized(i) => i \notin wm.fixed
  BY DEF Maximized, MInv, SlotInv
<1> QED  BY <1>1, <1>2, <1>3, <1>4 DEF Holding

(***************************************************************************)
(* Nothing moves a window behind the user's back: whatever is called and   *)
(* whatever arrives, the only window whose rectangle changes is the one    *)
(* that has the focus or is dragged, and not a fixed one, but for those    *)
(* that a smaller terminal pushes back onto the screen.                    *)
(***************************************************************************)
THEOREM HeldMoves == MSpec => OnlyHeldMoves
<1>1. MInv /\ [MNext]_mvars => [Holding]_<<rect>>
  <2> SUFFICES ASSUME MInv, MNext, rect' # rect PROVE Holding
    BY DEF mvars
  <2>1. Step
    BY DEF MNext
  <2>2. CASE \E spec \in Specs : Create(spec) /\ UNCHANGED slots
    <3>1. \A i \in wm.open : rect'[i] = rect[i]
      BY <2>2, Before DEF Create, WmValues
    <3> QED  BY <3>1 DEF Holding
  <2>3. CASE \E id \in wm.open : Close(id) /\ OpenSlots
    BY <2>3 DEF Close, Forget, Holding
  <2>4. CASE \E id \in wm.open : FocusFits(id)
    BY <2>4, FocusHolds
  <2>5. CASE \E d \in Arrows : MoveNormal(d) \/ ResizeNormal(d)
    BY <2>5, ArrowsHold
  <2>6. CASE \E m \in MouseEvents, p \in Points : MouseEvent(m, p)
    BY <2>6, ToggleHolds, MouseHolds DEF MouseEvent
  <2>7. CASE Toggle \/ ToggleFails
    BY <2>7, ToggleHolds, FailureHolds
  <2>8. CASE \E s \in Screens : ResizeTerminal(s)
    BY <2>8, TerminalHolds
  <2> QED
    BY <2>1, <2>2, <2>3, <2>4, <2>5, <2>6, <2>7, <2>8
    DEF Step, ToFront, Minimize, Restore, Cycle
<1> QED  BY <1>1, MaximizeInductive, PTL DEF MSpec, OnlyHeldMoves, Holding
=============================================================================
