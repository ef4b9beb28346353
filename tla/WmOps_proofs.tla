---------------------------- MODULE WmOps_proofs ----------------------------
(***************************************************************************)
(* Lemmas about the operators of WmOps, for any number of windows.         *)
(*                                                                         *)
(* WmInv is preserved by each operator, one lemma per operator; what the   *)
(* clients of the manager do is compositions of these operators.  Closing  *)
(* a window marks it first and frees it later, so the lemmas about the two *)
(* go through HalfInv, which also holds in between.                        *)
(***************************************************************************)
EXTENDS WmOps, FiniteSetTheorems, TLAPS

WmInv(w) == WmTypeOK(w) /\ FocusOK(w) /\ DragOK(w) /\ DegradeOK(w) /\ StackOK(w)

(***************************************************************************)
(* What holds between a request to close and the clean-up: focus and drag  *)
(* may be on a window that is going away.                                  *)
(***************************************************************************)
HalfType(w) ==
  /\ w \in WmValues
  /\ w.open \subseteq 1 .. w.next - 1
  /\ w.above \subseteq w.open \X w.open
  /\ w.fixed \cup w.modal \cup w.minimized \cup w.closing \subseteq w.open
  /\ {w.active, w.dragWin} \subseteq w.open \cup {NoWindow}

HalfInv(w) ==
  /\ HalfType(w)
  /\ w.dragging <=> w.dragWin # NoWindow
  /\ w.dragging => w.dragEnabled /\ w.dragWin \in w.open \ (w.minimized \cup w.fixed)
  /\ DegradeOK(w)
  /\ StackOK(w)

(***************************************************************************)
(* WmInv is HalfInv in a state where nothing waits to be freed and the     *)
(* focus is right.                                                         *)
(***************************************************************************)
LEMMA InvParts ==
  ASSUME NEW w
  PROVE  /\ WmInv(w) => HalfInv(w)
         /\ HalfInv(w) /\ w.closing = {} /\ FocusOK(w) => WmInv(w)
<1>1. WmInv(w) => HalfInv(w)
  BY DEF WmInv, HalfInv, WmTypeOK, HalfType, DragOK, Focusable, Visible
<1>2. HalfInv(w) /\ w.closing = {} /\ FocusOK(w) => WmInv(w)
  BY DEF WmInv, HalfInv, WmTypeOK, HalfType, DragOK, FocusOK, Focusable, Visible
<1> QED  BY <1>1, <1>2

(***************************************************************************)
(* The topmost of a nonempty set of open windows is one of them.           *)
(***************************************************************************)
LEMMA TopmostIn ==
  ASSUME NEW w, StackOK(w), NEW S, S \subseteq w.open
  PROVE  /\ S = {} => Topmost(w, S) = NoWindow /\ Bottommost(w, S) = NoWindow
         /\ S # {} => Topmost(w, S) \in S /\ Bottommost(w, S) \in S
<1>1. CASE S = {}
  BY <1>1 DEF Topmost, Bottommost
<1>2. CASE S # {}
  <2>1. S \in SUBSET w.open  OBVIOUS
  <2>2. (\E i \in S : IsTop(w, S, i)) /\ (\E i \in S : IsBottom(w, S, i))
    BY <1>2, <2>1 DEF StackOK
  <2> QED  BY <1>2, <2>2 DEF Topmost, Bottommost
<1> QED  BY <1>1, <1>2

(***************************************************************************)
(* The order of the stack survives whatever leaves it and the windows      *)
(* alone.                                                                  *)
(***************************************************************************)
LEMMA SameStack ==
  ASSUME NEW v, NEW w, v.open = w.open, v.above = w.above
  PROVE  StackOK(w) => StackOK(v)
BY DEF StackOK, IsTop, IsBottom

(***************************************************************************)
(* Once focus is on a visible window, redrawing the flags completes WmInv. *)
(***************************************************************************)
LEMMA FlagsRight ==
  ASSUME NEW w, HalfInv(w), w.closing = {}, w.active \in Visible(w) \cup {NoWindow}
  PROVE  WmInv(UpdateActiveFlags(w))
<1> DEFINE v == UpdateActiveFlags(w)
<1>1. w \in WmValues
  BY DEF HalfInv, HalfType
<1>2. /\ v \in WmValues
      /\ v = [w EXCEPT !.lit = v.lit]
      /\ v.lit = Visible(w) \cap {w.active}
  BY <1>1 DEF UpdateActiveFlags, WmValues, Visible
<1>3. HalfInv(v)
  <2>1. HalfType(v)
    BY <1>1, <1>2 DEF HalfInv, HalfType, WmValues
  <2>2. StackOK(v)
    BY <1>1, <1>2, SameStack DEF HalfInv, WmValues
  <2> QED
    BY <1>1, <1>2, <2>1, <2>2 DEF HalfInv, DegradeOK, WmValues
<1>4. FocusOK(v) /\ v.closing = {}
  BY <1>1, <1>2 DEF FocusOK, Visible, WmValues
<1> QED  BY <1>3, <1>4, InvParts

(***************************************************************************)
(* Selecting the topmost visible window restores WmInv once nothing waits  *)
(* to be freed.                                                            *)
(***************************************************************************)
LEMMA SelectRight ==
  ASSUME NEW w, HalfInv(w), w.closing = {}
  PROVE  WmInv(SelectTopmostVisible(w))
<1>1. CASE w.active \in Visible(w)
  BY <1>1, FlagsRight DEF SelectTopmostVisible
<1>2. CASE w.active \notin Visible(w)
  <2> DEFINE v == [w EXCEPT !.active = Topmost(w, Visible(w))]
  <2>1. w \in WmValues /\ w.open \subseteq Nat
    BY DEF HalfInv, HalfType, WmValues
  <2>2. Topmost(w, Visible(w)) \in Visible(w) \cup {NoWindow}
    BY TopmostIn DEF Visible, HalfInv
  <2>3. v \in WmValues /\ v = [w EXCEPT !.active = v.active]
        /\ v.active \in Visible(w) \cup {NoWindow}
    BY <2>1, <2>2 DEF WmValues, Visible
  <2>4. StackOK(v)
    BY <2>1, SameStack DEF HalfInv, WmValues
  <2>5. HalfType(v)
    BY <2>1, <2>3 DEF HalfInv, HalfType, WmValues, Visible
  <2>6. HalfInv(v) /\ v.closing = {} /\ v.active \in Visible(v) \cup {NoWindow}
    BY <2>1, <2>3, <2>4, <2>5 DEF HalfInv, DegradeOK, WmValues, Visible
  <2> HIDE DEF v
  <2>7. WmInv(UpdateActiveFlags(v))
    BY <2>6, FlagsRight
  <2> QED  BY <1>2, <2>7 DEF SelectTopmostVisible, v
<1> QED  BY <1>1, <1>2

(***************************************************************************)
(* Removing windows keeps the order of the ones that stay.                 *)
(***************************************************************************)
LEMMA StackShrinks ==
  ASSUME NEW w, NEW v, StackOK(w), v.open \subseteq w.open,
         v.above = w.above \cap (v.open \X v.open)
  PROVE  StackOK(v)
<1>1. \A i, j \in v.open :
         <<i, j>> \in v.above <=> (i # j /\ <<j, i>> \notin v.above)
  BY DEF StackOK
<1>2. ASSUME NEW S \in SUBSET v.open, S # {}
      PROVE  (\E i \in S : IsTop(v, S, i)) /\ (\E i \in S : IsBottom(v, S, i))
  <2>1. S \in SUBSET w.open
    OBVIOUS
  <2>2. (\E i \in S : IsTop(w, S, i)) /\ (\E i \in S : IsBottom(w, S, i))
    BY <1>2, <2>1 DEF StackOK
  <2> QED  BY <2>2 DEF IsTop, IsBottom
<1> QED  BY <1>1, <1>2 DEF StackOK

(***************************************************************************)
(* Freeing the windows that asked for it restores WmInv.                   *)
(***************************************************************************)
LEMMA CleanupRight ==
  ASSUME NEW w, HalfInv(w)
  PROVE  WmInv(CleanupClosed(w))
<1> DEFINE kept  == w.open \ w.closing
           above == w.above \cap (kept \X kept)
           fixed == w.fixed \cap kept
           modal == w.modal \cap kept
           mini  == w.minimized \cap kept
           focus == IF w.active \in w.closing THEN NoWindow ELSE w.active
           drags == IF w.dragWin \in w.closing THEN FALSE ELSE w.dragging
           held  == IF w.dragWin \in w.closing THEN NoWindow ELSE w.dragWin
           v     == [w EXCEPT !.open = kept, !.above = above, !.fixed = fixed,
                              !.modal = modal, !.minimized = mini, !.closing = {},
                              !.active = focus, !.dragging = drags,
                              !.dragWin = held]
<1>1. w \in WmValues
  BY DEF HalfInv, HalfType
<1>2. /\ kept \in SUBSET Nat /\ above \in SUBSET (Nat \X Nat)
      /\ fixed \in SUBSET Nat /\ modal \in SUBSET Nat /\ mini \in SUBSET Nat
      /\ focus \in Nat \cup {NoWindow} /\ held \in Nat \cup {NoWindow}
      /\ drags \in BOOLEAN
  BY <1>1 DEF WmValues
<1>3. v \in WmValues
  <2> HIDE DEF kept, above, fixed, modal, mini, focus, drags, held
  <2> QED  BY <1>1, <1>2 DEF WmValues
<1>4. /\ v.open = kept /\ v.above = above /\ v.closing = {} /\ v.fixed = fixed
      /\ v.modal = modal /\ v.minimized = mini /\ v.active = focus
      /\ v.dragging = drags /\ v.dragWin = held /\ v.next = w.next
      /\ v.dragEnabled = w.dragEnabled /\ v.autoDegrade = w.autoDegrade
      /\ v.degraded = w.degraded /\ v.sessions = w.sessions
  <2> HIDE DEF kept, above, fixed, modal, mini, focus, drags, held
  <2> QED  BY <1>1 DEF WmValues
<1> HIDE DEF v
<1>5. StackOK(v)
  BY <1>4, StackShrinks DEF HalfInv
<1>6. HalfType(v)
  BY <1>1, <1>3, <1>4 DEF HalfInv, HalfType
<1>7. /\ v.dragging <=> v.dragWin # NoWindow
      /\ v.dragging => v.dragEnabled /\ v.dragWin \in v.open \ (v.minimized \cup v.fixed)
  BY <1>4 DEF HalfInv, HalfType
<1>8. HalfInv(v) /\ v.closing = {}
  BY <1>4, <1>5, <1>6, <1>7 DEF HalfInv, DegradeOK
<1>9. CleanupClosed(w) = SelectTopmostVisible(v)
  BY DEF CleanupClosed, v
<1> QED  BY <1>8, <1>9, SelectRight

\* A window that asks to be closed, or is closed by wm_close_window, leaves
\* the manager well formed.
LEMMA CloseRight ==
  ASSUME NEW w, WmInv(w), NEW id
  PROVE  /\ WmInv(CleanupClosed(RequestClose(w, id)))
         /\ WmInv(CloseWindow(w, id))
         /\ HalfInv(RequestClose(w, id))
<1>1. HalfInv(RequestClose(w, id))
  <2> DEFINE v == RequestClose(w, id)
  <2>1. HalfInv(w) /\ w \in WmValues
    BY InvParts DEF HalfInv, HalfType
  <2>2. CASE id \notin w.open
    BY <2>1, <2>2 DEF RequestClose
  <2>3. CASE id \in w.open
    <3>1. v \in WmValues /\ v = [w EXCEPT !.closing = v.closing]
          /\ v.closing = w.closing \cup {id}
      BY <2>1, <2>3 DEF RequestClose, WmValues, HalfInv, HalfType
    <3>2. StackOK(v)
      BY <2>1, <3>1, SameStack DEF HalfInv, WmValues
    <3> QED  BY <2>1, <2>3, <3>1, <3>2 DEF HalfInv, HalfType, WmValues, DegradeOK
  <2> QED  BY <2>2, <2>3
<1> QED  BY <1>1, CleanupRight DEF CloseWindow

-----------------------------------------------------------------------------
(***************************************************************************)
(* One lemma per operator.                                                 *)
(***************************************************************************)
LEMMA FocusRight ==
  ASSUME NEW w, WmInv(w), NEW id
  PROVE  WmInv(FocusWindow(w, id))
<1>1. HalfInv(w) /\ w \in WmValues /\ w.closing = {}
  BY InvParts DEF WmInv, WmTypeOK
<1>2. CASE id \notin w.open \ w.closing
  BY <1>2 DEF FocusWindow
<1>3. CASE id \in w.open \ w.closing
  <2> DEFINE shown == w.minimized \ {id}
             v     == [w EXCEPT !.minimized = shown, !.active = id]
  <2>1. /\ v \in WmValues
        /\ v = [w EXCEPT !.minimized = v.minimized, !.active = v.active]
        /\ v.minimized = shown /\ v.active = id
    BY <1>1, <1>3 DEF HalfInv, HalfType, WmValues
  <2>2. StackOK(v)
    BY <1>1, SameStack DEF HalfInv, WmValues
  <2>3. HalfInv(v) /\ v.closing = {} /\ v.active \in Visible(v)
    <3> HIDE DEF v
    <3>1. /\ v.open = w.open /\ v.above = w.above /\ v.fixed = w.fixed
          /\ v.modal = w.modal /\ v.closing = w.closing /\ v.next = w.next
          /\ v.dragWin = w.dragWin /\ v.dragging = w.dragging
          /\ v.dragEnabled = w.dragEnabled /\ v.autoDegrade = w.autoDegrade
          /\ v.degraded = w.degraded /\ v.sessions = w.sessions
      BY <1>1, <2>1 DEF WmValues
    <3>2. HalfType(v)
      BY <1>1, <1>3, <2>1, <3>1 DEF HalfInv, HalfType
    <3> QED
      BY <1>1, <1>3, <2>1, <2>2, <3>1, <3>2 DEF HalfInv, DegradeOK, Visible
  <2>4. FocusWindow(w, id) = UpdateActiveFlags(v)
    BY <1>3 DEF FocusWindow
  <2> HIDE DEF v
  <2> QED  BY <2>3, <2>4, FlagsRight
<1> QED  BY <1>2, <1>3

(***************************************************************************)
(* Raising one window changes only its own place in the stack, and leaves  *)
(* a total order.                                                          *)
(***************************************************************************)
LEMMA StackRaised ==
  ASSUME NEW w, NEW v, NEW id \in w.open, StackOK(w), v.open = w.open,
         v.above = (w.above \ (w.open \X {id})) \cup ({id} \X (w.open \ {id}))
  PROVE  StackOK(v)
<1>1. \A i, j \in v.open :
         <<i, j>> \in v.above <=> (i # j /\ <<j, i>> \notin v.above)
  BY DEF StackOK
<1>2. ASSUME NEW S \in SUBSET v.open, S # {}
      PROVE  (\E i \in S : IsTop(v, S, i)) /\ (\E i \in S : IsBottom(v, S, i))
  <2> DEFINE R == S \ {id}
  <2>1. CASE R = {}
    BY <1>2, <2>1 DEF IsTop, IsBottom
  <2>2. CASE R # {}
    <3>1. PICK t \in R : IsTop(w, R, t)
      BY <2>2 DEF StackOK
    <3>2. PICK b \in R : IsBottom(w, R, b)
      BY <2>2 DEF StackOK
    <3>3. \E i \in S : IsTop(v, S, i)
      <4>1. CASE id \in S
        BY <4>1 DEF IsTop
      <4>2. CASE id \notin S
        BY <3>1, <4>2 DEF IsTop
      <4> QED  BY <4>1, <4>2
    <3>4. IsBottom(v, S, b)
      BY <3>2 DEF IsBottom
    <3> QED  BY <3>3, <3>4
  <2> QED  BY <2>1, <2>2
<1> QED  BY <1>1, <1>2 DEF StackOK

\* wm_bring_to_front touches the stacking order only, and leaves it total.
LEMMA RaiseKeeps ==
  ASSUME NEW w, HalfInv(w), NEW id
  PROVE  LET v == BringToFront(w, id)
         IN  /\ HalfInv(v) /\ StackOK(v)
             /\ v.closing = w.closing /\ v.open = w.open
             /\ v.minimized = w.minimized /\ v.active = w.active /\ v.lit = w.lit
<1>1. w \in WmValues
  BY DEF HalfInv, HalfType
<1>2. CASE id \notin Visible(w)
  BY <1>2 DEF BringToFront, HalfInv
<1>3. CASE id \in Visible(w)
  <2> DEFINE order == (w.above \ (w.open \X {id})) \cup ({id} \X (w.open \ {id}))
             v     == [w EXCEPT !.above = order]
  <2>1. order \in SUBSET (Nat \X Nat) /\ order \subseteq w.open \X w.open
    BY <1>1, <1>3 DEF HalfInv, HalfType, WmValues, Visible
  <2>2. /\ v \in WmValues /\ v = [w EXCEPT !.above = v.above]
        /\ v.above = order /\ v.open = w.open
    <3> HIDE DEF order
    <3> QED  BY <1>1, <2>1 DEF WmValues
  <2>3. StackOK(v)
    <3> HIDE DEF v
    <3> QED  BY <1>3, <2>2, StackRaised DEF HalfInv, Visible
  <2>4. BringToFront(w, id) = v
    BY <1>3 DEF BringToFront
  <2> HIDE DEF v, order
  <2>5. HalfInv(v)
    BY <1>1, <2>1, <2>2, <2>3 DEF HalfInv, HalfType, WmValues, DegradeOK
  <2> QED  BY <1>1, <2>2, <2>3, <2>4, <2>5 DEF WmValues
<1> QED  BY <1>2, <1>3

\* wm_bring_to_front keeps WmInv.
LEMMA FrontRight ==
  ASSUME NEW w, WmInv(w), NEW id
  PROVE  WmInv(BringToFront(w, id))
<1> DEFINE v == BringToFront(w, id)
<1>1. HalfInv(w) /\ w.closing = {} /\ FocusOK(w)
  BY InvParts DEF WmInv, WmTypeOK
<1>2. HalfInv(v) /\ v.closing = {}
  BY <1>1, RaiseKeeps
<1>3. FocusOK(v)
  <2>1. /\ v.closing = w.closing /\ v.open = w.open
        /\ v.minimized = w.minimized /\ v.active = w.active /\ v.lit = w.lit
    BY <1>1, RaiseKeeps
  <2> HIDE DEF v
  <2> QED  BY <1>1, <2>1 DEF FocusOK, Visible
<1> QED  BY <1>2, <1>3, InvParts

\* F6 keeps WmInv: the window it picks is visible.
LEMMA CycleRight ==
  ASSUME NEW w, WmInv(w)
  PROVE  WmInv(CycleFocus(w))
<1> DEFINE t == CycleTarget(w)
           moves == ~ \/ Cardinality(w.open) < 2
                      \/ TopmostModal(w) # NoWindow
                      \/ t \in {NoWindow, w.active}
           v == [w EXCEPT !.active = t]
           u == BringToFront(v, t)
<1>1. HalfInv(w) /\ w \in WmValues /\ w.closing = {}
  BY InvParts DEF WmInv, WmTypeOK
<1>2. CASE ~moves
  BY <1>2 DEF CycleFocus
<1>3. CASE moves
  <2>1. t \in Focusable(w)
    <3> DEFINE from   == IF w.active \in w.open THEN w.active ELSE Topmost(w, w.open)
               higher == {i \in Focusable(w) : <<i, from>> \in w.above}
               among  == IF higher # {} THEN higher ELSE Focusable(w)
    <3>1. t = Bottommost(w, among)
      BY DEF CycleTarget
    <3>2. among \subseteq Focusable(w) /\ among \subseteq w.open
      BY DEF Focusable, Visible
    <3>3. t # NoWindow
      BY <1>3
    <3> HIDE DEF among, t
    <3> QED  BY <1>1, <3>1, <3>2, <3>3, TopmostIn DEF HalfInv
  <2> HIDE DEF t
  <2>2. v \in WmValues /\ v = [w EXCEPT !.active = v.active] /\ v.active = t
    BY <1>1, <2>1 DEF HalfInv, HalfType, WmValues, Focusable, Visible
  <2>3. StackOK(v)
    BY <1>1, SameStack DEF HalfInv, WmValues
  <2>4. HalfInv(v) /\ v.closing = {} /\ v.active \in Visible(v)
    <3> HIDE DEF v
    <3> QED  BY <1>1, <2>1, <2>2, <2>3
             DEF HalfInv, HalfType, WmValues, DegradeOK, Focusable, Visible
  <2> HIDE DEF v
  <2>5. HalfInv(u) /\ u.closing = {} /\ u.active \in Visible(u)
    BY <2>4, RaiseKeeps DEF Visible
  <2>6. CycleFocus(w) = UpdateActiveFlags(u)
    BY <1>3 DEF CycleFocus, t, v
  <2> HIDE DEF u
  <2> QED  BY <2>5, <2>6, FlagsRight
<1> QED  BY <1>2, <1>3

\* wm_minimize_window keeps WmInv: focus and drag leave the window it hides.
LEMMA MinimizeRight ==
  ASSUME NEW w, WmInv(w), NEW id
  PROVE  WmInv(MinimizeWindow(w, id))
<1>1. HalfInv(w) /\ w \in WmValues /\ w.closing = {}
  BY InvParts DEF WmInv, WmTypeOK
<1>2. CASE ~CanMinimize(w, id)
  BY <1>2 DEF MinimizeWindow
<1>3. CASE CanMinimize(w, id)
  <2> DEFINE hidden == w.minimized \cup {id}
             focus  == IF w.active = id THEN NoWindow ELSE w.active
             drags  == IF w.dragWin = id THEN FALSE ELSE w.dragging
             held   == IF w.dragWin = id THEN NoWindow ELSE w.dragWin
             moved  == IF w.dragWin = id THEN FALSE ELSE w.dragMoved
             v      == [w EXCEPT !.minimized = hidden, !.active = focus,
                                 !.dragging = drags, !.dragWin = held,
                                 !.dragMoved = moved]
  <2>1. /\ id \in w.open /\ id \notin w.fixed
        /\ hidden \in SUBSET Nat /\ hidden \subseteq w.open
        /\ focus \in Nat \cup {NoWindow} /\ held \in Nat \cup {NoWindow}
        /\ drags \in BOOLEAN /\ moved \in BOOLEAN
    BY <1>1, <1>3 DEF HalfInv, HalfType, WmValues, CanMinimize
  <2>2. /\ v \in WmValues
        /\ v.open = w.open /\ v.above = w.above /\ v.fixed = w.fixed
        /\ v.modal = w.modal /\ v.closing = w.closing /\ v.next = w.next
        /\ v.minimized = hidden /\ v.active = focus
        /\ v.dragWin = held /\ v.dragging = drags
        /\ v.dragEnabled = w.dragEnabled /\ v.autoDegrade = w.autoDegrade
        /\ v.degraded = w.degraded /\ v.sessions = w.sessions
    <3> HIDE DEF hidden, focus, drags, held, moved
    <3> QED  BY <1>1, <2>1 DEF WmValues
  <2>3. MinimizeWindow(w, id) = SelectTopmostVisible(v)
    BY <1>3 DEF MinimizeWindow
  <2> HIDE DEF v
  <2>4. StackOK(v)
    BY <1>1, <2>2, SameStack DEF HalfInv
  <2>5. HalfType(v)
    BY <1>1, <2>1, <2>2 DEF HalfInv, HalfType
  <2>6. /\ v.dragging <=> v.dragWin # NoWindow
        /\ v.dragging => v.dragEnabled /\ v.dragWin \in v.open \ (v.minimized \cup v.fixed)
    BY <1>1, <2>2 DEF HalfInv
  <2>7. HalfInv(v) /\ v.closing = {}
    BY <1>1, <2>2, <2>4, <2>5, <2>6 DEF HalfInv, DegradeOK
  <2> QED  BY <2>3, <2>7, SelectRight
<1> QED  BY <1>2, <1>3

\* wm_restore_window keeps WmInv, although it leaves the focus alone.
LEMMA RestoreRight ==
  ASSUME NEW w, WmInv(w), NEW id
  PROVE  WmInv(RestoreWindow(w, id))
<1>1. HalfInv(w) /\ w \in WmValues /\ w.closing = {} /\ FocusOK(w)
  BY InvParts DEF WmInv, WmTypeOK
<1>2. CASE id \notin w.minimized
  BY <1>2 DEF RestoreWindow
<1>3. CASE id \in w.minimized
  <2> DEFINE shown == w.minimized \ {id}
             v     == [w EXCEPT !.minimized = shown]
  <2>1. /\ v \in WmValues
        /\ v.open = w.open /\ v.above = w.above /\ v.fixed = w.fixed
        /\ v.modal = w.modal /\ v.closing = w.closing /\ v.next = w.next
        /\ v.minimized = shown /\ v.active = w.active
        /\ v.dragWin = w.dragWin /\ v.dragging = w.dragging
        /\ v.dragEnabled = w.dragEnabled /\ v.autoDegrade = w.autoDegrade
        /\ v.degraded = w.degraded /\ v.sessions = w.sessions
    BY <1>1 DEF WmValues
  <2>2. RestoreWindow(w, id) = UpdateActiveFlags(v)
    BY <1>3 DEF RestoreWindow
  <2> HIDE DEF v
  <2>3. StackOK(v)
    BY <1>1, <2>1, SameStack DEF HalfInv
  <2>4. HalfType(v)
    BY <1>1, <2>1 DEF HalfInv, HalfType
  <2>5. HalfInv(v) /\ v.closing = {} /\ v.active \in Visible(v) \cup {NoWindow}
    BY <1>1, <2>1, <2>3, <2>4 DEF HalfInv, DegradeOK, FocusOK, Visible
  <2> QED  BY <2>2, <2>5, FlagsRight
<1> QED  BY <1>2, <1>3

(***************************************************************************)
(* A new window goes on top of all the others.                             *)
(***************************************************************************)
LEMMA StackGrows ==
  ASSUME NEW w, NEW v, NEW id, id \notin w.open, StackOK(w),
         w.above \subseteq w.open \X w.open,
         v.open = w.open \cup {id}, v.above = w.above \cup ({id} \X w.open)
  PROVE  StackOK(v)
<1>1. ASSUME NEW i \in v.open, NEW j \in v.open
      PROVE  <<i, j>> \in v.above <=> (i # j /\ <<j, i>> \notin v.above)
  <2>1. <<i, j>> \in v.above <=> (<<i, j>> \in w.above \/ (i = id /\ j \in w.open))
    OBVIOUS
  <2>2. <<j, i>> \in v.above <=> (<<j, i>> \in w.above \/ (j = id /\ i \in w.open))
    OBVIOUS
  <2>3. CASE i \in w.open /\ j \in w.open
    BY <2>1, <2>2, <2>3 DEF StackOK
  <2>4. CASE i = id
    BY <2>1, <2>2, <2>4
  <2>5. CASE j = id
    BY <2>1, <2>2, <2>5
  <2> QED  BY <2>3, <2>4, <2>5
<1>2. ASSUME NEW S \in SUBSET v.open, S # {}
      PROVE  (\E i \in S : IsTop(v, S, i)) /\ (\E i \in S : IsBottom(v, S, i))
  <2> DEFINE R == S \ {id}
  <2>1. CASE R = {}
    BY <1>2, <2>1 DEF IsTop, IsBottom
  <2>2. CASE R # {}
    <3>0. R \in SUBSET w.open
      OBVIOUS
    <3>1. PICK t \in R : IsTop(w, R, t)
      BY <2>2, <3>0 DEF StackOK
    <3>2. PICK b \in R : IsBottom(w, R, b)
      BY <2>2, <3>0 DEF StackOK
    <3>3. \E i \in S : IsTop(v, S, i)
      <4>1. CASE id \in S
        BY <4>1 DEF IsTop
      <4>2. CASE id \notin S
        BY <3>1, <4>2 DEF IsTop
      <4> QED  BY <4>1, <4>2
    <3>4. IsBottom(v, S, b)
      BY <3>2 DEF IsBottom
    <3> QED  BY <3>3, <3>4
  <2> QED  BY <2>1, <2>2
<1> QED  BY <1>1, <1>2 DEF StackOK

\* wm_create_window keeps WmInv and adds just the new id, which no window
\* had.
LEMMA CreateRight ==
  ASSUME NEW w, WmInv(w), NEW isFixed \in BOOLEAN, NEW isModal \in BOOLEAN
  PROVE  /\ WmInv(CreateWindow(w, isFixed, isModal))
         /\ CreateWindow(w, isFixed, isModal).open = w.open \cup {w.next}
<1> DEFINE id    == w.next
           open  == w.open \cup {id}
           above == w.above \cup ({id} \X w.open)
           fixed == IF isFixed THEN w.fixed \cup {id} ELSE w.fixed
           modal == IF isModal THEN w.modal \cup {id} ELSE w.modal
           v     == [w EXCEPT !.open = open, !.above = above, !.fixed = fixed,
                              !.modal = modal, !.active = id, !.next = id + 1]
<1>1. HalfInv(w) /\ w \in WmValues /\ w.closing = {} /\ FocusOK(w)
  BY InvParts DEF WmInv, WmTypeOK
<1>2. /\ id \in Nat \ {0} /\ id + 1 \in Nat \ {0} /\ id \notin w.open /\ open \subseteq 1 .. id
      /\ open \in SUBSET Nat /\ above \in SUBSET (Nat \X Nat)
      /\ above \subseteq open \X open
      /\ fixed \in SUBSET Nat /\ modal \in SUBSET Nat
      /\ fixed \subseteq w.fixed \cup {id} /\ fixed \cup modal \subseteq open
  BY <1>1 DEF HalfInv, HalfType, WmValues
<1>3. /\ v \in WmValues
      /\ v.open = open /\ v.above = above /\ v.fixed = fixed
      /\ v.modal = modal /\ v.closing = w.closing /\ v.next = id + 1
      /\ v.minimized = w.minimized /\ v.active = id
      /\ v.dragWin = w.dragWin /\ v.dragging = w.dragging
      /\ v.dragEnabled = w.dragEnabled /\ v.autoDegrade = w.autoDegrade
      /\ v.degraded = w.degraded /\ v.sessions = w.sessions
  <2> HIDE DEF id, open, above, fixed, modal
  <2> QED  BY <1>1, <1>2 DEF WmValues
<1>4. CreateWindow(w, isFixed, isModal) = UpdateActiveFlags(v)
  BY DEF CreateWindow
<1>5. UpdateActiveFlags(v).open = open
  <2> HIDE DEF v, open
  <2> QED  BY <1>3 DEF UpdateActiveFlags, WmValues
<1> HIDE DEF v
<1>6. StackOK(v)
  BY <1>1, <1>2, <1>3, StackGrows DEF HalfInv, HalfType
<1> HIDE DEF open, above, fixed, modal
<1>7. HalfType(v)
  <2>1. v.open \subseteq 1 .. v.next - 1
    BY <1>2, <1>3
  <2>2. v.fixed \cup v.modal \cup v.minimized \cup v.closing \subseteq v.open
    BY <1>1, <1>2, <1>3 DEF HalfInv, HalfType, open
  <2>3. {v.active, v.dragWin} \subseteq v.open \cup {NoWindow}
    BY <1>1, <1>2, <1>3 DEF HalfInv, HalfType, open
  <2> QED  BY <1>2, <1>3, <2>1, <2>2, <2>3 DEF HalfType
<1>8. /\ v.dragging <=> v.dragWin # NoWindow
      /\ v.dragging => v.dragEnabled /\ v.dragWin \in v.open \ (v.minimized \cup v.fixed)
  BY <1>1, <1>2, <1>3 DEF HalfInv, open
<1>9. HalfInv(v) /\ v.closing = {} /\ v.active \in Visible(v) \cup {NoWindow}
  BY <1>1, <1>2, <1>3, <1>6, <1>7, <1>8
     DEF HalfInv, HalfType, DegradeOK, Visible, open
<1> QED  BY <1>4, <1>5, <1>9, FlagsRight DEF open

\* When the screen is too small a create only uses up the id.
LEMMA CreateFailsRight ==
  ASSUME NEW w, WmInv(w)
  PROVE  WmInv(CreateFails(w)) /\ CreateFails(w).open = w.open
<1> DEFINE v == CreateFails(w)
<1>1. w \in WmValues /\ WmTypeOK(w)
  BY DEF WmInv, WmTypeOK
<1>2. /\ v \in WmValues /\ v = [w EXCEPT !.next = v.next]
      /\ v.next = w.next + 1
  BY <1>1 DEF CreateFails, WmValues
<1>3. StackOK(v)
  BY <1>1, <1>2, SameStack DEF WmInv, WmValues
<1>4. /\ v.open = w.open /\ v.above = w.above /\ v.fixed = w.fixed
      /\ v.modal = w.modal /\ v.minimized = w.minimized /\ v.closing = w.closing
      /\ v.active = w.active /\ v.lit = w.lit
      /\ v.dragEnabled = w.dragEnabled /\ v.autoDegrade = w.autoDegrade
      /\ v.degraded = w.degraded /\ v.sessions = w.sessions
      /\ v.dragging = w.dragging /\ v.dragWin = w.dragWin
  BY <1>1, <1>2 DEF WmValues
<1> HIDE DEF v
<1>5. WmTypeOK(v)
  <2>1. w.next \in Nat \ {0}
    BY <1>1 DEF WmValues
  <2>2. v.open \subseteq 1 .. v.next - 1
    BY <1>1, <1>2, <1>4, <2>1 DEF WmTypeOK
  <2> QED  BY <1>1, <1>2, <1>4, <2>2 DEF WmTypeOK
<1>6. FocusOK(v) /\ DragOK(v) /\ DegradeOK(v)
  BY <1>4 DEF WmInv, FocusOK, DragOK, DegradeOK, Visible, Focusable
<1> QED  BY <1>3, <1>4, <1>5, <1>6 DEF WmInv, v

(***************************************************************************)
(* An operator that changes nothing but the drag keeps WmInv when it       *)
(* leaves the drag itself in order.                                        *)
(***************************************************************************)
LEMMA OnlyDragChanges ==
  ASSUME NEW w, WmInv(w), NEW v \in WmValues,
         v.open = w.open, v.above = w.above, v.fixed = w.fixed,
         v.modal = w.modal, v.minimized = w.minimized, v.closing = w.closing,
         v.active = w.active, v.lit = w.lit, v.next = w.next,
         DragOK(v), DegradeOK(v)
  PROVE  WmInv(v)
<1>1. StackOK(v)
  BY SameStack DEF WmInv
<1>2. v.dragWin \in v.open \cup {NoWindow}
  BY DEF DragOK, Focusable, Visible, WmValues
<1>3. WmTypeOK(v) /\ FocusOK(v)
  BY <1>2 DEF WmInv, WmTypeOK, FocusOK, Visible
<1> QED  BY <1>1, <1>3 DEF WmInv

\* wm_create leaves a manager without windows that satisfies WmInv.
LEMMA WmInitRight == WmInv(WmInit)
<1>1. WmInit \in WmValues /\ WmInit.open = {} /\ WmInit.above = {}
  BY DEF WmInit, WmValues, NoWindow, NoMotionLimit
<1>2. WmTypeOK(WmInit)
  BY <1>1 DEF WmTypeOK, WmInit
<1>3. StackOK(WmInit)
  BY <1>1 DEF StackOK
<1>4. FocusOK(WmInit) /\ DragOK(WmInit) /\ DegradeOK(WmInit)
  BY DEF FocusOK, DragOK, DegradeOK, WmInit, Visible, NoMotionLimit, NoWindow
<1> QED  BY <1>2, <1>3, <1>4 DEF WmInv

\* Switching dragging or its automatic degradation on or off keeps WmInv.
LEMMA SetDragRight ==
  ASSUME NEW w, WmInv(w), NEW on \in BOOLEAN
  PROVE  WmInv(SetDragEnabled(w, on)) /\ WmInv(SetDragAutoDegrade(w, on))
<1>1. w \in WmValues /\ DragOK(w) /\ DegradeOK(w)
  BY DEF WmInv, WmTypeOK
<1>2. WmInv(SetDragEnabled(w, on))
  <2> DEFINE v == SetDragEnabled(w, on)
  <2>1. /\ v \in WmValues
        /\ v.open = w.open /\ v.above = w.above /\ v.fixed = w.fixed
        /\ v.modal = w.modal /\ v.minimized = w.minimized
        /\ v.closing = w.closing /\ v.active = w.active /\ v.lit = w.lit
        /\ v.next = w.next
    <3>1. CASE on
      <4>1. v = [w EXCEPT !.dragEnabled = TRUE, !.degraded = FALSE, !.sessions = 0]
        BY <3>1 DEF SetDragEnabled
      <4>2. 0 \in 0 .. NoMotionLimit
        BY DEF NoMotionLimit
      <4> HIDE DEF v
      <4> QED  BY <1>1, <4>1, <4>2 DEF WmValues
    <3>2. CASE ~on
      BY <1>1, <3>2 DEF SetDragEnabled, WmValues, NoMotionLimit
    <3> QED  BY <3>1, <3>2
  <2>2. DragOK(v)
    BY <1>1 DEF SetDragEnabled, WmValues, DragOK, Focusable, Visible
  <2>3. DegradeOK(v)
    BY <1>1 DEF SetDragEnabled, WmValues, DegradeOK, NoMotionLimit
  <2> HIDE DEF v
  <2> QED  BY <2>1, <2>2, <2>3, OnlyDragChanges DEF v
<1>3. WmInv(SetDragAutoDegrade(w, on))
  <2> DEFINE v == SetDragAutoDegrade(w, on)
  <2>1. /\ v \in WmValues
        /\ v.open = w.open /\ v.above = w.above /\ v.fixed = w.fixed
        /\ v.modal = w.modal /\ v.minimized = w.minimized
        /\ v.closing = w.closing /\ v.active = w.active /\ v.lit = w.lit
        /\ v.next = w.next
    <3>1. CASE on
      BY <1>1, <3>1 DEF SetDragAutoDegrade, WmValues, NoMotionLimit
    <3>2. CASE ~on
      <4>1. v = [w EXCEPT !.autoDegrade = FALSE, !.sessions = 0, !.degraded = FALSE,
                          !.dragEnabled = TRUE]
        BY <3>2 DEF SetDragAutoDegrade
      <4>2. 0 \in 0 .. NoMotionLimit
        BY DEF NoMotionLimit
      <4> HIDE DEF v
      <4> QED  BY <1>1, <4>1, <4>2 DEF WmValues
    <3> QED  BY <3>1, <3>2
  <2>2. DragOK(v)
    BY <1>1 DEF SetDragAutoDegrade, WmValues, DragOK, Focusable, Visible
  <2>3. DegradeOK(v)
    BY <1>1 DEF SetDragAutoDegrade, WmValues, DegradeOK, NoMotionLimit
  <2> HIDE DEF v
  <2> QED  BY <2>1, <2>2, <2>3, OnlyDragChanges DEF v
<1> QED  BY <1>2, <1>3

\* A drag that starts does so on a window that can be seen and moved.
LEMMA StartDragRight ==
  ASSUME NEW w, WmInv(w), NEW m, NEW hit, NEW onTitle,
         StartsDrag(w, m, hit, onTitle) => hit \in Visible(w)
  PROVE  WmInv(StartDrag(w, m, hit, onTitle))
<1>1. w \in WmValues /\ WmTypeOK(w) /\ DragOK(w) /\ DegradeOK(w)
  BY DEF WmInv, WmTypeOK
<1>2. CASE ~StartsDrag(w, m, hit, onTitle)
  BY <1>2 DEF StartDrag
<1>3. CASE StartsDrag(w, m, hit, onTitle)
  <2> DEFINE v == [w EXCEPT !.dragging = TRUE, !.dragWin = hit, !.dragMoved = FALSE]
  <2>1. /\ hit \in Nat \cup {NoWindow} /\ hit \in Focusable(w)
        /\ hit # NoWindow /\ w.dragEnabled
    BY <1>1, <1>3 DEF StartsDrag, Focusable, Visible, WmValues
  <2>2. /\ v \in WmValues
        /\ v.open = w.open /\ v.above = w.above /\ v.fixed = w.fixed
        /\ v.modal = w.modal /\ v.minimized = w.minimized
        /\ v.closing = w.closing /\ v.active = w.active /\ v.lit = w.lit
        /\ v.next = w.next /\ v.dragging = TRUE /\ v.dragWin = hit
        /\ v.dragEnabled = w.dragEnabled /\ v.autoDegrade = w.autoDegrade
        /\ v.degraded = w.degraded /\ v.sessions = w.sessions
    BY <1>1, <2>1 DEF WmValues
  <2>3. StartDrag(w, m, hit, onTitle) = v
    BY <1>3 DEF StartDrag
  <2> HIDE DEF v
  <2>4. DragOK(v) /\ DegradeOK(v)
    BY <1>1, <2>1, <2>2 DEF DragOK, DegradeOK, Focusable, Visible
  <2> QED  BY <2>2, <2>3, <2>4, OnlyDragChanges
<1> QED  BY <1>2, <1>3

\* Motion during a drag keeps WmInv.
LEMMA NoteMotionRight ==
  ASSUME NEW w, WmInv(w), NEW m
  PROVE  WmInv(NoteMotion(w, m))
<1> DEFINE v == NoteMotion(w, m)
<1>1. w \in WmValues /\ DragOK(w) /\ DegradeOK(w)
  BY DEF WmInv, WmTypeOK
<1>2. /\ v \in WmValues
      /\ v.open = w.open /\ v.above = w.above /\ v.fixed = w.fixed
      /\ v.modal = w.modal /\ v.minimized = w.minimized
      /\ v.closing = w.closing /\ v.active = w.active /\ v.lit = w.lit
      /\ v.next = w.next /\ v.dragging = w.dragging /\ v.dragWin = w.dragWin
      /\ v.dragEnabled = w.dragEnabled /\ v.autoDegrade = w.autoDegrade
      /\ v.degraded = w.degraded /\ v.sessions = w.sessions
  BY <1>1 DEF NoteMotion, WmValues
<1> HIDE DEF v
<1>3. DragOK(v) /\ DegradeOK(v)
  BY <1>1, <1>2 DEF DragOK, DegradeOK, Focusable, Visible
<1> QED  BY <1>2, <1>3, OnlyDragChanges DEF v

(***************************************************************************)
(* The counter of sessions cannot pass its limit: a drag that could raise  *)
(* it further needs dragging enabled, which the limit switches off.        *)
(***************************************************************************)
LEMMA EndDragRight ==
  ASSUME NEW w, WmInv(w), NEW m
  PROVE  WmInv(EndDrag(w, m))
<1>1. w \in WmValues /\ DragOK(w) /\ DegradeOK(w)
  BY DEF WmInv, WmTypeOK
<1>2. CASE ~(w.dragging /\ ButtonUp(m))
  BY <1>2 DEF EndDrag
<1>3. CASE w.dragging /\ ButtonUp(m)
  <2> DEFINE c == CountSession(w)
             v == [c EXCEPT !.dragging = FALSE, !.dragWin = NoWindow, !.dragMoved = FALSE]
  <2>1. w.sessions \in 0 .. 2 /\ ~w.degraded
    BY <1>1, <1>3 DEF DragOK, DegradeOK, WmValues, NoMotionLimit
  <2>2. /\ c \in WmValues
        /\ c.open = w.open /\ c.above = w.above /\ c.fixed = w.fixed
        /\ c.modal = w.modal /\ c.minimized = w.minimized
        /\ c.closing = w.closing /\ c.active = w.active /\ c.lit = w.lit
        /\ c.next = w.next
    <3>1. CASE w.dragMoved
      <4>1. c = [w EXCEPT !.sessions = 0] /\ 0 \in 0 .. NoMotionLimit
        BY <3>1 DEF CountSession, NoMotionLimit
      <4> HIDE DEF c
      <4> QED  BY <1>1, <4>1 DEF WmValues
    <3>2. CASE ~w.dragMoved /\ ~w.autoDegrade
      BY <1>1, <3>2 DEF CountSession
    <3>3. CASE ~w.dragMoved /\ w.autoDegrade
      <4> DEFINE n == w.sessions + 1
                 e == IF n >= NoMotionLimit THEN FALSE ELSE w.dragEnabled
                 d == IF n >= NoMotionLimit THEN TRUE ELSE w.degraded
      <4>0. w.dragEnabled \in BOOLEAN /\ w.degraded \in BOOLEAN
        BY <1>1 DEF WmValues
      <4>1. n \in 0 .. NoMotionLimit /\ e \in BOOLEAN /\ d \in BOOLEAN
        <5>1. n \in 0 .. NoMotionLimit
          BY <2>1 DEF NoMotionLimit
        <5>2. e \in BOOLEAN /\ d \in BOOLEAN
          <6>1. CASE n >= NoMotionLimit
            BY <6>1
          <6>2. CASE ~(n >= NoMotionLimit)
            BY <4>0, <6>2
          <6> QED  BY <6>1, <6>2
        <5> QED  BY <5>1, <5>2
      <4>2. c = [w EXCEPT !.sessions = n, !.dragEnabled = e, !.degraded = d]
        BY <3>3 DEF CountSession
      <4> HIDE DEF c, n, e, d
      <4> QED  BY <1>1, <4>1, <4>2 DEF WmValues
    <3> QED  BY <3>1, <3>2, <3>3
  <2>3. DegradeOK(c)
    BY <1>1, <2>1 DEF CountSession, DegradeOK, WmValues, NoMotionLimit
  <2>4. EndDrag(w, m) = v
    BY <1>3 DEF EndDrag
  <2> HIDE DEF c
  <2>5. /\ v \in WmValues
        /\ v.open = c.open /\ v.above = c.above /\ v.fixed = c.fixed
        /\ v.modal = c.modal /\ v.minimized = c.minimized
        /\ v.closing = c.closing /\ v.active = c.active /\ v.lit = c.lit
        /\ v.next = c.next /\ v.dragging = FALSE /\ v.dragWin = NoWindow
        /\ v.dragEnabled = c.dragEnabled /\ v.autoDegrade = c.autoDegrade
        /\ v.degraded = c.degraded /\ v.sessions = c.sessions
    BY <2>2 DEF WmValues
  <2> HIDE DEF v
  <2>6. DragOK(v) /\ DegradeOK(v)
    BY <2>3, <2>5 DEF DragOK, DegradeOK
  <2> QED  BY <2>2, <2>4, <2>5, <2>6, OnlyDragChanges
<1> QED  BY <1>2, <1>3

-----------------------------------------------------------------------------
(***************************************************************************)
(* Only closing and creating change which windows are open.                *)
(***************************************************************************)
LEMMA FlagsKeepOpen ==
  ASSUME NEW w \in WmValues
  PROVE  /\ UpdateActiveFlags(w).open = w.open
         /\ SelectTopmostVisible(w).open = w.open
<1>1. \A v \in WmValues : UpdateActiveFlags(v).open = v.open
  BY DEF UpdateActiveFlags, WmValues
<1>2. SelectTopmostVisible(w).open = w.open
  <2> DEFINE v == [w EXCEPT !.active = Topmost(w, Visible(w))]
  <2>1. v.open = w.open /\ UpdateActiveFlags(v).open = v.open
    BY DEF UpdateActiveFlags, WmValues
  <2> HIDE DEF v
  <2>2. SelectTopmostVisible(w) = UpdateActiveFlags(IF w.active \in Visible(w) THEN w ELSE v)
    BY DEF SelectTopmostVisible, v
  <2> QED  BY <1>1, <2>1, <2>2
<1> QED  BY <1>1, <1>2

\* No function but create and close changes which windows are open.
LEMMA OpenKept ==
  ASSUME NEW w \in WmValues, NEW id, NEW m, NEW onTitle, NEW on
  PROVE  /\ FocusWindow(w, id).open = w.open
         /\ BringToFront(w, id).open = w.open
         /\ CycleFocus(w).open = w.open
         /\ MinimizeWindow(w, id).open = w.open
         /\ RestoreWindow(w, id).open = w.open
         /\ SetDragEnabled(w, on).open = w.open
         /\ SetDragAutoDegrade(w, on).open = w.open
         /\ StartDrag(w, m, id, onTitle).open = w.open
         /\ NoteMotion(w, m).open = w.open
         /\ EndDrag(w, m).open = w.open
<1>1. FocusWindow(w, id).open = w.open
  BY DEF FocusWindow, UpdateActiveFlags, WmValues
<1>2. BringToFront(w, id).open = w.open
  BY DEF BringToFront, WmValues
<1>3. CycleFocus(w).open = w.open
  <2> DEFINE t == CycleTarget(w)
             v == [w EXCEPT !.active = t]
             u == BringToFront(v, t)
  <2>1. v.open = w.open /\ u.open = v.open /\ UpdateActiveFlags(u).open = u.open
    <3> HIDE DEF t
    <3> QED  BY DEF BringToFront, UpdateActiveFlags, WmValues
  <2>2. CycleFocus(w) = w \/ CycleFocus(w) = UpdateActiveFlags(u)
    BY DEF CycleFocus
  <2> QED  BY <2>1, <2>2
<1>4. MinimizeWindow(w, id).open = w.open
  BY FlagsKeepOpen DEF MinimizeWindow, SelectTopmostVisible, UpdateActiveFlags, WmValues
<1>5. RestoreWindow(w, id).open = w.open
  BY DEF RestoreWindow, UpdateActiveFlags, WmValues
<1>6. SetDragEnabled(w, on).open = w.open /\ SetDragAutoDegrade(w, on).open = w.open
  BY DEF SetDragEnabled, SetDragAutoDegrade, WmValues
<1>7. StartDrag(w, m, id, onTitle).open = w.open /\ NoteMotion(w, m).open = w.open
  BY DEF StartDrag, NoteMotion, WmValues
<1>8. EndDrag(w, m).open = w.open
  BY DEF EndDrag, CountSession, WmValues
<1> QED  BY <1>1, <1>2, <1>3, <1>4, <1>5, <1>6, <1>7, <1>8

\* Closing frees just the windows that asked for it.
LEMMA OpenShrinks ==
  ASSUME NEW w \in WmValues, NEW id
  PROVE  /\ CleanupClosed(w).open = w.open \ w.closing
         /\ CleanupClosed(RequestClose(w, id)).open \subseteq w.open
         /\ CloseWindow(w, id).open \subseteq w.open
<1>1. \A v \in WmValues : CleanupClosed(v).open = v.open \ v.closing
  BY DEF CleanupClosed, SelectTopmostVisible, UpdateActiveFlags, WmValues
<1>2. /\ RequestClose(w, id).open = w.open
      /\ CleanupClosed(RequestClose(w, id)).open \subseteq w.open
  BY DEF RequestClose, CleanupClosed, SelectTopmostVisible, UpdateActiveFlags, WmValues
<1> QED  BY <1>1, <1>2 DEF CloseWindow

\* A press raises the window under the pointer and leaves it visible.
LEMMA PressFocusRight ==
  ASSUME NEW w, WmInv(w), NEW m, NEW hit
  PROVE  LET v == PressFocus(w, m, hit)
         IN  /\ WmInv(v) /\ v.open = w.open
             /\ hit \in Visible(w) => hit \in Visible(v)
<1> DEFINE f == FocusWindow(w, hit)
<1>1. WmInv(Raise(w, hit)) /\ WmInv(f)
  BY FocusRight, FrontRight DEF Raise
<1>2. w \in WmValues /\ f \in WmValues /\ w.closing = {} /\ f.closing = {}
  BY <1>1 DEF WmInv, WmTypeOK
<1>3. f.open = w.open /\ Raise(w, hit).open = w.open
  BY <1>2, OpenKept DEF Raise
<1>4. hit \in Visible(w) => hit \notin f.minimized
  BY <1>2 DEF FocusWindow, UpdateActiveFlags, Visible, WmValues
<1>5. hit \in Visible(w) => hit \in Visible(Raise(w, hit))
  <2>1. HalfInv(f)
    BY <1>1, InvParts
  <2>2. /\ Raise(w, hit).minimized = f.minimized
        /\ Raise(w, hit).closing = f.closing
    BY <2>1, RaiseKeeps DEF Raise
  <2> QED  BY <1>2, <1>3, <1>4, <2>2 DEF Visible
<1> QED  BY <1>1, <1>3, <1>5 DEF PressFocus

-----------------------------------------------------------------------------
(***************************************************************************)
(* Which windows are above which others.                                   *)
(***************************************************************************)
\* v keeps the order that w has among the windows of S.
SameOrder(w, v, S) == w.above \cap (S \X S) = v.above \cap (S \X S)

\* No function but the ones that raise a window changes the order.
LEMMA OrderKept ==
  ASSUME NEW w \in WmValues, NEW id, NEW m, NEW onTitle, NEW on
  PROVE  /\ FocusWindow(w, id).above = w.above
         /\ MinimizeWindow(w, id).above = w.above
         /\ RestoreWindow(w, id).above = w.above
         /\ SetDragEnabled(w, on).above = w.above
         /\ SetDragAutoDegrade(w, on).above = w.above
         /\ StartDrag(w, m, id, onTitle).above = w.above
         /\ NoteMotion(w, m).above = w.above
         /\ EndDrag(w, m).above = w.above
         /\ RequestClose(w, id).above = w.above
<1>1. FocusWindow(w, id).above = w.above
  BY DEF FocusWindow, UpdateActiveFlags, WmValues
<1>2. MinimizeWindow(w, id).above = w.above
  BY DEF MinimizeWindow, SelectTopmostVisible, UpdateActiveFlags, WmValues
<1>3. RestoreWindow(w, id).above = w.above
  BY DEF RestoreWindow, UpdateActiveFlags, WmValues
<1>4. SetDragEnabled(w, on).above = w.above /\ SetDragAutoDegrade(w, on).above = w.above
  BY DEF SetDragEnabled, SetDragAutoDegrade, WmValues
<1>5. StartDrag(w, m, id, onTitle).above = w.above /\ NoteMotion(w, m).above = w.above
  BY DEF StartDrag, NoteMotion, WmValues
<1>6. EndDrag(w, m).above = w.above
  BY DEF EndDrag, CountSession, WmValues
<1>7. RequestClose(w, id).above = w.above
  BY DEF RequestClose, WmValues
<1> QED  BY <1>1, <1>2, <1>3, <1>4, <1>5, <1>6, <1>7

\* Raising a window changes no order but its own.
LEMMA OrderRaised ==
  ASSUME NEW w \in WmValues, NEW id, NEW S, id \notin S
  PROVE  SameOrder(w, BringToFront(w, id), S)
<1>1. CASE id \in Visible(w)
  <2> DEFINE order == (w.above \ (w.open \X {id})) \cup ({id} \X (w.open \ {id}))
  <2>1. BringToFront(w, id).above = order
    BY <1>1 DEF BringToFront, WmValues
  <2>2. w.above \cap (S \X S) = order \cap (S \X S)
    OBVIOUS
  <2> QED  BY <2>1, <2>2 DEF SameOrder
<1>2. CASE id \notin Visible(w)
  BY <1>2 DEF BringToFront, SameOrder
<1> QED  BY <1>1, <1>2

\* Freeing windows changes no order among those that stay.
LEMMA OrderCleaned ==
  ASSUME NEW w \in WmValues, NEW S, S \subseteq CleanupClosed(w).open
  PROVE  SameOrder(w, CleanupClosed(w), S)
<1> DEFINE kept == w.open \ w.closing
<1>1. CleanupClosed(w).above = w.above \cap (kept \X kept)
  BY DEF CleanupClosed, SelectTopmostVisible, UpdateActiveFlags, WmValues
<1>2. S \subseteq kept
  BY OpenShrinks
<1> HIDE DEF kept
<1>3. w.above \cap (S \X S) = (w.above \cap (kept \X kept)) \cap (S \X S)
  BY <1>2
<1> QED  BY <1>1, <1>3 DEF SameOrder

\* F6 raises the window it goes to.
LEMMA CycleOrder ==
  ASSUME NEW w \in WmValues, NEW S, CycleTarget(w) \notin S
  PROVE  SameOrder(w, CycleFocus(w), S)
<1> DEFINE t == CycleTarget(w)
           v == [w EXCEPT !.active = t]
           u == BringToFront(v, t)
<1>1. v.above = w.above /\ v.open = w.open /\ Visible(v) = Visible(w)
  <2> HIDE DEF t
  <2> QED  BY DEF WmValues, Visible
<1>2. UpdateActiveFlags(u).above = u.above
  <2> HIDE DEF t
  <2> QED  BY DEF UpdateActiveFlags, BringToFront, WmValues
<1>3. u.above = IF t \in Visible(w)
                  THEN (w.above \ (w.open \X {t})) \cup ({t} \X (w.open \ {t}))
                  ELSE w.above
  <2> HIDE DEF t
  <2> QED  BY <1>1 DEF BringToFront, WmValues, Visible
<1>4. CycleFocus(w) = w \/ CycleFocus(w) = UpdateActiveFlags(u)
  BY DEF CycleFocus
<1> HIDE DEF u, v
<1>5. t \notin S
  OBVIOUS
<1> HIDE DEF t
<1>6. u.above \cap (S \X S) = w.above \cap (S \X S)
  BY <1>3, <1>5
<1> QED  BY <1>2, <1>4, <1>6 DEF SameOrder

\* Nothing that the pointer does closes a window.
LEMMA PointerRight ==
  ASSUME NEW w, WmInv(w), NEW m, NEW hit, NEW onTitle,
         hit \in Visible(w) \cup {NoWindow}
  PROVE  LET v == Pointer(w, m, hit, onTitle) IN WmInv(v) /\ v.open = w.open
<1> DEFINE pressed == PressFocus(w, m, hit)
           held    == StartDrag(pressed, m, hit, onTitle)
           noted   == NoteMotion(held, m)
<1>1. /\ WmInv(pressed) /\ pressed \in WmValues /\ pressed.open = w.open
      /\ hit \in Visible(w) => hit \in Visible(pressed)
  BY PressFocusRight DEF WmInv, WmTypeOK
<1> HIDE DEF pressed
<1>2. WmInv(held) /\ held \in WmValues /\ held.open = w.open
  <2>1. StartsDrag(pressed, m, hit, onTitle) => hit \in Visible(pressed)
    BY <1>1 DEF StartsDrag
  <2> QED  BY <1>1, <2>1, StartDragRight, OpenKept DEF WmInv, WmTypeOK
<1> HIDE DEF held
<1>3. WmInv(noted) /\ noted \in WmValues /\ noted.open = w.open
  BY <1>2, NoteMotionRight, OpenKept DEF WmInv, WmTypeOK
<1> HIDE DEF noted
<1>4. WmInv(EndDrag(noted, m)) /\ EndDrag(noted, m).open = w.open
  BY <1>3, EndDragRight, OpenKept
<1>5. Pointer(w, m, hit, onTitle) = w \/ Pointer(w, m, hit, onTitle) = EndDrag(noted, m)
  BY DEF Pointer, noted, held, pressed
<1> QED  BY <1>4, <1>5

\* The pointer raises the window it presses on.
LEMMA PointerOrder ==
  ASSUME NEW w, WmInv(w), NEW m, NEW hit, NEW onTitle, NEW S, hit \notin S,
         hit \in Visible(w) \cup {NoWindow}
  PROVE  SameOrder(w, Pointer(w, m, hit, onTitle), S)
<1> DEFINE f       == FocusWindow(w, hit)
           pressed == PressFocus(w, m, hit)
           held    == StartDrag(pressed, m, hit, onTitle)
           noted   == NoteMotion(held, m)
<1>1. w \in WmValues
  BY DEF WmInv, WmTypeOK
<1>2. WmInv(f) /\ f \in WmValues /\ f.above = w.above
  BY <1>1, FocusRight, OrderKept DEF WmInv, WmTypeOK
<1>3. WmInv(pressed) /\ pressed \in WmValues /\ (hit \in Visible(w) => hit \in Visible(pressed))
  BY PressFocusRight DEF WmInv, WmTypeOK
<1>4. SameOrder(w, pressed, S)
  <2> HIDE DEF f
  <2>1. SameOrder(f, BringToFront(f, hit), S)
    BY <1>2, OrderRaised
  <2> QED  BY <1>2, <2>1 DEF SameOrder, PressFocus, Raise, f
<1> HIDE DEF pressed
<1>5. held \in WmValues /\ held.above = pressed.above
  <2>1. StartsDrag(pressed, m, hit, onTitle) => hit \in Visible(pressed)
    BY <1>3 DEF StartsDrag
  <2> QED  BY <1>3, <2>1, StartDragRight, OrderKept DEF WmInv, WmTypeOK
<1>6. WmInv(held)
  <2>1. StartsDrag(pressed, m, hit, onTitle) => hit \in Visible(pressed)
    BY <1>3 DEF StartsDrag
  <2> QED  BY <1>3, <2>1, StartDragRight
<1> HIDE DEF held
<1>7. noted \in WmValues /\ noted.above = held.above
  BY <1>5, <1>6, NoteMotionRight, OrderKept DEF WmInv, WmTypeOK
<1> HIDE DEF noted
<1>8. EndDrag(noted, m).above = noted.above
  BY <1>7, OrderKept
<1>9. Pointer(w, m, hit, onTitle) = w \/ Pointer(w, m, hit, onTitle) = EndDrag(noted, m)
  BY DEF Pointer, noted, held, pressed
<1> QED  BY <1>4, <1>5, <1>7, <1>8, <1>9 DEF SameOrder

-----------------------------------------------------------------------------
(***************************************************************************)
(* The focused window is the topmost visible one, and what each operator   *)
(* does to the windows besides.                                            *)
(***************************************************************************)
TopInv(w) == IsTop(w, Visible(w), w.active)

\* v and w have the same windows, with the same places and flags.
SameWindows(v, w) ==
  /\ v.open = w.open /\ v.above = w.above /\ v.fixed = w.fixed
  /\ v.modal = w.modal /\ v.minimized = w.minimized
  /\ v.closing = w.closing /\ v.next = w.next

\* The settings of dragging leave the windows alone.
LEMMA SetDragKeepsWindows ==
  ASSUME NEW w \in WmValues, NEW on
  PROVE  SameWindows(SetDragEnabled(w, on), w) /\ SameWindows(SetDragAutoDegrade(w, on), w)
BY DEF SameWindows, SetDragEnabled, SetDragAutoDegrade, WmValues

\* Being on top is a matter of the windows and the focus only.
LEMMA TopKept ==
  ASSUME NEW v, NEW w, SameWindows(v, w), v.active = w.active
  PROVE  TopInv(w) => TopInv(v)
BY DEF SameWindows, TopInv, IsTop, Visible

\* Redrawing the frames changes neither the windows nor the focus.
LEMMA FlagsSame ==
  ASSUME NEW w \in WmValues
  PROVE  LET v == UpdateActiveFlags(w)
         IN  v \in WmValues /\ SameWindows(v, w) /\ v.active = w.active
<1>1. UpdateActiveFlags(w) = [w EXCEPT !.lit = Visible(w) \cap {w.active}]
  BY DEF UpdateActiveFlags
<1>2. Visible(w) \cap {w.active} \in SUBSET Nat
  BY DEF Visible, WmValues
<1> QED  BY <1>1, <1>2 DEF WmValues, SameWindows

\* The focus moves to the topmost visible window, unless it can stay.
LEMMA SelectTop ==
  ASSUME NEW w \in WmValues, StackOK(w), Visible(w) # {},
         w.active \in Visible(w) => TopInv(w)
  PROVE  LET v == SelectTopmostVisible(w)
         IN  /\ TopInv(v) /\ SameWindows(v, w)
             /\ w.active \in Visible(w) => v.active = w.active
<1> DEFINE v == SelectTopmostVisible(w)
<1>1. CASE w.active \in Visible(w)
  <2>1. v = UpdateActiveFlags(w)
    BY <1>1 DEF SelectTopmostVisible
  <2>2. SameWindows(v, w) /\ v.active = w.active
    BY <2>1, FlagsSame
  <2> HIDE DEF v
  <2> QED  BY <1>1, <2>2, TopKept DEF v
<1>2. CASE w.active \notin Visible(w)
  <2> DEFINE top == Topmost(w, Visible(w))
             u   == [w EXCEPT !.active = top]
  <2>1. IsTop(w, Visible(w), top)
    <3>1. Visible(w) \in SUBSET w.open
      BY DEF Visible
    <3>2. \E i \in Visible(w) : IsTop(w, Visible(w), i)
      BY <3>1 DEF StackOK
    <3> QED  BY <3>2 DEF Topmost
  <2>2. top \in Nat
    BY <2>1 DEF IsTop, Visible, WmValues
  <2> HIDE DEF top
  <2>3. u \in WmValues /\ SameWindows(u, w) /\ u.active = top
    BY <2>2 DEF WmValues, SameWindows
  <2>4. v = UpdateActiveFlags(u)
    BY <1>2 DEF SelectTopmostVisible, top
  <2> HIDE DEF u, v
  <2>5. SameWindows(v, u) /\ v.active = u.active
    BY <2>3, <2>4, FlagsSame
  <2>6. TopInv(u)
    BY <2>1, <2>3 DEF TopInv, IsTop, Visible, SameWindows
  <2>7. TopInv(v)
    BY <2>5, <2>6, TopKept
  <2>8. SameWindows(v, w)
    BY <2>3, <2>5 DEF SameWindows
  <2> QED  BY <1>2, <2>7, <2>8 DEF v
<1> QED  BY <1>1, <1>2

\* Freeing windows that nobody sees any more leaves the focus on top.
LEMMA CleanupTop ==
  ASSUME NEW w, HalfInv(w), Visible(w) # {},
         w.active \in Visible(w) => TopInv(w)
  PROVE  LET v == CleanupClosed(w)
         IN  /\ WmInv(v) /\ TopInv(v) /\ v.next = w.next
             /\ v.open = w.open \ w.closing
             /\ v.fixed = w.fixed \cap v.open
             /\ v.modal = w.modal \cap v.open
             /\ v.minimized = w.minimized \cap v.open
             /\ w.active \in Visible(w) => v.active = w.active
<1> DEFINE kept  == w.open \ w.closing
           above == w.above \cap (kept \X kept)
           fixed == w.fixed \cap kept
           modal == w.modal \cap kept
           mini  == w.minimized \cap kept
           focus == IF w.active \in w.closing THEN NoWindow ELSE w.active
           drags == IF w.dragWin \in w.closing THEN FALSE ELSE w.dragging
           held  == IF w.dragWin \in w.closing THEN NoWindow ELSE w.dragWin
           c     == [w EXCEPT !.open = kept, !.above = above, !.fixed = fixed,
                              !.modal = modal, !.minimized = mini, !.closing = {},
                              !.active = focus, !.dragging = drags,
                              !.dragWin = held]
           v     == CleanupClosed(w)
<1>1. w \in WmValues
  BY DEF HalfInv, HalfType
<1>2. /\ kept \in SUBSET Nat /\ above \in SUBSET (Nat \X Nat)
      /\ fixed \in SUBSET Nat /\ modal \in SUBSET Nat /\ mini \in SUBSET Nat
      /\ focus \in Nat \cup {NoWindow} /\ held \in Nat \cup {NoWindow}
      /\ drags \in BOOLEAN
  BY <1>1 DEF WmValues
<1>3. c \in WmValues
  <2> HIDE DEF kept, above, fixed, modal, mini, focus, drags, held
  <2> QED  BY <1>1, <1>2 DEF WmValues
<1>4. /\ c.open = kept /\ c.above = above /\ c.closing = {} /\ c.fixed = fixed
      /\ c.modal = modal /\ c.minimized = mini /\ c.active = focus
      /\ c.next = w.next
  <2> HIDE DEF kept, above, fixed, modal, mini, focus, drags, held
  <2> QED  BY <1>1 DEF WmValues
<1>5. v = SelectTopmostVisible(c)
  BY DEF CleanupClosed
<1> HIDE DEF c, v
<1>6. StackOK(c)
  BY <1>4, StackShrinks DEF HalfInv
<1>7. Visible(c) = Visible(w)
  BY <1>4 DEF Visible
<1>8. NoWindow \notin Visible(w)
  BY <1>1 DEF Visible, WmValues, NoWindow
<1>9. c.active \in Visible(c) => c.active = w.active
  BY <1>4, <1>7, <1>8
<1>10. w.active \in Visible(w) => c.active = w.active
  BY <1>4 DEF Visible
<1>11. c.active \in Visible(c) => TopInv(c)
  <2> SUFFICES ASSUME c.active \in Visible(c) PROVE TopInv(c)
    OBVIOUS
  <2>1. TopInv(w) /\ c.active = w.active
    BY <1>7, <1>9
  <2>2. Visible(w) \subseteq kept
    BY DEF Visible
  <2> QED  BY <1>4, <1>7, <2>1, <2>2 DEF TopInv, IsTop
<1>12. /\ TopInv(v) /\ SameWindows(v, c)
       /\ c.active \in Visible(c) => v.active = c.active
  BY <1>3, <1>5, <1>6, <1>7, <1>11, SelectTop
<1>13. WmInv(v)
  BY CleanupRight DEF v
<1> QED  BY <1>4, <1>7, <1>10, <1>12, <1>13 DEF SameWindows, v

\* A window that is brought to the front is visible, focused and on top.
LEMMA RaiseTop ==
  ASSUME NEW w, WmInv(w), NEW id \in w.open
  PROVE  LET v == Raise(w, id)
         IN  /\ WmInv(v) /\ TopInv(v) /\ v.active = id /\ v.next = w.next
             /\ v.open = w.open /\ v.fixed = w.fixed /\ v.modal = w.modal
             /\ v.minimized = w.minimized \ {id}
<1> DEFINE f     == FocusWindow(w, id)
           u     == [w EXCEPT !.minimized = @ \ {id}, !.active = id]
           order == (f.above \ (f.open \X {id})) \cup ({id} \X (f.open \ {id}))
           v     == Raise(w, id)
<1>1. w \in WmValues /\ w.closing = {} /\ w.open \subseteq Nat
  BY DEF WmInv, WmTypeOK, WmValues
<1>2. /\ u \in WmValues /\ u.open = w.open /\ u.above = w.above /\ u.fixed = w.fixed
      /\ u.modal = w.modal /\ u.minimized = w.minimized \ {id}
      /\ u.closing = {} /\ u.next = w.next /\ u.active = id
  BY <1>1 DEF WmValues
<1>3. f = UpdateActiveFlags(u)
  BY <1>1 DEF FocusWindow
<1> HIDE DEF u, f
<1>4. SameWindows(f, u) /\ f.active = id /\ f \in WmValues
  BY <1>2, <1>3, FlagsSame
<1>5. id \in Visible(f)
  BY <1>2, <1>4 DEF SameWindows, Visible
<1>6. v = [f EXCEPT !.above = order]
  BY <1>5 DEF Raise, BringToFront, f
<1>7. /\ v.open = f.open /\ v.above = order /\ v.fixed = f.fixed /\ v.modal = f.modal
      /\ v.minimized = f.minimized /\ v.closing = f.closing
      /\ v.active = f.active /\ v.next = f.next
  <2> HIDE DEF v, order
  <2> QED  BY <1>4, <1>6 DEF WmValues
<1>8. WmInv(f)
  BY FocusRight DEF f
<1>9. WmInv(v)
  BY <1>8, FrontRight DEF Raise, f
<1> HIDE DEF v
<1>10. TopInv(v)
  BY <1>4, <1>5, <1>7 DEF TopInv, IsTop, Visible
<1> QED  BY <1>2, <1>4, <1>7, <1>9, <1>10 DEF SameWindows, v

\* Nothing happens to a window that is not open.
LEMMA RaiseNothing ==
  ASSUME NEW w, NEW id, id \notin w.open
  PROVE  Raise(w, id) = w
BY DEF Raise, FocusWindow, BringToFront, Visible

\* A new window is visible, focused and on top.
LEMMA CreateTop ==
  ASSUME NEW w, WmInv(w), NEW isFixed \in BOOLEAN, NEW isModal \in BOOLEAN
  PROVE  LET v == CreateWindow(w, isFixed, isModal)
         IN  /\ WmInv(v) /\ TopInv(v) /\ v.active = w.next /\ v.next = w.next + 1
             /\ v.open = w.open \cup {w.next}
             /\ v.fixed = w.fixed \cup (IF isFixed THEN {w.next} ELSE {})
             /\ v.modal = w.modal \cup (IF isModal THEN {w.next} ELSE {})
             /\ v.minimized = w.minimized
<1> DEFINE id    == w.next
           open  == w.open \cup {id}
           above == w.above \cup ({id} \X w.open)
           fixed == IF isFixed THEN w.fixed \cup {id} ELSE w.fixed
           modal == IF isModal THEN w.modal \cup {id} ELSE w.modal
           u     == [w EXCEPT !.open = open, !.above = above, !.fixed = fixed,
                              !.modal = modal, !.active = id, !.next = id + 1]
           v     == CreateWindow(w, isFixed, isModal)
<1>1. /\ w \in WmValues /\ w.closing = {} /\ w.open \subseteq Nat
      /\ w.open \subseteq 1 .. w.next - 1 /\ w.minimized \subseteq w.open
  BY DEF WmInv, WmTypeOK, WmValues
<1>2. /\ id \in Nat \ {0} /\ id + 1 \in Nat \ {0} /\ id \notin w.open
      /\ open \in SUBSET Nat /\ above \in SUBSET (Nat \X Nat)
      /\ fixed \in SUBSET Nat /\ modal \in SUBSET Nat
  BY <1>1 DEF WmValues
<1>3. /\ u \in WmValues /\ u.open = open /\ u.above = above /\ u.fixed = fixed
      /\ u.modal = modal /\ u.minimized = w.minimized /\ u.closing = {}
      /\ u.active = id /\ u.next = id + 1
  <2> HIDE DEF id, open, above, fixed, modal
  <2> QED  BY <1>1, <1>2 DEF WmValues
<1>4. v = UpdateActiveFlags(u)
  BY DEF CreateWindow
<1> HIDE DEF u, v
<1>5. SameWindows(v, u) /\ v.active = id
  BY <1>3, <1>4, FlagsSame
<1>6. TopInv(v)
  <2>1. id \in Visible(v)
    BY <1>1, <1>2, <1>3, <1>5 DEF SameWindows, Visible
  <2>2. \A j \in Visible(v) \ {id} : <<id, j>> \in v.above
    BY <1>3, <1>5 DEF SameWindows, Visible
  <2> QED  BY <1>5, <2>1, <2>2 DEF TopInv, IsTop
<1>7. WmInv(v)
  BY CreateRight DEF v
<1> QED  BY <1>3, <1>5, <1>6, <1>7 DEF SameWindows, v

\* A window that cannot be created only costs its id.
LEMMA CreateFailsTop ==
  ASSUME NEW w, WmInv(w)
  PROVE  LET v == CreateFails(w)
         IN  /\ WmInv(v) /\ v.next = w.next + 1 /\ v.active = w.active
             /\ v.open = w.open /\ v.fixed = w.fixed /\ v.modal = w.modal
             /\ v.minimized = w.minimized
             /\ TopInv(w) => TopInv(v)
<1> DEFINE v == CreateFails(w)
<1>1. w \in WmValues
  BY DEF WmInv, WmTypeOK
<1>2. /\ v.open = w.open /\ v.above = w.above /\ v.fixed = w.fixed
      /\ v.modal = w.modal /\ v.minimized = w.minimized /\ v.closing = w.closing
      /\ v.active = w.active /\ v.next = w.next + 1
  BY <1>1 DEF CreateFails, WmValues
<1>3. WmInv(v)
  BY CreateFailsRight
<1> HIDE DEF v
<1> QED  BY <1>2, <1>3 DEF TopInv, IsTop, Visible, v

(***************************************************************************)
(* Several windows closed at once: what is left stays in order, and the    *)
(* focus stays where it is unless that window goes.                        *)
(***************************************************************************)
LEMMA CloseTop ==
  ASSUME NEW w, WmInv(w), TopInv(w), NEW S \in SUBSET w.open, Visible(w) \ S # {}
  PROVE  LET u == [w EXCEPT !.closing = @ \cup S]
             v == CleanupClosed(u)
         IN  /\ WmInv(v) /\ TopInv(v) /\ v.next = w.next
             /\ v.open = w.open \ S
             /\ v.fixed = w.fixed \ S
             /\ v.modal = w.modal \ S
             /\ v.minimized = w.minimized \ S
             /\ w.active \notin S => v.active = w.active
<1> DEFINE u == [w EXCEPT !.closing = @ \cup S]
           v == CleanupClosed(u)
<1>1. /\ w \in WmValues /\ HalfInv(w) /\ w.closing = {}
      /\ w.fixed \cup w.modal \cup w.minimized \subseteq w.open
  BY InvParts DEF WmInv, WmTypeOK
<1>2. S \in SUBSET Nat
  BY <1>1 DEF WmValues
<1>3. /\ u \in WmValues /\ u = [w EXCEPT !.closing = u.closing] /\ u.closing = S
  BY <1>1, <1>2 DEF WmValues
<1>4. /\ u.open = w.open /\ u.above = w.above /\ u.fixed = w.fixed
      /\ u.modal = w.modal /\ u.minimized = w.minimized /\ u.next = w.next
      /\ u.active = w.active /\ u.dragWin = w.dragWin /\ u.dragging = w.dragging
      /\ u.dragEnabled = w.dragEnabled /\ u.autoDegrade = w.autoDegrade
      /\ u.degraded = w.degraded /\ u.sessions = w.sessions
  BY <1>1 DEF WmValues
<1> HIDE DEF u
<1>5. StackOK(u)
  BY <1>1, <1>4, SameStack DEF HalfInv
<1>6. HalfInv(u)
  BY <1>1, <1>3, <1>4, <1>5 DEF HalfInv, HalfType, DegradeOK
<1>7. Visible(u) = Visible(w) \ S
  BY <1>1, <1>3, <1>4 DEF Visible
<1>8. u.active \in Visible(u) => TopInv(u)
  BY <1>4, <1>7 DEF TopInv, IsTop
<1>9. /\ WmInv(v) /\ TopInv(v) /\ v.next = u.next
      /\ v.open = u.open \ u.closing
      /\ v.fixed = u.fixed \cap v.open
      /\ v.modal = u.modal \cap v.open
      /\ v.minimized = u.minimized \cap v.open
      /\ u.active \in Visible(u) => v.active = u.active
  BY <1>6, <1>7, <1>8, CleanupTop
<1>10. w.active \in Visible(w)
  BY DEF TopInv, IsTop
<1> HIDE DEF v
<1> QED  BY <1>1, <1>3, <1>4, <1>7, <1>9, <1>10 DEF u, v

\* A window that asked to be closed, and one that is closed, is gone.
LEMMA CloseOneTop ==
  ASSUME NEW w, WmInv(w), TopInv(w), NEW id \in w.open, Visible(w) \ {id} # {}
  PROVE  LET v == CloseWindow(w, id)
         IN  /\ v = CleanupClosed(RequestClose(w, id))
             /\ WmInv(v) /\ TopInv(v) /\ v.next = w.next
             /\ v.open = w.open \ {id}
             /\ v.fixed = w.fixed \ {id}
             /\ v.modal = w.modal \ {id}
             /\ v.minimized = w.minimized \ {id}
             /\ w.active # id => v.active = w.active
<1>1. /\ CloseWindow(w, id) = CleanupClosed(RequestClose(w, id))
      /\ RequestClose(w, id) = [w EXCEPT !.closing = @ \cup {id}]
  BY DEF CloseWindow, RequestClose
<1> DEFINE S == {id}
           u == [w EXCEPT !.closing = @ \cup S]
           v == CleanupClosed(u)
<1>2. S \in SUBSET w.open
  OBVIOUS
<1> HIDE DEF S
<1>3. Visible(w) \ S # {}
  BY DEF S
<1>4. /\ WmInv(v) /\ TopInv(v) /\ v.next = w.next
      /\ v.open = w.open \ S
      /\ v.fixed = w.fixed \ S
      /\ v.modal = w.modal \ S
      /\ v.minimized = w.minimized \ S
      /\ w.active \notin S => v.active = w.active
  BY <1>2, <1>3, CloseTop
<1>5. u = RequestClose(w, id)
  BY <1>1 DEF S
<1> HIDE DEF u
<1> QED  BY <1>1, <1>4, <1>5 DEF S

\* Without a request nothing is freed.
LEMMA CleanupNothing ==
  ASSUME NEW w, WmInv(w), TopInv(w)
  PROVE  LET v == CleanupClosed(w)
         IN  /\ WmInv(v) /\ TopInv(v) /\ v.next = w.next /\ v.active = w.active
             /\ v.open = w.open /\ v.fixed = w.fixed /\ v.modal = w.modal
             /\ v.minimized = w.minimized
<1>1. /\ w \in WmValues /\ HalfInv(w) /\ w.closing = {}
      /\ w.fixed \cup w.modal \cup w.minimized \subseteq w.open
  BY InvParts DEF WmInv, WmTypeOK
<1>2. w.active \in Visible(w)
  BY DEF TopInv, IsTop
<1> DEFINE v == CleanupClosed(w)
<1>3. /\ WmInv(v) /\ TopInv(v) /\ v.next = w.next
      /\ v.open = w.open \ w.closing
      /\ v.fixed = w.fixed \cap v.open
      /\ v.modal = w.modal \cap v.open
      /\ v.minimized = w.minimized \cap v.open
      /\ v.active = w.active
  BY <1>1, <1>2, CleanupTop
<1> HIDE DEF v
<1> QED  BY <1>1, <1>3 DEF v

\* F6 changes the focus and the order only, and focuses the window it raises.
LEMMA CycleTop ==
  ASSUME NEW w, WmInv(w), TopInv(w)
  PROVE  LET v == CycleFocus(w)
         IN  /\ WmInv(v) /\ TopInv(v) /\ v.next = w.next
             /\ v.open = w.open /\ v.fixed = w.fixed /\ v.modal = w.modal
             /\ v.minimized = w.minimized
<1> DEFINE t     == CycleTarget(w)
           moves == ~ \/ Cardinality(w.open) < 2
                      \/ TopmostModal(w) # NoWindow
                      \/ t \in {NoWindow, w.active}
           a     == [w EXCEPT !.active = t]
           order == (a.above \ (a.open \X {t})) \cup ({t} \X (a.open \ {t}))
           u     == BringToFront(a, t)
           v     == CycleFocus(w)
<1>1. w \in WmValues /\ w.open \subseteq Nat /\ StackOK(w)
  BY DEF WmInv, WmTypeOK, WmValues
<1>2. WmInv(v)
  BY CycleRight
<1>3. CASE ~moves
  BY <1>2, <1>3 DEF CycleFocus
<1>4. CASE moves
  <2>1. t \in Visible(w)
    <3> DEFINE from   == IF w.active \in w.open THEN w.active ELSE Topmost(w, w.open)
               higher == {i \in Focusable(w) : <<i, from>> \in w.above}
               among  == IF higher # {} THEN higher ELSE Focusable(w)
    <3>1. t = Bottommost(w, among) /\ t # NoWindow
      BY <1>4 DEF CycleTarget
    <3>2. among \subseteq Visible(w) /\ among \subseteq w.open
      BY DEF Focusable, Visible
    <3> HIDE DEF among, t
    <3> QED  BY <1>1, <3>1, <3>2, TopmostIn
  <2>2. t \in Nat
    BY <1>1, <2>1 DEF Visible
  <2> HIDE DEF t
  <2>3. /\ a \in WmValues /\ a.open = w.open /\ a.above = w.above /\ a.fixed = w.fixed
        /\ a.modal = w.modal /\ a.minimized = w.minimized
        /\ a.closing = w.closing /\ a.next = w.next /\ a.active = t
    BY <1>1, <2>2 DEF WmValues
  <2> HIDE DEF a
  <2>4. t \in Visible(a)
    BY <2>1, <2>3 DEF Visible
  <2>5. order \in SUBSET (Nat \X Nat)
    BY <2>2, <2>3 DEF WmValues
  <2>6. u = [a EXCEPT !.above = order]
    BY <2>4 DEF BringToFront
  <2>7. /\ u \in WmValues /\ u.open = a.open /\ u.above = order /\ u.fixed = a.fixed
        /\ u.modal = a.modal /\ u.minimized = a.minimized
        /\ u.closing = a.closing /\ u.next = a.next /\ u.active = a.active
    <3> HIDE DEF order, u
    <3> QED  BY <2>3, <2>5, <2>6 DEF WmValues
  <2>8. v = UpdateActiveFlags(u)
    BY <1>4 DEF CycleFocus, t, a
  <2> HIDE DEF u, v
  <2>9. SameWindows(v, u) /\ v.active = u.active
    BY <2>7, <2>8, FlagsSame
  <2>10. TopInv(v)
    BY <2>3, <2>4, <2>7, <2>9 DEF SameWindows, TopInv, IsTop, Visible
  <2> QED  BY <1>2, <2>3, <2>7, <2>9, <2>10 DEF SameWindows, v
<1> QED  BY <1>3, <1>4

\* Minimizing the window with the focus gives it to the one below.
LEMMA MinimizeTop ==
  ASSUME NEW w, WmInv(w), TopInv(w), NEW id, Visible(w) \ {id} # {}
  PROVE  LET v == MinimizeWindow(w, id)
         IN  /\ WmInv(v) /\ TopInv(v) /\ v.next = w.next
             /\ v.open = w.open /\ v.fixed = w.fixed /\ v.modal = w.modal
             /\ v.minimized = w.minimized \/ v.minimized = w.minimized \cup {id}
             /\ v.minimized \cap w.fixed \subseteq w.minimized
             /\ w.active # id => v.active = w.active
<1> DEFINE hidden == w.minimized \cup {id}
           focus  == IF w.active = id THEN NoWindow ELSE w.active
           drags  == IF w.dragWin = id THEN FALSE ELSE w.dragging
           held   == IF w.dragWin = id THEN NoWindow ELSE w.dragWin
           moved  == IF w.dragWin = id THEN FALSE ELSE w.dragMoved
           u      == [w EXCEPT !.minimized = hidden, !.active = focus,
                               !.dragging = drags, !.dragWin = held,
                               !.dragMoved = moved]
           v      == MinimizeWindow(w, id)
<1>1. /\ w \in WmValues /\ w.closing = {} /\ StackOK(w) /\ WmInv(v)
  BY MinimizeRight DEF WmInv, WmTypeOK
<1>2. CASE ~CanMinimize(w, id)
  BY <1>1, <1>2 DEF MinimizeWindow
<1>3. CASE CanMinimize(w, id)
  <2>1. /\ id \in w.open /\ id \notin w.fixed
        /\ hidden \in SUBSET Nat
        /\ focus \in Nat \cup {NoWindow} /\ held \in Nat \cup {NoWindow}
        /\ drags \in BOOLEAN /\ moved \in BOOLEAN
    BY <1>1, <1>3 DEF WmValues, CanMinimize
  <2>2. /\ u \in WmValues
        /\ u.open = w.open /\ u.above = w.above /\ u.fixed = w.fixed
        /\ u.modal = w.modal /\ u.closing = w.closing /\ u.next = w.next
        /\ u.minimized = hidden /\ u.active = focus
    <3> HIDE DEF hidden, focus, drags, held, moved
    <3> QED  BY <1>1, <2>1 DEF WmValues
  <2>3. v = SelectTopmostVisible(u)
    BY <1>3 DEF MinimizeWindow
  <2> HIDE DEF u, v
  <2>4. StackOK(u)
    BY <1>1, <2>2, SameStack
  <2>5. Visible(u) = Visible(w) \ {id}
    BY <2>2 DEF Visible
  <2>6. u.active \in Visible(u) => TopInv(u)
    <3>1. NoWindow \notin Visible(u)
      BY <2>2 DEF Visible, WmValues, NoWindow
    <3>2. u.active \in Visible(u) => u.active = w.active
      BY <2>2, <3>1
    <3> QED  BY <2>2, <2>5, <3>2 DEF TopInv, IsTop
  <2>7. /\ TopInv(v) /\ SameWindows(v, u)
        /\ u.active \in Visible(u) => v.active = u.active
    BY <2>2, <2>3, <2>4, <2>5, <2>6, SelectTop
  <2>8. w.active # id => u.active = w.active /\ u.active \in Visible(u)
    BY <2>2, <2>5 DEF TopInv, IsTop
  <2>9. v.minimized \cap w.fixed \subseteq w.minimized
    BY <2>1, <2>2, <2>7 DEF SameWindows
  <2> QED  BY <1>1, <2>2, <2>7, <2>8, <2>9 DEF SameWindows, v
<1> QED  BY <1>2, <1>3

(***************************************************************************)
(* The mouse changes no window's flags, and leaves the focus on top.       *)
(***************************************************************************)
LEMMA DragKeepsWindows ==
  ASSUME NEW w \in WmValues, NEW m, NEW hit, NEW onTitle
  PROVE  /\ SameWindows(StartDrag(w, m, hit, onTitle), w)
         /\ StartDrag(w, m, hit, onTitle).active = w.active
         /\ SameWindows(NoteMotion(w, m), w) /\ NoteMotion(w, m).active = w.active
         /\ SameWindows(EndDrag(w, m), w) /\ EndDrag(w, m).active = w.active
<1>1. /\ SameWindows(StartDrag(w, m, hit, onTitle), w)
      /\ StartDrag(w, m, hit, onTitle).active = w.active
  BY DEF StartDrag, SameWindows, WmValues
<1>2. SameWindows(NoteMotion(w, m), w) /\ NoteMotion(w, m).active = w.active
  BY DEF NoteMotion, SameWindows, WmValues
<1>3. SameWindows(EndDrag(w, m), w) /\ EndDrag(w, m).active = w.active
  BY DEF EndDrag, CountSession, SameWindows, WmValues
<1> QED  BY <1>1, <1>2, <1>3

\* A press on a visible window raises it and does nothing else.
LEMMA PointerTop ==
  ASSUME NEW w, WmInv(w), TopInv(w), NEW m, NEW hit, NEW onTitle,
         hit \in Visible(w) \cup {NoWindow}
  PROVE  LET v == Pointer(w, m, hit, onTitle)
         IN  /\ WmInv(v) /\ TopInv(v) /\ v.next = w.next
             /\ v.open = w.open /\ v.fixed = w.fixed /\ v.modal = w.modal
             /\ v.minimized = w.minimized
<1> DEFINE pressed == PressFocus(w, m, hit)
           held    == StartDrag(pressed, m, hit, onTitle)
           noted   == NoteMotion(held, m)
           ended   == EndDrag(noted, m)
           v       == Pointer(w, m, hit, onTitle)
<1>1. /\ WmInv(pressed) /\ TopInv(pressed) /\ pressed.next = w.next
      /\ pressed.open = w.open /\ pressed.fixed = w.fixed
      /\ pressed.modal = w.modal /\ pressed.minimized = w.minimized
      /\ hit \in Visible(w) => hit \in Visible(pressed)
  <2>1. CASE hit # NoWindow /\ {"pressed", "clicked"} \cap m # {}
    <3>1. hit \in w.open /\ hit \notin w.minimized
      BY <2>1 DEF Visible
    <3>2. pressed = Raise(w, hit)
      BY <2>1 DEF PressFocus
    <3>3. /\ WmInv(pressed) /\ TopInv(pressed) /\ pressed.active = hit
          /\ pressed.next = w.next /\ pressed.open = w.open
          /\ pressed.fixed = w.fixed /\ pressed.modal = w.modal
          /\ pressed.minimized = w.minimized \ {hit}
      BY <3>1, <3>2, RaiseTop
    <3> QED  BY <3>1, <3>3 DEF TopInv, IsTop
  <2>2. CASE ~(hit # NoWindow /\ {"pressed", "clicked"} \cap m # {})
    BY <2>2 DEF PressFocus
  <2> QED  BY <2>1, <2>2
<1> HIDE DEF pressed
<1>2. WmInv(held)
  <2>1. StartsDrag(pressed, m, hit, onTitle) => hit \in Visible(pressed)
    BY <1>1 DEF StartsDrag
  <2> QED  BY <1>1, <2>1, StartDragRight
<1>3. pressed \in WmValues /\ held \in WmValues
  BY <1>1, <1>2 DEF WmInv, WmTypeOK
<1>4. SameWindows(held, pressed) /\ held.active = pressed.active
  BY <1>3, DragKeepsWindows
<1> HIDE DEF held
<1>5. WmInv(noted)
  BY <1>2, NoteMotionRight
<1>6. SameWindows(noted, held) /\ noted.active = held.active /\ noted \in WmValues
  BY <1>3, <1>5, DragKeepsWindows DEF WmInv, WmTypeOK
<1> HIDE DEF noted
<1>7. SameWindows(ended, noted) /\ ended.active = noted.active /\ WmInv(ended)
  BY <1>5, <1>6, DragKeepsWindows, EndDragRight
<1>8. v = w \/ v = ended
  BY DEF Pointer, ended, noted, held, pressed
<1> HIDE DEF ended
<1>9. SameWindows(ended, pressed) /\ ended.active = pressed.active
  BY <1>4, <1>6, <1>7 DEF SameWindows
<1>10. TopInv(ended)
  BY <1>1, <1>9, TopKept
<1> HIDE DEF v
<1> QED  BY <1>1, <1>7, <1>8, <1>9, <1>10 DEF SameWindows, v

=============================================================================
