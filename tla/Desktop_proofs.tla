--------------------------- MODULE Desktop_proofs ---------------------------
(***************************************************************************)
(* Proofs about the desktop, for every set of registered apps, every mouse *)
(* and any number of windows.                                              *)
(***************************************************************************)
EXTENDS Desktop, WmOps_proofs, WellFoundedInduction

-----------------------------------------------------------------------------
(***************************************************************************)
(* One app.  What is true of an app between two events: only a Notepad has *)
(* unsaved work, its flag tells, and a pending request shows a way to      *)
(* decide about it.                                                        *)
(***************************************************************************)
AppOK(a) ==
  /\ a \in App
  /\ a.dirty => a.kind = "notepad" /\ ~a.forced
  /\ a.unsaved => a.dirty \/ a.forced
  /\ a.pending => ~a.requested /\ (a.prompt \/ (a.saveAs /\ a.closeAfter))

\* A new app has nothing to save and was not asked to close.
LEMMA NewAppRight ==
  ASSUME NEW kind \in Kinds, NEW hasPath \in BOOLEAN
  PROVE  LET a == NewApp(kind, hasPath)
         IN  AppOK(a) /\ ~a.requested /\ CanClose(a)
BY DEF NewApp, AppOK, App, Results, CanClose

\* A request to close is granted, or leaves the prompt on the screen.
LEMMA RequestRight ==
  ASSUME NEW a, AppOK(a)
  PROVE  LET r == RequestAppClose(a)
         IN  /\ AppOK(r)
             /\ CanClose(r) <=> CanClose(a)
             /\ CanClose(a) => r.requested /\ ~r.pending
             /\ ~CanClose(a) => r.pending /\ ~r.requested
BY DEF RequestAppClose, AppOK, App, Results, CanClose

\* An app that is no longer asked to close can be asked again.
LEMMA ResetRight ==
  ASSUME NEW a, AppOK(a)
  PROVE  LET r == ResetCloseRequest(a)
         IN  AppOK(r) /\ ~r.requested /\ (CanClose(r) <=> CanClose(a))
BY DEF ResetCloseRequest, AppOK, App, Results, CanClose

\* Answering a pending request withdraws it.
LEMMA ResolveRight ==
  ASSUME NEW a \in App, NEW result \in Results
  PROVE  LET r == ResolveClose(a, result)
         IN  /\ r \in App /\ ~r.pending
             /\ r.kind = a.kind /\ r.unsaved = a.unsaved /\ r.dirty = a.dirty
             /\ r.forced = a.forced /\ r.prompt = a.prompt /\ r.saveAs = a.saveAs
             /\ r.closeAfter = a.closeAfter /\ r.hasPath = a.hasPath
             /\ ~a.pending => r.requested = a.requested
<1> DEFINE r == ResolveClose(a, result)
<1>1. CASE ~a.pending
  BY <1>1 DEF ResolveClose
<1>2. CASE a.pending
  <2> DEFINE yes == result = "allowed"
  <2>1. r = [a EXCEPT !.pending = FALSE, !.result = result, !.requested = yes]
    BY <1>2 DEF ResolveClose
  <2>2. yes \in BOOLEAN /\ FALSE \in BOOLEAN
    OBVIOUS
  <2> HIDE DEF r, yes
  <2>3. r \in App
    BY <2>1, <2>2 DEF App
  <2>4. /\ ~r.pending
        /\ r.kind = a.kind /\ r.unsaved = a.unsaved /\ r.dirty = a.dirty
        /\ r.forced = a.forced /\ r.prompt = a.prompt /\ r.saveAs = a.saveAs
        /\ r.closeAfter = a.closeAfter /\ r.hasPath = a.hasPath
    BY <2>1 DEF App
  <2> QED  BY <1>2, <2>3, <2>4 DEF r
<1> QED  BY <1>1, <1>2

\* Finishing the close of an app whose work is saved or discarded.
LEMMA FinishCloseRight ==
  ASSUME NEW a \in App, ~a.dirty
  PROVE  LET r == FinishClose(a)
         IN  AppOK(r) /\ (~a.pending => r.requested = a.requested)
<1> DEFINE b == [a EXCEPT !.prompt = FALSE, !.closeAfter = FALSE, !.forced = TRUE]
<1>1. /\ b \in App /\ b.forced /\ b.pending = a.pending /\ b.requested = a.requested
      /\ b.dirty = a.dirty /\ b.unsaved = a.unsaved /\ b.kind = a.kind
  BY DEF App
<1>2. FinishClose(a) = ResolveClose(b, "allowed") /\ "allowed" \in Results
  BY DEF FinishClose, Results
<1> HIDE DEF b
<1> QED  BY <1>1, <1>2, ResolveRight DEF AppOK

(***************************************************************************)
(* No key breaks what is true of an app, and none withdraws the consent of *)
(* an app that agreed to close.                                            *)
(***************************************************************************)
LEMMA PromptKeyRight ==
  ASSUME NEW a, AppOK(a), NEW b \in PromptKey(a)
  PROVE  AppOK(b) /\ (a.requested => b.requested)
<1>1. a \in App
  BY DEF AppOK
<1>2. CASE b = a
  BY <1>2
<1>3. CASE b = CancelPrompt(a)
  <2> DEFINE c == [a EXCEPT !.prompt = FALSE, !.closeAfter = FALSE]
  <2>1. /\ c \in App /\ c.pending = a.pending /\ c.requested = a.requested
        /\ c.dirty = a.dirty /\ c.unsaved = a.unsaved /\ c.forced = a.forced
        /\ c.kind = a.kind
    BY <1>1 DEF App
  <2>2. b = ResolveClose(c, "cancelled") /\ "cancelled" \in Results
    BY <1>3 DEF CancelPrompt, Results
  <2> HIDE DEF c
  <2> QED  BY <2>1, <2>2, ResolveRight DEF AppOK
<1>4. CASE b = Discard(a)
  <2> DEFINE c == [a EXCEPT !.dirty = FALSE]
  <2>1. /\ c \in App /\ ~c.dirty /\ c.pending = a.pending /\ c.requested = a.requested
    BY <1>1 DEF App
  <2>2. b = FinishClose(c)
    BY <1>4 DEF Discard
  <2> HIDE DEF c
  <2> QED  BY <2>1, <2>2, FinishCloseRight DEF AppOK
<1>5. CASE b = FinishClose(Saved(a))
  <2> DEFINE c == Saved(a)
  <2>1. /\ c \in App /\ ~c.dirty /\ c.pending = a.pending /\ c.requested = a.requested
    BY <1>1 DEF App, Saved
  <2> HIDE DEF c
  <2> QED  BY <1>5, <2>1, FinishCloseRight DEF AppOK, c
<1>6. CASE b = [a EXCEPT !.prompt = FALSE, !.saveAs = TRUE, !.closeAfter = TRUE]
  BY <1>1, <1>6 DEF AppOK, App
<1> QED  BY <1>2, <1>3, <1>4, <1>5, <1>6 DEF PromptKey, SaveFromPrompt

\* Leaving Save As withdraws the request it was opened for.
LEMMA LeaveSaveAsRight ==
  ASSUME NEW a, AppOK(a), ~a.prompt, a.saveAs, NEW result \in Results
  PROVE  LET r == LeaveSaveAs(a, result)
         IN  AppOK(r) /\ (a.requested => r.requested)
<1> DEFINE left == [a EXCEPT !.saveAs = FALSE, !.closeAfter = FALSE]
<1>1. /\ left \in App /\ left.pending = a.pending /\ left.requested = a.requested
      /\ left.dirty = a.dirty /\ left.unsaved = a.unsaved /\ left.forced = a.forced
      /\ left.kind = a.kind /\ a.closeAfter \in BOOLEAN
  BY DEF AppOK, App
<1>2. LeaveSaveAs(a, result) = IF a.closeAfter THEN ResolveClose(left, result) ELSE left
  BY DEF LeaveSaveAs
<1> HIDE DEF left
<1>3. CASE a.closeAfter
  BY <1>1, <1>2, <1>3, ResolveRight DEF AppOK
<1>4. CASE ~a.closeAfter
  BY <1>1, <1>2, <1>4 DEF AppOK
<1> QED  BY <1>3, <1>4

\* The same in Save As.
LEMMA SaveAsKeyRight ==
  ASSUME NEW a, AppOK(a), ~a.prompt, a.saveAs, NEW b \in SaveAsKey(a)
  PROVE  AppOK(b) /\ (a.requested => b.requested)
<1>1. a \in App /\ "cancelled" \in Results
  BY DEF AppOK, Results
<1>2. CASE b = a
  BY <1>2
<1>3. CASE b = LeaveSaveAs(a, "cancelled")
  BY <1>1, <1>3, LeaveSaveAsRight
<1>4. CASE b = SaveAsFails(a)
  <2> DEFINE c == [a EXCEPT !.hasPath = TRUE]
  <2>1. /\ AppOK(c) /\ ~c.prompt /\ c.saveAs /\ c.requested = a.requested
    BY <1>1 DEF AppOK, App
  <2>2. b = LeaveSaveAs(c, "cancelled")
    BY <1>4 DEF SaveAsFails
  <2> HIDE DEF c
  <2> QED  BY <1>1, <2>1, <2>2, LeaveSaveAsRight
<1>5. CASE b = SaveAsDone(a)
  <2> DEFINE named == Saved([a EXCEPT !.hasPath = TRUE, !.saveAs = FALSE])
  <2>1. /\ named \in App /\ ~named.dirty /\ ~named.unsaved
        /\ named.pending = a.pending /\ named.requested = a.requested
        /\ a.closeAfter \in BOOLEAN
    BY <1>1 DEF App, Saved
  <2>2. b = IF a.closeAfter THEN FinishClose(named) ELSE named
    BY <1>5 DEF SaveAsDone
  <2> HIDE DEF named
  <2>3. CASE a.closeAfter
    BY <2>1, <2>2, <2>3, FinishCloseRight DEF AppOK
  <2>4. CASE ~a.closeAfter
    BY <2>1, <2>2, <2>4 DEF AppOK
  <2> QED  BY <2>3, <2>4
<1> QED  BY <1>2, <1>3, <1>4, <1>5 DEF SaveAsKey

\* The same in the text, and in the other apps.
LEMMA AppKeyRight ==
  ASSUME NEW a, AppOK(a), NEW b \in AppKey(a)
  PROVE  AppOK(b) /\ (a.requested => b.requested)
<1>1. a \in App /\ a.kind \in Kinds
  BY DEF AppOK, App
<1>2. CASE a.kind # "notepad"
  <2>1. b = a \/ b = RequestAppClose(a)
    BY <1>2 DEF AppKey
  <2>2. CanClose(a)
    BY <1>2 DEF AppOK, CanClose
  <2> QED  BY <2>1, <2>2, RequestRight
<1>3. CASE a.kind = "notepad" /\ a.prompt
  BY <1>3, PromptKeyRight DEF AppKey, NotepadKey
<1>4. CASE a.kind = "notepad" /\ ~a.prompt /\ a.saveAs
  BY <1>4, SaveAsKeyRight DEF AppKey, NotepadKey
<1>5. CASE a.kind = "notepad" /\ ~a.prompt /\ ~a.saveAs
  <2>1. /\ b \in EditorKey(a) /\ ~a.pending
    BY <1>5 DEF AppKey, NotepadKey, AppOK
  <2>2. CASE b = a
    BY <2>2
  <2>3. ASSUME NEW u \in BOOLEAN, NEW d \in BOOLEAN, u => d, b = Edited(a, u, d)
        PROVE  AppOK(b) /\ (a.requested => b.requested)
    BY <1>1, <1>5, <2>1, <2>3 DEF Edited, AppOK, App
  <2>4. CASE b = AskPath(a)
    BY <1>1, <2>1, <2>4 DEF AskPath, AppOK, App
  <2>5. CASE b = Saved([a EXCEPT !.closeAfter = FALSE])
    BY <1>1, <2>1, <2>5 DEF Saved, AppOK, App
  <2> QED  BY <2>1, <2>2, <2>3, <2>4, <2>5 DEF EditorKey
<1> QED  BY <1>2, <1>3, <1>4, <1>5

-----------------------------------------------------------------------------
(***************************************************************************)
(* The order of the apps.                                                  *)
(***************************************************************************)
\* Of any apps there is a first one.
LEMMA FirstRight ==
  ASSUME NEW S \in SUBSET Nat, S # {}
  PROVE  First(S) \in S /\ \A j \in S : First(S) <= j
<1> DEFINE R == OpToRel(<, Nat)
<1>1. \A x, y \in Nat : x < y => <<x, y>> \in R
  BY DEF OpToRel
<1>2. IsWellFoundedOn(R, Nat)
  BY NatLessThanWellFounded
<1> HIDE DEF R
<1>3. PICK x \in S : \A y \in S : ~(<<y, x>> \in R)
  BY <1>2, WFMin
<1>4. \A y \in S : x <= y
  <2> TAKE y \in S
  <2>1. x \in Nat /\ y \in Nat
    OBVIOUS
  <2>2. ~(y < x)
    BY <1>1, <1>3, <2>1
  <2> QED  BY <2>1, <2>2
<1> QED  BY <1>4 DEF First

\* The place of an app is the number of apps before it.
LEMMA PositionRight ==
  ASSUME NEW d, Running(d) \in SUBSET Nat, IsFiniteSet(Running(d)),
         NEW i \in Running(d), NEW j \in Running(d)
  PROVE  /\ Position(d, i) \in Nat
         /\ i < j => Position(d, i) + 1 <= Position(d, j)
<1> DEFINE before(k) == {n \in Running(d) : n < k}
<1>1. IsFiniteSet(before(i)) /\ IsFiniteSet(before(j))
  BY FS_Subset
<1>2. Cardinality(before(i)) \in Nat /\ Cardinality(before(j)) \in Nat
  BY <1>1, FS_CardinalityType
<1>3. ASSUME i < j
      PROVE  Cardinality(before(i)) + 1 <= Cardinality(before(j))
  <2> DEFINE T == before(i) \cup {i}
  <2>1. i \notin before(i)
    OBVIOUS
  <2>2. Cardinality(T) = Cardinality(before(i)) + 1
    <3> HIDE DEF before
    <3> QED  BY <1>1, <2>1, FS_AddElement
  <2>3. T \in SUBSET before(j)
    BY <1>3
  <2> HIDE DEF before, T
  <2>4. Cardinality(T) <= Cardinality(before(j))
    BY <1>1, <2>3, FS_Subset
  <2> QED  BY <1>2, <2>2, <2>4
<1> QED  BY <1>2, <1>3 DEF Position

-----------------------------------------------------------------------------
(***************************************************************************)
(* The windows of a desktop with its launcher: the shell is there and can  *)
(* be seen, the shell and the launcher are the fixed windows, the launcher *)
(* is the only modal one, and the focused window is on top.                *)
(***************************************************************************)
Windows(w, launcher) ==
  /\ WmInv(w) /\ TopInv(w)
  /\ Shell \in w.open
  /\ launcher # Shell
  /\ w.fixed = {Shell} \cup ({launcher} \ {NoWindow})
  /\ w.modal = {launcher} \ {NoWindow}
  /\ w.minimized \cap w.fixed = {}

\* What follows from it about ids and about what can be seen.
LEMMA WindowsFacts ==
  ASSUME NEW w, NEW L, Windows(w, L)
  PROVE  /\ w \in WmValues /\ w.open \in SUBSET Nat
         /\ w.open \subseteq 1 .. w.next - 1 /\ w.next \in Nat \ {0, 1}
         /\ Visible(w) = w.open \ w.minimized
         /\ w.active \in Visible(w) /\ NoWindow \notin w.open
         /\ Shell \in Visible(w)
         /\ L # NoWindow => L \in Visible(w)
<1>1. /\ w \in WmValues /\ w.open \in SUBSET Nat /\ w.open \subseteq 1 .. w.next - 1
      /\ w.next \in Nat \ {0} /\ w.closing = {}
      /\ w.fixed \cup w.modal \subseteq w.open
  BY DEF Windows, WmInv, WmTypeOK, WmValues
<1>2. Visible(w) = w.open \ w.minimized /\ w.active \in Visible(w)
  BY <1>1 DEF Visible, Windows, TopInv, IsTop
<1>3. NoWindow \notin w.open
  BY <1>1 DEF NoWindow
<1>4. w.next # 1
  BY <1>1 DEF Windows, Shell
<1> QED  BY <1>1, <1>2, <1>3, <1>4 DEF Windows

\* The launcher is the window that blocks the others, and has the keys.
LEMMA LauncherIsModal ==
  ASSUME NEW w, NEW L, Windows(w, L)
  PROVE  /\ TopmostModal(w) = L
         /\ KeyTarget(w) = IF L # NoWindow THEN L ELSE w.active
<1>1. /\ L # NoWindow => L \in Visible(w)
      /\ Visible(w) \subseteq w.open /\ w.active \in Visible(w)
  BY WindowsFacts DEF Visible
<1>2. StackOK(w) /\ w.modal = {L} \ {NoWindow}
  BY DEF Windows, WmInv
<1> DEFINE S == Visible(w) \cap w.modal
<1>3. S \subseteq w.open /\ S = {L} \ {NoWindow}
  BY <1>1, <1>2
<1>4. TopmostModal(w) = Topmost(w, S)
  BY DEF TopmostModal
<1> HIDE DEF S
<1>5. TopmostModal(w) = L
  BY <1>2, <1>3, <1>4, TopmostIn
<1> QED  BY <1>1, <1>5 DEF KeyTarget

\* A window of the desktop is brought to the front.
LEMMA WindowsRaise ==
  ASSUME NEW w, NEW L, Windows(w, L), NEW id \in w.open
  PROVE  LET v == Raise(w, id)
         IN  /\ Windows(v, L) /\ v.active = id /\ v.next = w.next
             /\ v.open = w.open /\ Visible(v) = Visible(w) \cup {id}
<1> DEFINE v == Raise(w, id)
<1>1. WmInv(w)
  BY DEF Windows
<1>2. /\ WmInv(v) /\ TopInv(v) /\ v.active = id /\ v.next = w.next
      /\ v.open = w.open /\ v.fixed = w.fixed /\ v.modal = w.modal
      /\ v.minimized = w.minimized \ {id}
  BY <1>1, RaiseTop
<1> HIDE DEF v
<1>3. Windows(v, L)
  BY <1>2 DEF Windows
<1>4. Visible(v) = Visible(w) \cup {id}
  BY <1>2, <1>3, WindowsFacts
<1> QED  BY <1>2, <1>3, <1>4 DEF v

\* A window of an app, or the launcher, is opened.
LEMMA WindowsCreate ==
  ASSUME NEW w, NEW L, Windows(w, L), NEW new \in BOOLEAN, new => L = NoWindow
  PROVE  LET v == CreateWindow(w, new, new)
         IN  /\ Windows(v, IF new THEN w.next ELSE L)
             /\ v.active = w.next /\ v.next = w.next + 1
             /\ v.open = w.open \cup {w.next} /\ w.next \notin w.open
             /\ Visible(v) = Visible(w) \cup {w.next}
<1> DEFINE v == CreateWindow(w, new, new)
           M == IF new THEN w.next ELSE L
<1>1. WmInv(w)
  BY DEF Windows
<1>2. /\ WmInv(v) /\ TopInv(v) /\ v.active = w.next /\ v.next = w.next + 1
      /\ v.open = w.open \cup {w.next}
      /\ v.fixed = w.fixed \cup (IF new THEN {w.next} ELSE {})
      /\ v.modal = w.modal \cup (IF new THEN {w.next} ELSE {})
      /\ v.minimized = w.minimized
  BY <1>1, CreateTop
<1>3. /\ w.open \in SUBSET Nat /\ w.open \subseteq 1 .. w.next - 1
      /\ w.next \in Nat \ {0, 1} /\ w.next \notin w.open /\ w.next # NoWindow
  BY WindowsFacts DEF NoWindow
<1>4. w.minimized \subseteq w.open
  BY <1>1 DEF WmInv, WmTypeOK
<1> HIDE DEF v
<1>5. Windows(v, M)
  <2>1. Shell \in v.open /\ M # Shell
    BY <1>2, <1>3 DEF Windows, Shell
  <2>2. v.fixed = {Shell} \cup ({M} \ {NoWindow}) /\ v.modal = {M} \ {NoWindow}
    BY <1>2, <1>3 DEF Windows
  <2>3. v.minimized \cap v.fixed = {}
    BY <1>2, <1>3, <1>4 DEF Windows
  <2> QED  BY <1>2, <2>1, <2>2, <2>3 DEF Windows
<1>6. Visible(v) = Visible(w) \cup {w.next}
  BY <1>2, <1>3, <1>4, <1>5, WindowsFacts
<1> QED  BY <1>2, <1>3, <1>5, <1>6 DEF v

\* A window that cannot be created changes nothing but the next id.
LEMMA WindowsCreateFails ==
  ASSUME NEW w, NEW L, Windows(w, L)
  PROVE  LET v == CreateFails(w)
         IN  /\ Windows(v, L) /\ v.active = w.active /\ v.next = w.next + 1
             /\ v.open = w.open /\ Visible(v) = Visible(w)
<1> DEFINE v == CreateFails(w)
<1>1. WmInv(w) /\ TopInv(w)
  BY DEF Windows
<1>2. /\ WmInv(v) /\ TopInv(v) /\ v.next = w.next + 1 /\ v.active = w.active
      /\ v.open = w.open /\ v.fixed = w.fixed /\ v.modal = w.modal
      /\ v.minimized = w.minimized
  BY <1>1, CreateFailsTop
<1> HIDE DEF v
<1>3. Windows(v, L)
  BY <1>2 DEF Windows
<1>4. Visible(v) = Visible(w)
  BY <1>2, <1>3, WindowsFacts
<1> QED  BY <1>2, <1>3, <1>4 DEF v

\* Windows of apps are closed, several at once or one.
LEMMA WindowsClose ==
  ASSUME NEW w, NEW L, Windows(w, L), NEW S, Shell \notin S, L \notin S
  PROVE  LET v == CloseWindows(w, S)
         IN  /\ Windows(v, L) /\ v.next = w.next
             /\ v.open = w.open \ S /\ Visible(v) = Visible(w) \ S
             /\ w.active \notin S => v.active = w.active
<1> DEFINE T == S \cap w.open
           u == [w EXCEPT !.closing = @ \cup T]
           v == CloseWindows(w, S)
<1>1. /\ WmInv(w) /\ TopInv(w) /\ Shell \in Visible(w) /\ Visible(w) \subseteq w.open
      /\ w.active \in w.open
      /\ w.fixed \cup w.modal \cup w.minimized \subseteq w.open
      /\ Visible(w) = w.open \ w.minimized
  BY WindowsFacts DEF Windows, Visible, WmInv, WmTypeOK
<1>2. CASE T = {}
  <2>1. v = w
    BY <1>2 DEF CloseWindows
  <2> QED  BY <1>1, <1>2, <2>1
<1>3. CASE T # {}
  <2> DEFINE z == CleanupClosed(u)
  <2>1. v = z
    BY <1>3 DEF CloseWindows
  <2>2. WmInv(w) /\ TopInv(w) /\ T \in SUBSET w.open /\ Visible(w) \ T # {}
    BY <1>1
  <2> HIDE DEF T, v
  <2>3. /\ WmInv(z) /\ TopInv(z) /\ z.next = w.next
        /\ z.open = w.open \ T
        /\ z.fixed = w.fixed \ T
        /\ z.modal = w.modal \ T
        /\ z.minimized = w.minimized \ T
        /\ w.active \notin T => z.active = w.active
    BY <2>2, CloseTop, Zenon
  <2> HIDE DEF z
  <2>4. /\ v.open = w.open \ S /\ v.fixed = w.fixed /\ v.modal = w.modal
        /\ v.minimized = w.minimized \ S
    BY <1>1, <2>1, <2>3 DEF T, Windows
  <2>5. Windows(v, L)
    BY <1>1, <2>1, <2>3, <2>4 DEF Windows
  <2>6. Visible(v) = Visible(w) \ S
    BY <1>1, <2>4, <2>5, WindowsFacts
  <2> QED  BY <1>1, <2>3, <2>4, <2>5, <2>6, <2>1 DEF T, v
<1> QED  BY <1>2, <1>3

\* The same for one window of an app.
LEMMA WindowsCloseOne ==
  ASSUME NEW w, NEW L, Windows(w, L), NEW id \in w.open \ {Shell, L}
  PROVE  LET v == CloseWindow(w, id)
         IN  /\ v = CleanupClosed(RequestClose(w, id))
             /\ Windows(v, L) /\ v.next = w.next
             /\ v.open = w.open \ {id} /\ Visible(v) = Visible(w) \ {id}
             /\ w.active # id => v.active = w.active
<1> DEFINE v == CloseWindow(w, id)
<1>1. /\ WmInv(w) /\ TopInv(w) /\ Shell \in Visible(w)
      /\ w.fixed \cup w.modal \cup w.minimized \subseteq w.open
      /\ Visible(w) = w.open \ w.minimized
  BY WindowsFacts DEF Windows, WmInv, WmTypeOK
<1>2. Visible(w) \ {id} # {}
  BY <1>1
<1>3. /\ v = CleanupClosed(RequestClose(w, id))
      /\ WmInv(v) /\ TopInv(v) /\ v.next = w.next
      /\ v.open = w.open \ {id}
      /\ v.fixed = w.fixed \ {id}
      /\ v.modal = w.modal \ {id}
      /\ v.minimized = w.minimized \ {id}
      /\ w.active # id => v.active = w.active
  BY <1>1, <1>2, CloseOneTop
<1> HIDE DEF v
<1>4. Windows(v, L)
  BY <1>1, <1>3 DEF Windows
<1>5. Visible(v) = Visible(w) \ {id}
  BY <1>1, <1>3, <1>4, WindowsFacts
<1> QED  BY <1>3, <1>4, <1>5 DEF v

\* The launcher is closed, if it is open.
LEMMA WindowsCloseLauncher ==
  ASSUME NEW w, NEW L, Windows(w, L)
  PROVE  LET v == CloseWindow(w, L)
         IN  /\ Windows(v, NoWindow) /\ v.next = w.next
             /\ v.open = w.open \ {L} /\ Visible(v) = Visible(w) \ {L}
             /\ w.active # L => v.active = w.active
<1> DEFINE v == CloseWindow(w, L)
<1>1. /\ WmInv(w) /\ TopInv(w) /\ Shell \in Visible(w) /\ Shell # L
      /\ w.fixed \cup w.modal \cup w.minimized \subseteq w.open
      /\ Visible(w) = w.open \ w.minimized /\ NoWindow \notin w.open
  BY WindowsFacts DEF Windows, WmInv, WmTypeOK
<1>2. CASE L = NoWindow
  <2>1. v = w
    BY <1>1, <1>2 DEF CloseWindow
  <2> QED  BY <1>1, <1>2, <2>1
<1>3. CASE L # NoWindow
  <2>1. L \in w.open /\ Visible(w) \ {L} # {}
    BY <1>1, <1>3 DEF Windows
  <2>2. /\ WmInv(v) /\ TopInv(v) /\ v.next = w.next
        /\ v.open = w.open \ {L}
        /\ v.fixed = w.fixed \ {L}
        /\ v.modal = w.modal \ {L}
        /\ v.minimized = w.minimized \ {L}
        /\ w.active # L => v.active = w.active
    BY <1>1, <2>1, CloseOneTop
  <2> HIDE DEF v
  <2>3. Windows(v, NoWindow)
    BY <1>1, <1>3, <2>2 DEF Windows, Shell, NoWindow
  <2>4. Visible(v) = Visible(w) \ {L}
    BY <1>1, <2>2, <2>3, WindowsFacts
  <2> QED  BY <2>2, <2>3, <2>4 DEF v
<1> QED  BY <1>2, <1>3

\* The clean-up that ends an input event, when nothing asked to be closed.
LEMMA WindowsClean ==
  ASSUME NEW w, NEW L, Windows(w, L)
  PROVE  LET v == CleanupClosed(w)
         IN  /\ Windows(v, L) /\ v.next = w.next /\ v.active = w.active
             /\ v.open = w.open /\ Visible(v) = Visible(w)
<1> DEFINE v == CleanupClosed(w)
<1>1. WmInv(w) /\ TopInv(w)
  BY DEF Windows
<1>2. /\ WmInv(v) /\ TopInv(v) /\ v.next = w.next /\ v.active = w.active
      /\ v.open = w.open /\ v.fixed = w.fixed /\ v.modal = w.modal
      /\ v.minimized = w.minimized
  BY <1>1, CleanupNothing
<1> HIDE DEF v
<1>3. Windows(v, L)
  BY <1>2 DEF Windows
<1>4. Visible(v) = Visible(w)
  BY <1>2, <1>3, WindowsFacts
<1> QED  BY <1>2, <1>3, <1>4 DEF v

\* F6, and the mouse, show and hide nothing.
LEMMA WindowsInput ==
  ASSUME NEW w, NEW L, Windows(w, L), NEW m, NEW onTitle,
         NEW hit \in Visible(w) \cup {NoWindow}
  PROVE  /\ Windows(CycleFocus(w), L) /\ CycleFocus(w).open = w.open
         /\ CycleFocus(w).next = w.next
         /\ Windows(Pointer(w, m, hit, onTitle), L)
         /\ Pointer(w, m, hit, onTitle).open = w.open
         /\ Pointer(w, m, hit, onTitle).next = w.next
         /\ Visible(Pointer(w, m, hit, onTitle)) = Visible(w)
         /\ L # NoWindow => CycleFocus(w) = w /\ Pointer(w, m, hit, onTitle) = w
<1>1. WmInv(w) /\ TopInv(w) /\ Visible(w) = w.open \ w.minimized
  BY WindowsFacts DEF Windows
<1>2. Windows(CycleFocus(w), L) /\ CycleFocus(w).open = w.open /\ CycleFocus(w).next = w.next
  BY <1>1, CycleTop DEF Windows
<1> DEFINE v == Pointer(w, m, hit, onTitle)
<1>3. /\ WmInv(v) /\ TopInv(v) /\ v.next = w.next
      /\ v.open = w.open /\ v.fixed = w.fixed /\ v.modal = w.modal
      /\ v.minimized = w.minimized
  BY <1>1, PointerTop
<1>4. L # NoWindow => CycleFocus(w) = w /\ v = w
  BY LauncherIsModal DEF CycleFocus, Pointer
<1> HIDE DEF v
<1>5. Windows(v, L)
  BY <1>3 DEF Windows
<1>6. Visible(v) = Visible(w)
  BY <1>1, <1>3, <1>5, WindowsFacts
<1> QED  BY <1>2, <1>3, <1>4, <1>5, <1>6 DEF v

\* Minimizing hides no window but an app's.
LEMMA WindowsMinimize ==
  ASSUME NEW w, NEW L, Windows(w, L), NEW id, id # Shell
  PROVE  LET v == MinimizeWindow(w, id)
         IN  /\ Windows(v, L) /\ v.next = w.next /\ v.open = w.open
             /\ w.active # id => v.active = w.active
<1> DEFINE v == MinimizeWindow(w, id)
<1>1. WmInv(w) /\ TopInv(w) /\ Visible(w) \ {id} # {}
  BY WindowsFacts DEF Windows
<1>2. /\ WmInv(v) /\ TopInv(v) /\ v.next = w.next
      /\ v.open = w.open /\ v.fixed = w.fixed /\ v.modal = w.modal
      /\ v.minimized \cap w.fixed \subseteq w.minimized
      /\ w.active # id => v.active = w.active
  BY <1>1, MinimizeTop
<1> HIDE DEF v
<1>3. Windows(v, L)
  BY <1>2 DEF Windows
<1> QED  BY <1>2, <1>3 DEF v

-----------------------------------------------------------------------------
(***************************************************************************)
(* The desktop between the stages of a round.                              *)
(***************************************************************************)
DeskType(d) ==
  d \in [ wm       : WmValues,
          apps     : [Running(d) -> App],
          launcher : Nat \cup {NoWindow},
          mode     : Nat \cup {NoWindow},
          asking   : BOOLEAN,
          index    : Nat,
          waiting  : Nat \cup {NoWindow},
          status   : {"running", "quit", "lost"} ]

(***************************************************************************)
(* Every window belongs to the shell, the launcher or an app, and an app   *)
(* without a window is one that may be freed.                              *)
(***************************************************************************)
Consistent(d) ==
  /\ DeskType(d)
  /\ d.status \in {"running", "quit"}
  /\ Windows(d.wm, d.launcher)
  /\ Running(d) \subseteq 2 .. d.wm.next - 1
  /\ d.launcher \notin Running(d)
  /\ d.wm.open \subseteq {Shell, d.launcher} \cup Running(d)
  /\ \A i \in Running(d) :
       AppOK(d.apps[i]) /\ (i \in d.wm.open \/ d.apps[i].requested)

\* The open launcher has the focus.
LauncherOnTop(d) == d.launcher # NoWindow => d.wm.active = d.launcher

(***************************************************************************)
(* A shutdown waits for an app that can be seen, which is the one at       *)
(* shutdown_index; the apps before it agreed.                              *)
(***************************************************************************)
Waits(d) ==
  /\ d.status = "running" /\ d.launcher = NoWindow /\ d.mode = NoWindow
  /\ Running(d) \subseteq d.wm.open
  /\ d.waiting \in Running(d) /\ d.waiting \in Visible(d.wm)
  /\ Position(d, d.waiting) = d.index
  /\ \A i \in Running(d) : i < d.waiting => d.apps[i].requested

\* After the event of a round ...
Between(d) == Consistent(d) /\ LauncherOnTop(d) /\ (d.asking => Waits(d))

\* ... after the apps that close are gone ...
Cleaned(d) ==
  /\ Between(d)
  /\ Running(d) \subseteq d.wm.open
  /\ ~d.asking => \A i \in Running(d) : ~d.apps[i].requested

\* ... after a shutdown in progress went on ...
Settled(d) == Cleaned(d) /\ (d.asking => d.apps[d.waiting].pending)

\* ... and after the frame.
Live(d) ==
  /\ Settled(d)
  /\ d.mode # NoWindow => d.mode = d.wm.active /\ d.mode \in Focusable(d.wm)

\* When the terminal is gone the apps are, and their windows are kept.
Lost(d) ==
  /\ DeskType(d) /\ d.status = "lost"
  /\ Windows(d.wm, d.launcher) /\ LauncherOnTop(d)
  /\ Running(d) = {} /\ d.mode = NoWindow /\ ~d.asking

\* Ids of apps are numbers, and there are finitely many.
LEMMA RunningFacts ==
  ASSUME NEW d, Consistent(d)
  PROVE  /\ Running(d) \in SUBSET Nat /\ IsFiniteSet(Running(d))
         /\ Shell \notin Running(d) /\ NoWindow \notin Running(d)
         /\ d.apps \in [Running(d) -> App]
         /\ d.wm.next \in Nat /\ d.wm.next \notin Running(d)
         /\ d.wm.next > 1 /\ d.wm.next \notin d.wm.open
         /\ d.wm.open \in SUBSET Nat
<1>1. /\ d.wm.next \in Nat \ {0, 1} /\ d.wm.open \in SUBSET Nat
      /\ d.wm.open \subseteq 1 .. d.wm.next - 1
  BY WindowsFacts DEF Consistent
<1>2. Running(d) \subseteq 2 .. d.wm.next - 1 /\ d.apps \in [Running(d) -> App]
  BY DEF Consistent, DeskType
<1> HIDE DEF Running
<1>3. IsFiniteSet(2 .. d.wm.next - 1)
  <2>1. d.wm.next - 1 \in Int /\ 2 \in Int
    BY <1>1
  <2> QED  BY <2>1, FS_Interval
<1>4. IsFiniteSet(Running(d))
  BY <1>2, <1>3, FS_Subset
<1> QED  BY <1>1, <1>2, <1>4 DEF Shell, NoWindow

(***************************************************************************)
(* Replacing the window manager of a desktop.                              *)
(***************************************************************************)
LEMMA NewWm ==
  ASSUME NEW d, DeskType(d), NEW w \in WmValues
  PROVE  LET e == [d EXCEPT !.wm = w]
         IN  /\ DeskType(e) /\ Running(e) = Running(d)
             /\ e.wm = w /\ e.apps = d.apps /\ e.launcher = d.launcher
             /\ e.mode = d.mode /\ e.asking = d.asking /\ e.index = d.index
             /\ e.waiting = d.waiting /\ e.status = d.status
<1> DEFINE e == [d EXCEPT !.wm = w]
<1>1. /\ e.wm = w /\ e.apps = d.apps /\ e.launcher = d.launcher
      /\ e.mode = d.mode /\ e.asking = d.asking /\ e.index = d.index
      /\ e.waiting = d.waiting /\ e.status = d.status
  BY DEF DeskType
<1>2. Running(e) = Running(d)
  BY <1>1 DEF Running
<1>3. e \in [ wm : WmValues, apps : [Running(d) -> App], launcher : Nat \cup {NoWindow},
              mode : Nat \cup {NoWindow}, asking : BOOLEAN, index : Nat,
              waiting : Nat \cup {NoWindow}, status : {"running", "quit", "lost"} ]
  BY DEF DeskType
<1> HIDE DEF e
<1> QED  BY <1>1, <1>2, <1>3 DEF DeskType, e

\* Replacing the apps of a desktop.
LEMMA NewApps ==
  ASSUME NEW d, DeskType(d), NEW S, NEW f \in [S -> App]
  PROVE  LET e == [d EXCEPT !.apps = f]
         IN  /\ DeskType(e) /\ Running(e) = S
             /\ e.wm = d.wm /\ e.apps = f /\ e.launcher = d.launcher
             /\ e.mode = d.mode /\ e.asking = d.asking /\ e.index = d.index
             /\ e.waiting = d.waiting /\ e.status = d.status
<1> DEFINE e == [d EXCEPT !.apps = f]
<1>1. /\ e.wm = d.wm /\ e.apps = f /\ e.launcher = d.launcher
      /\ e.mode = d.mode /\ e.asking = d.asking /\ e.index = d.index
      /\ e.waiting = d.waiting /\ e.status = d.status
  BY DEF DeskType
<1>2. Running(e) = S
  BY <1>1 DEF Running
<1>3. e \in [ wm : WmValues, apps : [S -> App], launcher : Nat \cup {NoWindow},
              mode : Nat \cup {NoWindow}, asking : BOOLEAN, index : Nat,
              waiting : Nat \cup {NoWindow}, status : {"running", "quit", "lost"} ]
  BY DEF DeskType
<1> HIDE DEF e
<1> QED  BY <1>1, <1>2, <1>3 DEF DeskType, e

-----------------------------------------------------------------------------
(***************************************************************************)
(* The clean-up after an event: apps that were allowed to close go, unless *)
(* a shutdown asks, and nothing else changes.                              *)
(***************************************************************************)
LEMMA CleanupAppsRight ==
  ASSUME NEW d, Between(d)
  PROVE  LET e == CleanupApps(d)
         IN  /\ Cleaned(e)
             /\ e.asking = d.asking /\ e.status = d.status /\ e.waiting = d.waiting
             /\ d.asking => e.apps = d.apps /\ Running(e) = Running(d)
             /\ ~d.asking => /\ Running(e) = {i \in Running(d) : ~d.apps[i].requested}
                             /\ \A i \in Running(e) : e.apps[i] = d.apps[i]
<1> DEFINE closing  == {i \in Running(d) : Closes(d, i)}
           w        == CloseWindows(d.wm, closing)
           left     == (Running(d) \cap w.open) \ closing
           apps     == [i \in left |-> d.apps[i]]
           launcher == IF d.launcher \in d.wm.open THEN d.launcher ELSE NoWindow
           e        == CleanupApps(d)
<1>1. /\ DeskType(d) /\ Windows(d.wm, d.launcher) /\ Consistent(d) /\ LauncherOnTop(d)
  BY DEF Between, Consistent
<1>2. /\ Running(d) \in SUBSET Nat /\ Shell \notin Running(d) /\ NoWindow \notin Running(d)
      /\ d.apps \in [Running(d) -> App] /\ d.launcher \notin Running(d)
  BY <1>1, RunningFacts DEF Consistent
<1>3. d.launcher # NoWindow => d.launcher \in d.wm.open
  BY <1>1, WindowsFacts DEF Visible
<1>4. launcher = d.launcher
  BY <1>3
<1>5. Shell \notin closing /\ d.launcher \notin closing /\ closing \subseteq Running(d)
  BY <1>2
<1>6. closing = IF d.asking THEN {} ELSE {i \in Running(d) : d.apps[i].requested}
  BY DEF Closes
<1> HIDE DEF closing
<1>7. /\ Windows(w, d.launcher) /\ w.next = d.wm.next
      /\ w.open = d.wm.open \ closing /\ Visible(w) = Visible(d.wm) \ closing
      /\ d.wm.active \notin closing => w.active = d.wm.active
  BY <1>1, <1>5, WindowsClose
<1>8. w \in WmValues
  BY <1>7, WindowsFacts
<1> HIDE DEF w
<1>9. left = IF d.asking THEN Running(d) ELSE {i \in Running(d) : ~d.apps[i].requested}
  <2>1. CASE d.asking
    <3>1. Running(d) \subseteq d.wm.open /\ closing = {}
      BY <1>6, <2>1 DEF Between, Waits
    <3> QED  BY <1>7, <2>1, <3>1
  <2>2. CASE ~d.asking
    <3>1. \A i \in Running(d) : i \in d.wm.open \/ d.apps[i].requested
      BY <1>1 DEF Consistent
    <3>2. closing = {i \in Running(d) : d.apps[i].requested}
      BY <1>6, <2>2
    <3> QED  BY <1>7, <2>2, <3>1, <3>2
  <2> QED  BY <2>1, <2>2
<1>10. left \subseteq Running(d) /\ left \subseteq w.open
  OBVIOUS
<1> HIDE DEF left
<1>11. apps \in [left -> App]
  BY <1>2, <1>10
<1>12. e = [d EXCEPT !.wm = w, !.apps = apps, !.launcher = launcher]
  BY DEF CleanupApps, left, w, closing
<1> HIDE DEF launcher, apps, e
<1>13. /\ e.wm = w /\ e.apps = apps /\ e.launcher = d.launcher
       /\ e.mode = d.mode /\ e.asking = d.asking /\ e.index = d.index
       /\ e.waiting = d.waiting /\ e.status = d.status
  BY <1>1, <1>4, <1>12 DEF DeskType
<1>14. Running(e) = left
  BY <1>11, <1>13 DEF Running
<1>15. DeskType(e)
  <2>1. e \in [ wm : WmValues, apps : [left -> App], launcher : Nat \cup {NoWindow},
                mode : Nat \cup {NoWindow}, asking : BOOLEAN, index : Nat,
                waiting : Nat \cup {NoWindow}, status : {"running", "quit", "lost"} ]
    BY <1>1, <1>4, <1>8, <1>11, <1>12 DEF DeskType
  <2> QED  BY <1>14, <2>1 DEF DeskType
<1>16. \A i \in left : e.apps[i] = d.apps[i]
  BY <1>13 DEF apps
<1>17. Consistent(e)
  <2>1. Running(e) \subseteq 2 .. e.wm.next - 1 /\ e.status \in {"running", "quit"}
    BY <1>1, <1>7, <1>10, <1>13, <1>14 DEF Consistent
  <2>2. e.wm.open \subseteq {Shell, e.launcher} \cup Running(e)
    BY <1>1, <1>6, <1>7, <1>9, <1>13, <1>14 DEF Consistent
  <2>3. \A i \in Running(e) : AppOK(e.apps[i]) /\ i \in e.wm.open
    BY <1>1, <1>10, <1>13, <1>14, <1>16 DEF Consistent
  <2>4. e.launcher \notin Running(e)
    BY <1>2, <1>10, <1>13, <1>14
  <2> QED  BY <1>7, <1>13, <1>15, <2>1, <2>2, <2>3, <2>4 DEF Consistent
<1>18. LauncherOnTop(e)
  BY <1>1, <1>5, <1>7, <1>13 DEF LauncherOnTop
<1>19. d.asking => e.apps = d.apps /\ e.wm.open = d.wm.open /\ Visible(e.wm) = Visible(d.wm)
  <2>1. d.asking => d.apps = [i \in left |-> d.apps[i]]
    BY <1>2, <1>9
  <2> QED  BY <1>6, <1>7, <1>13, <2>1 DEF apps
<1>20. d.asking => Waits(e)
  <2> SUFFICES ASSUME d.asking PROVE Waits(e)
    OBVIOUS
  <2>1. Running(e) = Running(d)
    BY <1>9, <1>14
  <2>2. Waits(d)
    BY DEF Between
  <2>3. Position(e, e.waiting) = Position(d, d.waiting)
    BY <1>13, <2>1 DEF Position
  <2> QED  BY <1>13, <1>19, <2>1, <2>2, <2>3 DEF Waits
<1>21. Between(e)
  BY <1>13, <1>17, <1>18, <1>20 DEF Between
<1>22. ~d.asking => \A i \in Running(e) : ~e.apps[i].requested
  BY <1>9, <1>14, <1>16
<1>23. Cleaned(e)
  BY <1>10, <1>13, <1>14, <1>21, <1>22 DEF Cleaned
<1> QED  BY <1>9, <1>13, <1>14, <1>16, <1>19, <1>23 DEF e

-----------------------------------------------------------------------------
(***************************************************************************)
(* A shutdown.                                                             *)
(***************************************************************************)
\* The apps with unsaved work that the user has not decided about.
Undecided(d) ==
  {i \in Running(d) : ~CanClose(d.apps[i]) /\ ~d.apps[i].requested}

\* A cancelled shutdown leaves all apps open and none asked to close.
LEMMA CancelRight ==
  ASSUME NEW d, Consistent(d), LauncherOnTop(d), Running(d) \subseteq d.wm.open
  PROVE  LET e == CancelShutdown(d)
         IN  /\ Settled(e) /\ ~e.asking /\ e.status = d.status
             /\ Running(e) = Running(d) /\ Undecided(d) \subseteq Undecided(e)
<1> DEFINE apps == [i \in DOMAIN d.apps |-> ResetCloseRequest(d.apps[i])]
           e    == CancelShutdown(d)
<1>1. DeskType(d) /\ DOMAIN d.apps = Running(d)
  BY DEF Consistent, Running
<1>2. \A i \in Running(d) : AppOK(d.apps[i])
  BY DEF Consistent
<1>3. \A i \in Running(d) :
        /\ AppOK(apps[i]) /\ ~apps[i].requested
        /\ CanClose(apps[i]) <=> CanClose(d.apps[i])
  BY <1>1, <1>2, ResetRight
<1>4. apps \in [Running(d) -> App]
  BY <1>1, <1>3 DEF AppOK
<1>5. e = [d EXCEPT !.apps = apps, !.asking = FALSE, !.index = 0, !.waiting = NoWindow]
  BY DEF CancelShutdown
<1> HIDE DEF apps, e
<1>6. /\ e.wm = d.wm /\ e.apps = apps /\ e.launcher = d.launcher /\ e.mode = d.mode
      /\ e.asking = FALSE /\ e.status = d.status
  BY <1>1, <1>5 DEF DeskType
<1>7. Running(e) = Running(d)
  BY <1>4, <1>6 DEF Running
<1>8. DeskType(e)
  <2>1. e \in [ wm : WmValues, apps : [Running(d) -> App], launcher : Nat \cup {NoWindow},
                mode : Nat \cup {NoWindow}, asking : BOOLEAN, index : Nat,
                waiting : Nat \cup {NoWindow}, status : {"running", "quit", "lost"} ]
    BY <1>1, <1>4, <1>5 DEF DeskType
  <2> QED  BY <1>7, <2>1 DEF DeskType
<1>9. Consistent(e)
  BY <1>3, <1>6, <1>7, <1>8 DEF Consistent
<1>10. Settled(e)
  BY <1>3, <1>6, <1>7, <1>9 DEF Settled, Cleaned, Between, LauncherOnTop
<1>11. Undecided(d) \subseteq Undecided(e)
  BY <1>3, <1>6, <1>7 DEF Undecided
<1> QED  BY <1>6, <1>7, <1>10, <1>11 DEF e

\* A shutdown that every app agreed to closes all of them.
LEMMA CommitRight ==
  ASSUME NEW d, Consistent(d), d.launcher = NoWindow,
         \A i \in Running(d) : d.apps[i].requested
  PROVE  LET e == CommitShutdown(d)
         IN  /\ Settled(e) /\ ~e.asking /\ e.status = "quit"
             /\ Running(e) = {}
<1> DEFINE w == CloseWindows(d.wm, Running(d))
           c == [d EXCEPT !.asking = FALSE, !.waiting = NoWindow, !.wm = w]
           k == CleanupApps(c)
           e == CommitShutdown(d)
<1>1. DeskType(d) /\ Windows(d.wm, d.launcher)
  BY DEF Consistent
<1>2. /\ Windows(w, d.launcher) /\ w.next = d.wm.next
      /\ w.open = d.wm.open \ Running(d)
  BY <1>1, RunningFacts, WindowsClose DEF Consistent
<1>3. w \in WmValues
  BY <1>2, WindowsFacts
<1> HIDE DEF w
<1>4. /\ c.wm = w /\ c.apps = d.apps /\ c.launcher = d.launcher /\ c.mode = d.mode
      /\ c.asking = FALSE /\ c.status = d.status
  BY <1>1 DEF DeskType
<1>5. Running(c) = Running(d)
  BY <1>4 DEF Running
<1>6. DeskType(c)
  <2>1. c \in [ wm : WmValues, apps : [Running(d) -> App], launcher : Nat \cup {NoWindow},
                mode : Nat \cup {NoWindow}, asking : BOOLEAN, index : Nat,
                waiting : Nat \cup {NoWindow}, status : {"running", "quit", "lost"} ]
    BY <1>1, <1>3 DEF DeskType
  <2> HIDE DEF c
  <2> QED  BY <1>5, <2>1 DEF DeskType
<1> HIDE DEF c
<1>7. Consistent(c)
  BY <1>2, <1>4, <1>5, <1>6 DEF Consistent
<1>8. Between(c)
  BY <1>4, <1>7 DEF Between, LauncherOnTop
<1>9. /\ Cleaned(k) /\ k.asking = FALSE
      /\ Running(k) = {i \in Running(c) : ~c.apps[i].requested}
  BY <1>4, <1>8, CleanupAppsRight
<1>10. Running(k) = {}
  BY <1>4, <1>5, <1>9
<1>11. e = [k EXCEPT !.index = 0, !.status = "quit"]
  BY DEF CommitShutdown, c, w
<1> HIDE DEF k, e
<1>12. DeskType(k)
  BY <1>9 DEF Cleaned, Between, Consistent
<1>13. /\ e.wm = k.wm /\ e.apps = k.apps /\ e.launcher = k.launcher /\ e.mode = k.mode
       /\ e.asking = FALSE /\ e.status = "quit"
  BY <1>9, <1>11, <1>12 DEF DeskType
<1>14. Running(e) = {}
  BY <1>10, <1>13 DEF Running
<1>15. DeskType(e)
  <2>1. e \in [ wm : WmValues, apps : [Running(k) -> App], launcher : Nat \cup {NoWindow},
                mode : Nat \cup {NoWindow}, asking : BOOLEAN, index : Nat,
                waiting : Nat \cup {NoWindow}, status : {"running", "quit", "lost"} ]
    BY <1>11, <1>12 DEF DeskType
  <2> QED  BY <1>10, <1>14, <2>1 DEF DeskType
<1>16. Consistent(e)
  BY <1>9, <1>10, <1>13, <1>14, <1>15 DEF Cleaned, Between, Consistent
<1>17. LauncherOnTop(e)
  BY <1>9, <1>13 DEF Cleaned, Between, LauncherOnTop
<1>18. Settled(e)
  BY <1>13, <1>14, <1>16, <1>17 DEF Settled, Cleaned, Between
<1> QED  BY <1>13, <1>14, <1>18 DEF e

(***************************************************************************)
(* A shutdown that is about to ask the apps from shutdown_index on: those  *)
(* before it agreed.                                                       *)
(***************************************************************************)
Asks(d) ==
  /\ Consistent(d)
  /\ d.status = "running" /\ d.launcher = NoWindow /\ d.mode = NoWindow
  /\ d.asking /\ d.waiting = NoWindow
  /\ Running(d) \subseteq d.wm.open
  /\ \A i \in Running(d) : Position(d, i) < d.index => d.apps[i].requested

(***************************************************************************)
(* Asking ends with the first app that defers, which is then in front, or  *)
(* closes all of them when none does.  No app is taken from the undecided. *)
(***************************************************************************)
LEMMA AskRight ==
  ASSUME NEW d, Asks(d)
  PROVE  LET e == AskApps(d)
         IN  /\ Settled(e)
             /\ \/ /\ e.asking /\ e.status = "running" /\ Running(e) = Running(d)
                   /\ Undecided(d) \subseteq Undecided(e) /\ Undecided(e) # {}
                   /\ (\A i \in Running(d) : ~d.apps[i].requested)
                        => Undecided(e) = Undecided(d)
                \/ /\ ~e.asking /\ e.status = "quit" /\ Running(e) = {}
                   /\ \A i \in Running(d) :
                        Position(d, i) >= d.index => CanClose(d.apps[i])
<1> DEFINE rest  == {i \in Running(d) : Position(d, i) >= d.index}
           defer == {i \in rest : ~CanClose(d.apps[i])}
           first == First(defer)
           asked == IF defer = {} THEN rest ELSE {i \in rest : i <= first}
           apps  == [i \in DOMAIN d.apps |->
                       IF i \in asked THEN RequestAppClose(d.apps[i]) ELSE d.apps[i]]
           g     == [d EXCEPT !.apps = apps]
           e     == AskApps(d)
<1>1. /\ DeskType(d) /\ DOMAIN d.apps = Running(d) /\ Consistent(d)
      /\ Windows(d.wm, d.launcher)
  BY DEF Asks, Consistent, Running
<1>2. \A i \in Running(d) : AppOK(d.apps[i])
  BY <1>1 DEF Consistent
<1>3. /\ Running(d) \in SUBSET Nat /\ IsFiniteSet(Running(d)) /\ d.index \in Nat
  BY <1>1, RunningFacts DEF DeskType
<1>4. \A i \in Running(d) : Position(d, i) \in Nat
  BY <1>3, PositionRight
<1>5. \A i \in Running(d) : i \notin rest => d.apps[i].requested
  <2> TAKE i \in Running(d)
  <2>1. Position(d, i) \in Nat /\ (Position(d, i) < d.index => d.apps[i].requested)
    BY <1>4 DEF Asks
  <2> QED  BY <1>3, <2>1
<1>6. rest \subseteq Running(d) /\ defer \subseteq rest
  OBVIOUS
<1>7. \A i \in rest : i \in defer <=> ~CanClose(d.apps[i])
  OBVIOUS
<1>8. asked \subseteq rest
  OBVIOUS
<1>9. e = IF defer = {} THEN CommitShutdown(g)
          ELSE [g EXCEPT !.index = Position(d, first), !.waiting = first,
                         !.wm = Raise(@, first)]
  BY DEF AskApps
<1>10. \A i \in rest : Position(d, i) >= d.index
  OBVIOUS
<1>11. \A i \in Running(d) : Position(d, i) >= d.index => i \in rest
  OBVIOUS
<1> HIDE DEF rest, defer
<1>12. \A i \in Running(d) :
         /\ AppOK(apps[i]) /\ (CanClose(apps[i]) <=> CanClose(d.apps[i]))
         /\ i \in asked /\ CanClose(d.apps[i]) => apps[i].requested
         /\ i \in asked /\ ~CanClose(d.apps[i]) => apps[i].pending /\ ~apps[i].requested
         /\ i \notin asked => apps[i] = d.apps[i]
  <2> TAKE i \in Running(d)
  <2>1. apps[i] = IF i \in asked THEN RequestAppClose(d.apps[i]) ELSE d.apps[i]
    BY <1>1
  <2>2. AppOK(d.apps[i])
    BY <1>2
  <2> HIDE DEF apps, asked
  <2> QED  BY <2>1, <2>2, RequestRight
<1>13. apps \in [Running(d) -> App]
  <2> DEFINE A(i) == IF i \in asked THEN RequestAppClose(d.apps[i]) ELSE d.apps[i]
  <2>1. apps = [i \in Running(d) |-> A(i)]
    BY <1>1
  <2>2. \A i \in Running(d) : A(i) \in App
    BY <1>1, <1>12 DEF AppOK
  <2> HIDE DEF apps, A
  <2> QED  BY <2>1, <2>2
<1> HIDE DEF apps
<1>14. /\ DeskType(g) /\ Running(g) = Running(d)
       /\ g.wm = d.wm /\ g.apps = apps /\ g.launcher = d.launcher
       /\ g.mode = d.mode /\ g.asking = d.asking /\ g.index = d.index
       /\ g.waiting = d.waiting /\ g.status = d.status
  BY <1>1, <1>13, NewApps
<1> HIDE DEF g
<1>15. Consistent(g)
  BY <1>1, <1>12, <1>14 DEF Consistent, Asks
<1>16. CASE defer = {}
  <2>1. \A i \in Running(d) : apps[i].requested
    <3> TAKE i \in Running(d)
    <3>1. CASE i \in rest
      BY <1>7, <1>12, <1>16, <3>1
    <3>2. CASE i \notin rest
      BY <1>5, <1>8, <1>12, <3>2
    <3> QED  BY <3>1, <3>2
  <2>2. /\ Settled(CommitShutdown(g)) /\ ~CommitShutdown(g).asking
        /\ CommitShutdown(g).status = "quit" /\ Running(CommitShutdown(g)) = {}
    BY <1>14, <1>15, <2>1, CommitRight DEF Asks
  <2>3. \A i \in Running(d) : Position(d, i) >= d.index => CanClose(d.apps[i])
    BY <1>7, <1>11, <1>16
  <2> QED  BY <1>9, <1>16, <2>2, <2>3
<1>17. CASE defer # {}
  <2>1. first \in defer /\ \A j \in defer : first <= j
    BY <1>3, <1>6, <1>17, FirstRight
  <2>2. asked = {i \in rest : i <= first}
    BY <1>17
  <2>3. /\ first \in Nat /\ first \in rest /\ first \in Running(d) /\ first \in d.wm.open
        /\ ~CanClose(d.apps[first]) /\ first \in asked
    BY <1>3, <1>6, <1>7, <2>1, <2>2 DEF Asks
  <2> DEFINE w == Raise(d.wm, first)
             p == Position(d, first)
  <2>4. e = [g EXCEPT !.index = p, !.waiting = first, !.wm = w]
    BY <1>9, <1>14, <1>17
  <2>5. /\ Windows(w, d.launcher) /\ w.active = first /\ w.next = d.wm.next
        /\ w.open = d.wm.open /\ Visible(w) = Visible(d.wm) \cup {first}
    BY <1>1, <2>3, WindowsRaise
  <2>6. w \in WmValues /\ p \in Nat
    BY <1>4, <2>3, <2>5, WindowsFacts
  <2> HIDE DEF w, p, e
  <2>7. /\ e.wm = w /\ e.apps = apps /\ e.launcher = NoWindow /\ e.mode = NoWindow
        /\ e.asking = TRUE /\ e.index = p /\ e.waiting = first /\ e.status = "running"
    BY <1>14, <2>4 DEF DeskType, Asks
  <2>8. Running(e) = Running(d)
    BY <1>13, <2>7 DEF Running
  <2>9. DeskType(e)
    <3>1. e \in [ wm : WmValues, apps : [Running(d) -> App], launcher : Nat \cup {NoWindow},
                  mode : Nat \cup {NoWindow}, asking : BOOLEAN, index : Nat,
                  waiting : Nat \cup {NoWindow}, status : {"running", "quit", "lost"} ]
      BY <1>14, <2>3, <2>4, <2>6 DEF DeskType
    <3> QED  BY <2>8, <3>1 DEF DeskType
  <2>10. Consistent(e)
    BY <1>14, <1>15, <2>5, <2>7, <2>8, <2>9 DEF Consistent, Asks
  <2>11. \A i \in Running(d) : i < first => apps[i].requested
    <3> SUFFICES ASSUME NEW i \in Running(d), i < first PROVE apps[i].requested
      OBVIOUS
    <3>1. i \in Nat
      BY <1>3
    <3>2. CASE i \in rest
      <4>1. i \in asked
        BY <2>2, <2>3, <3>1, <3>2
      <4>2. i \notin defer
        BY <2>1, <2>3, <3>1
      <4> QED  BY <1>7, <1>12, <3>2, <4>1, <4>2
    <3>3. CASE i \notin rest
      BY <1>5, <1>8, <1>12, <3>3
    <3> QED  BY <3>2, <3>3
  <2>12. Position(e, first) = p
    BY <2>8 DEF Position, p
  <2>13. Waits(e)
    <3>1. Running(e) \subseteq e.wm.open
      BY <2>5, <2>7, <2>8 DEF Asks
    <3> QED  BY <2>3, <2>5, <2>7, <2>8, <2>11, <2>12, <3>1 DEF Waits
  <2>14. Settled(e)
    <3>1. Running(e) \subseteq e.wm.open /\ apps[first].pending
      BY <1>12, <2>3, <2>13 DEF Waits
    <3> QED
      BY <2>7, <2>10, <2>13, <3>1 DEF Settled, Cleaned, Between, LauncherOnTop
  <2>15. \A i \in Running(d) :
           ~CanClose(d.apps[i]) /\ ~d.apps[i].requested
             => ~CanClose(apps[i]) /\ ~apps[i].requested
    BY <1>12
  <2>16. Undecided(d) \subseteq Undecided(e)
    BY <2>7, <2>8, <2>15 DEF Undecided
  <2>17. first \in Undecided(e)
    BY <1>12, <2>3, <2>7, <2>8 DEF Undecided
  <2>18. (\A i \in Running(d) : ~d.apps[i].requested) => Undecided(e) \subseteq Undecided(d)
    BY <1>12, <2>7, <2>8 DEF Undecided
  <2> QED  BY <2>7, <2>8, <2>14, <2>16, <2>17, <2>18 DEF e
<1> QED  BY <1>16, <1>17

(***************************************************************************)
(* A shutdown in progress goes on once the app it waits for has answered:  *)
(* it is cancelled, asks the next apps, or closes all of them when nobody  *)
(* but the app that answered was undecided.                                *)
(***************************************************************************)
LEMMA ContinueRight ==
  ASSUME NEW d, Cleaned(d)
  PROVE  LET e == ContinueShutdown(d)
         IN  /\ Settled(e)
             /\ ~d.asking \/ d.apps[d.waiting].pending => e = d
             /\ d.asking /\ ~d.apps[d.waiting].pending =>
                  \/ /\ e.status = "running" /\ Running(e) = Running(d)
                     /\ Undecided(d) \subseteq Undecided(e)
                  \/ /\ ~e.asking /\ e.status = "quit" /\ Running(e) = {}
                     /\ Undecided(d) \subseteq {d.waiting}
<1> DEFINE e == ContinueShutdown(d)
           a == d.apps[d.waiting]
           n == d.index + 1
           g == [d EXCEPT !.waiting = NoWindow, !.index = n]
<1>1. /\ Between(d) /\ Consistent(d) /\ LauncherOnTop(d) /\ DeskType(d)
      /\ Running(d) \subseteq d.wm.open
  BY DEF Cleaned, Between, Consistent
<1>2. CASE ~d.asking
  BY <1>1, <1>2 DEF ContinueShutdown, Settled
<1>3. CASE d.asking /\ a.pending
  <2>1. d.waiting \in Running(d) /\ d.waiting # NoWindow
    BY <1>1, <1>3, RunningFacts DEF Between, Waits
  <2>2. e = d
    BY <1>3, <2>1 DEF ContinueShutdown
  <2> HIDE DEF e
  <2> QED  BY <1>3, <2>2 DEF Settled, e
<1>4. CASE d.asking /\ ~a.pending
  <2>1. Waits(d)
    BY <1>1, <1>4 DEF Between
  <2>2. /\ Running(d) \in SUBSET Nat /\ IsFiniteSet(Running(d))
        /\ d.waiting \in Running(d) /\ d.waiting # NoWindow /\ d.index \in Nat
        /\ d.status = "running"
    BY <1>1, <2>1, RunningFacts DEF Waits, DeskType
  <2>3. e = IF a.result = "cancelled" \/ ~a.requested
              THEN CancelShutdown(d) ELSE AskApps(g)
    BY <1>4, <2>2 DEF ContinueShutdown
  <2> HIDE DEF e
  <2>4. CASE e = CancelShutdown(d)
    <3>1. /\ Settled(e) /\ ~e.asking /\ e.status = d.status
          /\ Running(e) = Running(d) /\ Undecided(d) \subseteq Undecided(e)
      BY <1>1, <2>4, CancelRight
    <3> QED  BY <1>4, <2>2, <3>1 DEF e
  <2>5. CASE e = AskApps(g) /\ a.requested
    <3>1. /\ g.wm = d.wm /\ g.apps = d.apps /\ g.launcher = d.launcher
          /\ g.mode = d.mode /\ g.asking = d.asking /\ g.index = n
          /\ g.waiting = NoWindow /\ g.status = d.status
      BY <1>1 DEF DeskType
    <3>2. n \in Nat
      BY <2>2
    <3>3. Running(g) = Running(d)
      BY <3>1 DEF Running
    <3>4. DeskType(g)
      <4>1. g \in [ wm : WmValues, apps : [Running(d) -> App], launcher : Nat \cup {NoWindow},
                    mode : Nat \cup {NoWindow}, asking : BOOLEAN, index : Nat,
                    waiting : Nat \cup {NoWindow}, status : {"running", "quit", "lost"} ]
        <5> HIDE DEF n
        <5> QED  BY <1>1, <3>2 DEF DeskType
      <4> HIDE DEF g
      <4> QED  BY <3>3, <4>1 DEF DeskType
    <3> HIDE DEF g
    <3>5. Consistent(g)
      BY <1>1, <3>1, <3>3, <3>4 DEF Consistent
    <3>6. \A i \in Running(d) : Position(g, i) = Position(d, i)
      BY <3>3 DEF Position
    <3>7. \A i \in Running(d) : d.waiting < i => Position(d, i) >= n
      <4> TAKE i \in Running(d)
      <4>1. /\ Position(d, d.waiting) \in Nat
            /\ d.waiting < i => Position(d, d.waiting) + 1 <= Position(d, i)
        BY <2>2, PositionRight
      <4>2. Position(d, i) \in Nat
        BY <2>2, PositionRight
      <4> QED  BY <2>1, <4>1, <4>2 DEF Waits
    <3>8. \A i \in Running(d) : Position(d, i) < n => d.apps[i].requested
      <4> TAKE i \in Running(d)
      <4>1. Position(d, i) \in Nat /\ i \in Nat /\ d.waiting \in Nat
        BY <2>2, PositionRight
      <4>2. CASE i < d.waiting
        BY <2>1, <4>2 DEF Waits
      <4>3. CASE i = d.waiting
        BY <2>5, <4>3
      <4>4. CASE d.waiting < i
        <5>1. Position(d, i) >= n
          BY <3>7, <4>4
        <5> HIDE DEF n
        <5> QED  BY <3>2, <4>1, <5>1
      <4> QED  BY <4>1, <4>2, <4>3, <4>4
    <3> HIDE DEF n
    <3>9. Asks(g)
      BY <1>1, <1>4, <2>1, <3>1, <3>3, <3>5, <3>6, <3>8 DEF Asks, Waits
    <3>10. /\ Settled(e)
           /\ \/ /\ e.asking /\ e.status = "running" /\ Running(e) = Running(g)
                 /\ Undecided(g) \subseteq Undecided(e)
              \/ /\ ~e.asking /\ e.status = "quit" /\ Running(e) = {}
                 /\ \A i \in Running(g) :
                      Position(g, i) >= g.index => CanClose(g.apps[i])
      BY <2>5, <3>9, AskRight
    <3>11. Undecided(g) = Undecided(d)
      BY <3>1, <3>3 DEF Undecided
    <3>12. ASSUME \A i \in Running(g) : Position(g, i) >= g.index => CanClose(g.apps[i])
           PROVE  Undecided(d) \subseteq {d.waiting}
      <4> SUFFICES ASSUME NEW i \in Undecided(d), i # d.waiting PROVE FALSE
        OBVIOUS
      <4>1. i \in Running(d) /\ ~CanClose(d.apps[i]) /\ ~d.apps[i].requested
        BY DEF Undecided
      <4>2. i \in Nat /\ d.waiting \in Nat
        BY <2>2, <4>1
      <4>3. ~(i < d.waiting)
        BY <2>1, <4>1 DEF Waits
      <4>4. Position(d, i) >= n
        BY <3>7, <4>1, <4>2, <4>3
      <4> QED  BY <3>1, <3>3, <3>6, <3>12, <4>1, <4>4
    <3> QED  BY <1>4, <2>2, <3>3, <3>10, <3>11, <3>12 DEF e
  <2> QED  BY <2>3, <2>4, <2>5
<1> QED  BY <1>2, <1>3, <1>4

\* What the launcher leaves when it is closed.
LEMMA LauncherCloseRight ==
  ASSUME NEW d, Consistent(d)
  PROVE  LET e == LauncherClose(d)
         IN  /\ Consistent(e) /\ e.launcher = NoWindow
             /\ e.apps = d.apps /\ Running(e) = Running(d)
             /\ e.mode = d.mode /\ e.asking = d.asking /\ e.index = d.index
             /\ e.waiting = d.waiting /\ e.status = d.status
             /\ e.wm.open = d.wm.open \ {d.launcher}
             /\ e.wm.next = d.wm.next
<1> DEFINE w == CloseWindow(d.wm, d.launcher)
           e == LauncherClose(d)
<1>1. DeskType(d) /\ Windows(d.wm, d.launcher)
  BY DEF Consistent
<1>2. /\ Windows(w, NoWindow) /\ w.next = d.wm.next
      /\ w.open = d.wm.open \ {d.launcher}
  BY <1>1, WindowsCloseLauncher
<1>3. w \in WmValues
  BY <1>2, WindowsFacts
<1>4. e = [d EXCEPT !.wm = w, !.launcher = NoWindow]
  BY DEF LauncherClose
<1> HIDE DEF w, e
<1>5. /\ e.wm = w /\ e.apps = d.apps /\ e.launcher = NoWindow
      /\ e.mode = d.mode /\ e.asking = d.asking /\ e.index = d.index
      /\ e.waiting = d.waiting /\ e.status = d.status
  BY <1>1, <1>4 DEF DeskType
<1>6. Running(e) = Running(d)
  BY <1>5 DEF Running
<1>7. DeskType(e)
  <2>1. e \in [ wm : WmValues, apps : [Running(d) -> App], launcher : Nat \cup {NoWindow},
                mode : Nat \cup {NoWindow}, asking : BOOLEAN, index : Nat,
                waiting : Nat \cup {NoWindow}, status : {"running", "quit", "lost"} ]
    BY <1>1, <1>3, <1>4 DEF DeskType
  <2> QED  BY <1>6, <2>1 DEF DeskType
<1>8. Consistent(e)
  <2>1. NoWindow \notin Running(d)
    BY RunningFacts
  <2>2. \A i \in Running(d) : i # d.launcher
    BY DEF Consistent
  <2> QED  BY <1>2, <1>5, <1>6, <1>7, <2>1, <2>2 DEF Consistent
<1> QED  BY <1>2, <1>5, <1>6, <1>8 DEF e

(***************************************************************************)
(* Ctrl+Q asks the apps in turn, or closes them all when none has unsaved  *)
(* work.                                                                   *)
(***************************************************************************)
LEMMA BeginRight ==
  ASSUME NEW d, Cleaned(d), ~d.asking, d.status = "running"
  PROVE  LET e == BeginShutdown(d)
         IN  /\ Settled(e)
             /\ \/ /\ e.asking /\ e.status = "running" /\ Running(e) = Running(d)
                   /\ Undecided(e) = Undecided(d) /\ Undecided(d) # {}
                \/ /\ ~e.asking /\ e.status = "quit" /\ Running(e) = {}
                   /\ Undecided(d) = {}
<1> DEFINE c == LauncherClose(d)
           g == [c EXCEPT !.mode = NoWindow, !.asking = TRUE, !.index = 0,
                          !.waiting = NoWindow]
           e == BeginShutdown(d)
<1>1. Consistent(d) /\ Running(d) \subseteq d.wm.open /\ d.launcher \notin Running(d)
  BY DEF Cleaned, Between, Consistent
<1>2. /\ Consistent(c) /\ c.launcher = NoWindow /\ c.apps = d.apps
      /\ Running(c) = Running(d) /\ c.status = "running"
      /\ c.wm.open = d.wm.open \ {d.launcher}
  BY <1>1, LauncherCloseRight
<1>3. e = ContinueShutdown(g)
  BY DEF BeginShutdown
<1> HIDE DEF c, e
<1>4. DeskType(c)
  BY <1>2 DEF Consistent
<1>5. /\ g.wm = c.wm /\ g.apps = c.apps /\ g.launcher = NoWindow /\ g.mode = NoWindow
      /\ g.asking = TRUE /\ g.index = 0 /\ g.waiting = NoWindow /\ g.status = "running"
  BY <1>2, <1>4 DEF DeskType
<1>6. Running(g) = Running(d)
  BY <1>2, <1>5 DEF Running
<1>7. DeskType(g)
  <2>1. g \in [ wm : WmValues, apps : [Running(c) -> App], launcher : Nat \cup {NoWindow},
                mode : Nat \cup {NoWindow}, asking : BOOLEAN, index : Nat,
                waiting : Nat \cup {NoWindow}, status : {"running", "quit", "lost"} ]
    BY <1>4 DEF DeskType
  <2> HIDE DEF g
  <2> QED  BY <1>2, <1>6, <2>1 DEF DeskType
<1> HIDE DEF g
<1>8. Consistent(g)
  BY <1>2, <1>5, <1>6, <1>7 DEF Consistent
<1>9. \A i \in Running(g) : Position(g, i) \in Nat
  BY <1>8, RunningFacts, PositionRight
<1>10. Asks(g)
  <2>1. \A i \in Running(g) : ~(Position(g, i) < g.index)
    BY <1>5, <1>9
  <2>2. Running(g) \subseteq g.wm.open
    BY <1>1, <1>2, <1>5, <1>6
  <2> QED  BY <1>5, <1>8, <2>1, <2>2 DEF Asks
<1>11. e = AskApps(g)
  BY <1>3, <1>5 DEF ContinueShutdown
<1>12. /\ Settled(e)
       /\ \/ /\ e.asking /\ e.status = "running" /\ Running(e) = Running(g)
             /\ Undecided(e) # {}
             /\ (\A i \in Running(g) : ~g.apps[i].requested)
                  => Undecided(e) = Undecided(g)
          \/ /\ ~e.asking /\ e.status = "quit" /\ Running(e) = {}
             /\ \A i \in Running(g) :
                  Position(g, i) >= g.index => CanClose(g.apps[i])
  BY <1>10, <1>11, AskRight
<1>13. Undecided(g) = Undecided(d)
  BY <1>2, <1>5, <1>6 DEF Undecided
<1>14. \A i \in Running(g) : ~g.apps[i].requested
  BY <1>2, <1>5, <1>6 DEF Cleaned
<1>15. (\A i \in Running(g) : Position(g, i) >= g.index => CanClose(g.apps[i]))
         => Undecided(g) = {}
  BY <1>5, <1>9 DEF Undecided
<1> QED  BY <1>6, <1>12, <1>13, <1>14, <1>15 DEF e

\* Drawing a frame ends window mode unless its window can be moved.
LEMMA FrameRight ==
  ASSUME NEW d, Settled(d), NEW e \in RenderFrame(d)
  PROVE  /\ Live(e) /\ e.apps = d.apps /\ e.asking = d.asking /\ e.status = d.status
         /\ e.wm = d.wm /\ e.launcher = d.launcher /\ e.waiting = d.waiting
<1> DEFINE off == [d EXCEPT !.mode = NoWindow]
<1>1. Consistent(d) /\ DeskType(d)
  BY DEF Settled, Cleaned, Between, Consistent
<1>2. e = off \/ (e = d /\ d.mode = d.wm.active /\ d.mode \in Focusable(d.wm))
  BY DEF RenderFrame
<1>3. CASE e = d /\ d.mode = d.wm.active /\ d.mode \in Focusable(d.wm)
  BY <1>3 DEF Live
<1>4. CASE e = off
  <2>1. /\ e.wm = d.wm /\ e.apps = d.apps /\ e.launcher = d.launcher
        /\ e.mode = NoWindow /\ e.asking = d.asking /\ e.index = d.index
        /\ e.waiting = d.waiting /\ e.status = d.status
    BY <1>1, <1>4 DEF DeskType
  <2>2. Running(e) = Running(d)
    BY <2>1 DEF Running
  <2>3. DeskType(e)
    <3>1. e \in [ wm : WmValues, apps : [Running(d) -> App], launcher : Nat \cup {NoWindow},
                  mode : Nat \cup {NoWindow}, asking : BOOLEAN, index : Nat,
                  waiting : Nat \cup {NoWindow}, status : {"running", "quit", "lost"} ]
      BY <1>1, <1>4 DEF DeskType
    <3> QED  BY <2>2, <3>1 DEF DeskType
  <2> HIDE DEF off
  <2>4. Consistent(e)
    BY <1>1, <2>1, <2>2, <2>3 DEF Consistent
  <2>5. Position(e, e.waiting) = Position(d, d.waiting)
    BY <2>1, <2>2 DEF Position
  <2>6. Waits(d) => Waits(e)
    BY <2>1, <2>2, <2>5 DEF Waits
  <2>7. Settled(e)
    BY <2>1, <2>2, <2>4, <2>6 DEF Settled, Cleaned, Between, LauncherOnTop
  <2> QED  BY <2>1, <2>7 DEF Live
<1> QED  BY <1>2, <1>3, <1>4

-----------------------------------------------------------------------------
(***************************************************************************)
(* A round: what follows the event.                                        *)
(***************************************************************************)
\* An event changes the apps at one window at most, and no shutdown.
Touches(d, e, i) ==
  /\ e.asking = d.asking /\ e.status = d.status /\ e.waiting = d.waiting
  /\ Running(d) \subseteq Running(e) /\ Running(e) \subseteq Running(d) \cup {i}
  /\ \A j \in Running(d) \ {i} : e.apps[j] = d.apps[j]

\* The three stages, by name.
LEMMA FinishStages ==
  ASSUME NEW d, Finish(d)
  PROVE  desk' \in RenderFrame(ContinueShutdown(CleanupApps(d)))
BY DEF Finish

(***************************************************************************)
(* Without a shutdown a round changes one app at most, and ends with no    *)
(* app that was allowed to close.                                          *)
(***************************************************************************)
LEMMA OpenRound ==
  ASSUME Live(desk), desk.status = "running", ~desk.asking,
         NEW d, Between(d), NEW i, Touches(desk, d, i), Finish(d)
  PROVE  /\ Live(desk') /\ desk'.status = "running" /\ ~desk'.asking
         /\ Running(desk) \ {i} = Running(desk') \ {i}
         /\ Undecided(desk) \ {i} = Undecided(desk') \ {i}
<1> DEFINE c == CleanupApps(d)
           e == ContinueShutdown(c)
<1>1. d.asking = FALSE /\ d.status = "running"
  BY DEF Touches, Live, Settled, Cleaned, Between, Consistent, DeskType
<1>2. /\ Cleaned(c) /\ c.asking = FALSE /\ c.status = "running"
      /\ Running(c) = {j \in Running(d) : ~d.apps[j].requested}
      /\ \A j \in Running(c) : c.apps[j] = d.apps[j]
  BY <1>1, CleanupAppsRight
<1>3. desk' \in RenderFrame(e)
  BY FinishStages
<1> HIDE DEF c
<1>4. Settled(e) /\ e = c
  BY <1>2, ContinueRight
<1> HIDE DEF e
<1>5. /\ Live(desk') /\ desk'.apps = c.apps /\ desk'.asking = FALSE
      /\ desk'.status = "running"
  BY <1>2, <1>3, <1>4, FrameRight
<1>6. Running(desk') = Running(c)
  BY <1>5 DEF Running
<1>7. \A j \in Running(desk) : ~desk.apps[j].requested
  BY DEF Live, Settled, Cleaned
<1>8. Running(desk) \ {i} = Running(desk') \ {i}
  BY <1>2, <1>6, <1>7 DEF Touches
<1>9. \A j \in Running(desk) \ {i} : desk'.apps[j] = desk.apps[j]
  BY <1>2, <1>5, <1>6, <1>8 DEF Touches
<1>10. Undecided(desk) \ {i} = Undecided(desk') \ {i}
  BY <1>8, <1>9 DEF Undecided
<1> QED  BY <1>5, <1>8, <1>10

(***************************************************************************)
(* While a shutdown asks, a round closes no app unless it closes all, and  *)
(* then nobody but the app of the event was undecided.                     *)
(***************************************************************************)
LEMMA AskingRound ==
  ASSUME Live(desk), desk.status = "running", desk.asking,
         NEW d, Between(d), NEW i, Touches(desk, d, i), Finish(d)
  PROVE  /\ Live(desk')
         /\ \/ /\ desk'.status = "running" /\ desk'.asking
               /\ Running(desk) \subseteq Running(desk')
               /\ Running(desk') \subseteq Running(desk) \cup {i}
               /\ Undecided(desk) \ {i} \subseteq Undecided(desk')
               /\ i \notin Running(desk) \cup Running(desk')
                    => Undecided(desk') = Undecided(desk)
            \/ /\ desk'.status = "running" /\ ~desk'.asking
               /\ Running(desk') = Running(desk) /\ i \in Running(desk)
               /\ Undecided(desk) \ {i} \subseteq Undecided(desk')
            \/ /\ desk'.status = "quit" /\ ~desk'.asking
               /\ Running(desk') = {} /\ i \in Running(desk)
               /\ Undecided(desk) \subseteq {i}
<1> DEFINE c == CleanupApps(d)
           e == ContinueShutdown(c)
<1>1. d.asking /\ d.status = "running" /\ d.waiting = desk.waiting
  BY DEF Touches
<1>2. /\ Cleaned(c) /\ c.asking /\ c.status = "running" /\ c.waiting = desk.waiting
      /\ c.apps = d.apps /\ Running(c) = Running(d)
  BY <1>1, CleanupAppsRight
<1>3. desk' \in RenderFrame(e)
  BY FinishStages
<1>4. /\ desk.waiting \in Running(desk) /\ desk.apps[desk.waiting].pending
  BY DEF Live, Settled, Cleaned, Between, Waits
<1>5. /\ Running(desk) \subseteq Running(c) /\ Running(c) \subseteq Running(desk) \cup {i}
      /\ \A j \in Running(desk) \ {i} : c.apps[j] = desk.apps[j]
  BY <1>2 DEF Touches
<1> HIDE DEF c
<1>6. Undecided(desk) \ {i} \subseteq Undecided(c)
  BY <1>5 DEF Undecided
<1>7. /\ Settled(e)
      /\ c.apps[c.waiting].pending => e = c
      /\ ~c.apps[c.waiting].pending =>
           \/ /\ e.status = "running" /\ Running(e) = Running(c)
              /\ Undecided(c) \subseteq Undecided(e)
           \/ /\ ~e.asking /\ e.status = "quit" /\ Running(e) = {}
              /\ Undecided(c) \subseteq {c.waiting}
  BY <1>2, ContinueRight
<1> HIDE DEF e
<1>8. /\ Live(desk') /\ desk'.apps = e.apps /\ desk'.asking = e.asking
      /\ desk'.status = e.status
  BY <1>3, <1>7, FrameRight
<1>9. Running(desk') = Running(e) /\ Undecided(desk') = Undecided(e)
  BY <1>8 DEF Running, Undecided
<1>10. CASE c.apps[c.waiting].pending
  <2>1. i \notin Running(desk) \cup Running(c) => Undecided(c) = Undecided(desk)
    BY <1>5 DEF Undecided
  <2> QED  BY <1>2, <1>5, <1>6, <1>7, <1>8, <1>9, <1>10, <2>1
<1>11. CASE ~c.apps[c.waiting].pending
  <2>1. i = desk.waiting
    BY <1>2, <1>4, <1>5, <1>11
  <2>2. Running(c) = Running(desk) /\ i \in Running(desk)
    BY <1>4, <1>5, <2>1
  <2>3. e.asking \in BOOLEAN
    BY <1>7 DEF Settled, Cleaned, Between, Consistent, DeskType
  <2>4. CASE /\ e.status = "running" /\ Running(e) = Running(c)
             /\ Undecided(c) \subseteq Undecided(e)
    BY <1>6, <1>8, <1>9, <2>2, <2>3, <2>4
  <2>5. CASE /\ ~e.asking /\ e.status = "quit" /\ Running(e) = {}
             /\ Undecided(c) \subseteq {c.waiting}
    BY <1>2, <1>6, <1>8, <1>9, <2>1, <2>2, <2>5
  <2> QED  BY <1>7, <1>11, <2>4, <2>5
<1> QED  BY <1>10, <1>11

\* After a shutdown began the rest of the round changes no app.
LEMMA SettledRound ==
  ASSUME NEW d, Settled(d), Finish(d)
  PROVE  /\ Live(desk') /\ desk'.asking = d.asking /\ desk'.status = d.status
         /\ Running(desk') = Running(d) /\ Undecided(desk') = Undecided(d)
<1> DEFINE c == CleanupApps(d)
           e == ContinueShutdown(c)
<1>1. Cleaned(d) /\ Between(d) /\ d.asking \in BOOLEAN
  BY DEF Settled, Cleaned, Between, Consistent, DeskType
<1>2. /\ Cleaned(c)
      /\ c.asking = d.asking /\ c.status = d.status /\ c.waiting = d.waiting
      /\ d.asking => c.apps = d.apps /\ Running(c) = Running(d)
      /\ ~d.asking => /\ Running(c) = {i \in Running(d) : ~d.apps[i].requested}
                      /\ \A i \in Running(c) : c.apps[i] = d.apps[i]
  BY <1>1, CleanupAppsRight
<1>3. desk' \in RenderFrame(e)
  BY FinishStages
<1> HIDE DEF c
<1>4. Running(c) = Running(d) /\ \A i \in Running(d) : c.apps[i] = d.apps[i]
  <2>1. CASE d.asking
    BY <1>2, <2>1
  <2>2. CASE ~d.asking
    <3>1. \A i \in Running(d) : ~d.apps[i].requested
      BY <1>1, <2>2 DEF Cleaned
    <3> QED  BY <1>2, <2>2, <3>1
  <2> QED  BY <2>1, <2>2
<1>5. ~c.asking \/ c.apps[c.waiting].pending
  <2>1. CASE d.asking
    BY <1>2, <2>1 DEF Settled
  <2>2. CASE ~d.asking
    BY <1>2, <2>2
  <2> QED  BY <2>1, <2>2
<1>6. Settled(e) /\ e = c
  BY <1>2, <1>5, ContinueRight
<1> HIDE DEF e
<1>7. /\ Live(desk') /\ desk'.apps = c.apps /\ desk'.asking = d.asking
      /\ desk'.status = d.status
  BY <1>2, <1>3, <1>6, FrameRight
<1>8. Running(desk') = Running(d)
  BY <1>4, <1>7 DEF Running
<1>9. Undecided(desk') = Undecided(d)
  BY <1>4, <1>7, <1>8 DEF Undecided
<1> QED  BY <1>7, <1>8, <1>9

-----------------------------------------------------------------------------
(***************************************************************************)
(* The events.  Each changes at most one app, and leaves a desktop in      *)
(* which the clean-up finds what it expects.                               *)
(***************************************************************************)
Event(d, e) == Between(e) /\ \E i \in Nat : Touches(d, e, i)

\* All of the desktop but its windows and its apps.
Kept(d, e) ==
  /\ e.launcher = d.launcher /\ e.mode = d.mode /\ e.asking = d.asking
  /\ e.index = d.index /\ e.waiting = d.waiting /\ e.status = d.status

\* What is true of a desktop before an event.
LEMMA LiveFacts ==
  ASSUME NEW d, Live(d)
  PROVE  /\ Cleaned(d) /\ Between(d) /\ Consistent(d) /\ LauncherOnTop(d)
         /\ DeskType(d) /\ Windows(d.wm, d.launcher)
         /\ d.wm \in WmValues /\ d.asking \in BOOLEAN
         /\ d.launcher \in Nat \cup {NoWindow}
         /\ Running(d) \subseteq d.wm.open /\ Running(d) \in SUBSET Nat
         /\ d.launcher \notin Running(d)
         /\ d.asking => Waits(d)
<1>1. /\ Cleaned(d) /\ Between(d) /\ Consistent(d) /\ LauncherOnTop(d)
      /\ DeskType(d) /\ Windows(d.wm, d.launcher)
      /\ Running(d) \subseteq d.wm.open /\ (d.asking => Waits(d))
      /\ d.launcher \notin Running(d)
  BY DEF Live, Settled, Cleaned, Between, Consistent
<1>2. d.wm \in WmValues /\ d.asking \in BOOLEAN /\ d.launcher \in Nat \cup {NoWindow}
  BY <1>1 DEF DeskType
<1> QED  BY <1>1, <1>2, RunningFacts

\* New windows of the same apps.
LEMMA WmChange ==
  ASSUME NEW d, Consistent(d), NEW w, Windows(w, d.launcher),
         w.open = d.wm.open, w.next \in {d.wm.next, d.wm.next + 1}
  PROVE  LET e == [d EXCEPT !.wm = w]
         IN  /\ Consistent(e) /\ Kept(d, e) /\ e.wm = w /\ e.apps = d.apps
             /\ Running(e) = Running(d)
<1> DEFINE e == [d EXCEPT !.wm = w]
<1>1. DeskType(d) /\ w \in WmValues
  BY WindowsFacts DEF Consistent
<1>2. /\ DeskType(e) /\ Running(e) = Running(d)
      /\ e.wm = w /\ e.apps = d.apps /\ e.launcher = d.launcher
      /\ e.mode = d.mode /\ e.asking = d.asking /\ e.index = d.index
      /\ e.waiting = d.waiting /\ e.status = d.status
  BY <1>1, NewWm
<1> HIDE DEF e
<1>3. Running(e) \subseteq 2 .. e.wm.next - 1
  <2>1. d.wm.next \in Nat /\ Running(d) \subseteq 2 .. d.wm.next - 1
    BY RunningFacts DEF Consistent
  <2>2. 2 .. d.wm.next - 1 \subseteq 2 .. w.next - 1
    BY <2>1
  <2> QED  BY <1>2, <2>1, <2>2
<1>4. Consistent(e)
  BY <1>2, <1>3 DEF Consistent
<1> QED  BY <1>2, <1>4 DEF e, Kept

\* A shutdown still waits when an app is launched or one handles a key.
LEMMA WaitsKept ==
  ASSUME NEW d, Consistent(d), Waits(d), NEW e, Kept(d, e),
         Running(d) \subseteq Running(e),
         Running(e) \subseteq Running(d) \cup {d.wm.next},
         Running(e) \subseteq e.wm.open, d.waiting \in Visible(e.wm),
         \A i \in Running(d) : d.apps[i].requested => e.apps[i].requested
  PROVE  Waits(e)
<1>1. /\ Running(d) \subseteq 2 .. d.wm.next - 1 /\ d.wm.next \in Nat
      /\ d.waiting \in Running(d)
  BY RunningFacts DEF Consistent, Waits
<1>2. \A j \in Running(e) : j < d.waiting => j \in Running(d)
  <2> SUFFICES ASSUME NEW j \in Running(e), j < d.waiting, j \notin Running(d) PROVE FALSE
    OBVIOUS
  <2>1. j = d.wm.next
    OBVIOUS
  <2>2. d.waiting \in 2 .. d.wm.next - 1
    BY <1>1
  <2> QED  BY <1>1, <2>1, <2>2
<1>3. {j \in Running(e) : j < d.waiting} = {j \in Running(d) : j < d.waiting}
  BY <1>2
<1>4. Position(e, e.waiting) = Position(d, d.waiting)
  BY <1>3 DEF Position, Kept
<1>5. \A i \in Running(e) : i < e.waiting => e.apps[i].requested
  BY <1>2 DEF Waits, Kept
<1> QED  BY <1>4, <1>5 DEF Waits, Kept

\* A round without an event.
LEMMA TickEvent ==
  ASSUME NEW d, Live(d)
  PROVE  Event(d, d)
BY LiveFacts DEF Event, Touches

\* F6 and the mouse change the windows only.
LEMMA WmEvent ==
  ASSUME NEW d, Live(d), NEW w, Windows(w, d.launcher),
         w.open = d.wm.open, w.next \in {d.wm.next, d.wm.next + 1},
         d.launcher # NoWindow => w.active = d.launcher,
         d.asking => d.waiting \in Visible(w)
  PROVE  Event(d, [d EXCEPT !.wm = w])
<1> DEFINE e == [d EXCEPT !.wm = w]
<1>1. Consistent(d) /\ (d.asking => Waits(d)) /\ Running(d) \subseteq d.wm.open
  BY LiveFacts
<1>2. /\ Consistent(e) /\ Kept(d, e) /\ e.wm = w /\ e.apps = d.apps
      /\ Running(e) = Running(d)
  BY <1>1, WmChange
<1> HIDE DEF e
<1>3. d.asking => Waits(e)
  BY <1>1, <1>2, WaitsKept
<1>4. Between(e)
  BY <1>2, <1>3 DEF Between, LauncherOnTop, Kept
<1>5. Touches(d, e, 0)
  BY <1>2 DEF Touches, Kept
<1>6. Event(d, e)
  BY <1>4, <1>5 DEF Event
<1> QED  BY <1>6 DEF e

LEMMA NextWindowEvent ==
  ASSUME NEW d, Live(d), d.launcher = NoWindow, ~d.asking
  PROVE  Event(d, [d EXCEPT !.wm = CycleFocus(@)])
<1>1. Windows(d.wm, d.launcher)
  BY LiveFacts
<1> DEFINE w == CycleFocus(d.wm)
<1>2. Windows(w, d.launcher) /\ w.open = d.wm.open /\ w.next = d.wm.next
  <2>1. NoWindow \in Visible(d.wm) \cup {NoWindow}
    OBVIOUS
  <2> QED  BY <1>1, <2>1, WindowsInput
<1> HIDE DEF w
<1>3. Event(d, [d EXCEPT !.wm = w])
  BY <1>2, WmEvent
<1> QED  BY <1>3 DEF w

LEMMA MouseEvent ==
  ASSUME NEW d, Live(d), NEW m, NEW hit \in Visible(d.wm) \cup {NoWindow}, NEW onTitle
  PROVE  Event(d, [d EXCEPT !.wm = CleanupClosed(Pointer(@, m, hit, onTitle))])
<1> DEFINE p == Pointer(d.wm, m, hit, onTitle)
           w == CleanupClosed(p)
<1>1. /\ Windows(d.wm, d.launcher) /\ LauncherOnTop(d)
      /\ d.asking => d.waiting \in Visible(d.wm)
  BY LiveFacts DEF Waits
<1>2. /\ Windows(p, d.launcher) /\ p.open = d.wm.open /\ p.next = d.wm.next
      /\ Visible(p) = Visible(d.wm) /\ (d.launcher # NoWindow => p = d.wm)
  BY <1>1, WindowsInput
<1> HIDE DEF p
<1>3. /\ Windows(w, d.launcher) /\ w.next = p.next /\ w.active = p.active
      /\ w.open = p.open /\ Visible(w) = Visible(p)
  BY <1>2, WindowsClean
<1> HIDE DEF w
<1>4. d.launcher # NoWindow => w.active = d.launcher
  BY <1>1, <1>2, <1>3 DEF LauncherOnTop
<1>5. Event(d, [d EXCEPT !.wm = w])
  BY <1>1, <1>2, <1>3, <1>4, WmEvent
<1> QED  BY <1>5 DEF w, p

\* F9 and Esc switch window mode.
LEMMA ModeEvent ==
  ASSUME NEW d, Live(d), NEW m \in Nat \cup {NoWindow}, d.asking => m = NoWindow
  PROVE  Event(d, [d EXCEPT !.mode = m])
<1> DEFINE e == [d EXCEPT !.mode = m]
<1>1. /\ DeskType(d) /\ Consistent(d) /\ LauncherOnTop(d) /\ (d.asking => Waits(d))
  BY LiveFacts
<1>2. /\ e.wm = d.wm /\ e.apps = d.apps /\ e.launcher = d.launcher
      /\ e.mode = m /\ e.asking = d.asking /\ e.index = d.index
      /\ e.waiting = d.waiting /\ e.status = d.status
  BY <1>1 DEF DeskType
<1>3. Running(e) = Running(d)
  BY <1>2 DEF Running
<1>4. DeskType(e)
  <2>1. e \in [ wm : WmValues, apps : [Running(d) -> App], launcher : Nat \cup {NoWindow},
                mode : Nat \cup {NoWindow}, asking : BOOLEAN, index : Nat,
                waiting : Nat \cup {NoWindow}, status : {"running", "quit", "lost"} ]
    BY <1>1 DEF DeskType
  <2> HIDE DEF e
  <2> QED  BY <1>3, <2>1 DEF DeskType
<1> HIDE DEF e
<1>5. Consistent(e)
  BY <1>1, <1>2, <1>3, <1>4 DEF Consistent
<1>6. Position(e, e.waiting) = Position(d, d.waiting)
  BY <1>2, <1>3 DEF Position
<1>7. d.asking => Waits(e)
  BY <1>1, <1>2, <1>3, <1>6 DEF Waits
<1>8. Between(e)
  BY <1>1, <1>2, <1>5, <1>7 DEF Between, LauncherOnTop
<1>9. Touches(d, e, 0)
  BY <1>2, <1>3 DEF Touches
<1>10. Event(d, e)
  BY <1>8, <1>9 DEF Event
<1> QED  BY <1>10 DEF e

(***************************************************************************)
(* Launching.  The new app is the last, and nothing is hidden.             *)
(***************************************************************************)
LEMMA OpenAppRight ==
  ASSUME NEW d, Consistent(d), NEW kind \in Kinds, NEW hasPath \in BOOLEAN
  PROVE  LET e == OpenApp(d, kind, hasPath)
         IN  /\ Consistent(e) /\ Kept(d, e)
             /\ Running(e) = Running(d) \cup {d.wm.next}
             /\ \A j \in Running(d) : e.apps[j] = d.apps[j]
             /\ e.apps[d.wm.next] = NewApp(kind, hasPath)
             /\ e.wm.open = d.wm.open \cup {d.wm.next}
             /\ Visible(d.wm) \subseteq Visible(e.wm)
<1> DEFINE n == d.wm.next
           w == CreateWindow(d.wm, FALSE, FALSE)
           S == Running(d) \cup {n}
           A(i) == IF i = n THEN NewApp(kind, hasPath) ELSE d.apps[i]
           apps == [i \in S |-> A(i)]
           e == OpenApp(d, kind, hasPath)
<1>1. /\ DeskType(d) /\ Windows(d.wm, d.launcher) /\ DOMAIN d.apps = Running(d)
      /\ d.launcher \notin Running(d) /\ d.launcher # n
  <2>1. d.wm.next \notin d.wm.open /\ d.wm.next \in Nat
    BY RunningFacts
  <2>2. d.launcher # NoWindow => d.launcher \in d.wm.open
    BY WindowsFacts DEF Visible, Consistent
  <2>3. d.wm.next # NoWindow
    BY <2>1 DEF NoWindow
  <2> QED  BY <2>1, <2>2, <2>3 DEF Consistent, Running
<1>2. /\ n \in Nat /\ n > 1 /\ n \notin Running(d) /\ Running(d) \in SUBSET Nat
      /\ d.apps \in [Running(d) -> App]
  BY RunningFacts
<1>3. /\ Windows(w, d.launcher) /\ w.active = n /\ w.next = n + 1
      /\ w.open = d.wm.open \cup {n} /\ Visible(w) = Visible(d.wm) \cup {n}
  <2>1. /\ Windows(w, IF FALSE THEN d.wm.next ELSE d.launcher)
        /\ w.active = n /\ w.next = n + 1
        /\ w.open = d.wm.open \cup {n} /\ Visible(w) = Visible(d.wm) \cup {n}
    BY <1>1, WindowsCreate
  <2> QED  BY <2>1
<1>4. w \in WmValues
  BY <1>3, WindowsFacts
<1>5. \A i \in Running(d) : AppOK(d.apps[i]) /\ (i \in d.wm.open \/ d.apps[i].requested)
  BY DEF Consistent
<1>6. AppOK(NewApp(kind, hasPath))
  BY NewAppRight
<1>7. \A i \in S : AppOK(A(i))
  BY <1>5, <1>6
<1>8. apps \in [S -> App]
  <2>1. \A i \in S : A(i) \in App
    BY <1>7 DEF AppOK
  <2> HIDE DEF A, S
  <2> QED  BY <2>1
<1>9. e = [d EXCEPT !.wm = w, !.apps = apps]
  BY <1>1 DEF OpenApp
<1>10. \A i \in S : apps[i] = A(i)
  OBVIOUS
<1>11. A(n) = NewApp(kind, hasPath) /\ \A i \in Running(d) : A(i) = d.apps[i]
  BY <1>2
<1> HIDE DEF w, apps, e, A
<1>12. /\ e.wm = w /\ e.apps = apps /\ e.launcher = d.launcher
       /\ e.mode = d.mode /\ e.asking = d.asking /\ e.index = d.index
       /\ e.waiting = d.waiting /\ e.status = d.status
  BY <1>1, <1>9 DEF DeskType
<1>13. Running(e) = S
  BY <1>8, <1>12 DEF Running
<1>14. DeskType(e)
  <2>1. e \in [ wm : WmValues, apps : [S -> App], launcher : Nat \cup {NoWindow},
                mode : Nat \cup {NoWindow}, asking : BOOLEAN, index : Nat,
                waiting : Nat \cup {NoWindow}, status : {"running", "quit", "lost"} ]
    BY <1>1, <1>4, <1>8, <1>9 DEF DeskType
  <2> QED  BY <1>13, <2>1 DEF DeskType
<1>15. Consistent(e)
  <2>1. S \subseteq 2 .. w.next - 1
    <3>1. Running(d) \subseteq 2 .. n - 1
      BY DEF Consistent
    <3>2. 2 .. n - 1 \subseteq 2 .. (n + 1) - 1 /\ n \in 2 .. (n + 1) - 1
      BY <1>2
    <3> QED  BY <1>3, <3>1, <3>2
  <2>2. w.open \subseteq {Shell, d.launcher} \cup S
    BY <1>3 DEF Consistent
  <2>3. \A i \in S : AppOK(apps[i]) /\ (i \in w.open \/ apps[i].requested)
    BY <1>3, <1>5, <1>7, <1>10, <1>11
  <2>4. d.launcher \notin S /\ d.status \in {"running", "quit"}
    BY <1>1 DEF Consistent
  <2> HIDE DEF S
  <2> QED  BY <1>3, <1>12, <1>13, <1>14, <2>1, <2>2, <2>3, <2>4 DEF Consistent
<1> QED  BY <1>3, <1>10, <1>11, <1>12, <1>13, <1>15 DEF e, Kept

\* When nothing is launched the apps are what they were.
LEMMA LaunchFailsRight ==
  ASSUME NEW d, Consistent(d), NEW e \in LaunchFails(d)
  PROVE  /\ Consistent(e) /\ Kept(d, e) /\ e.apps = d.apps
         /\ Running(e) = Running(d)
         /\ e.wm.open = d.wm.open /\ Visible(e.wm) = Visible(d.wm)
<1>1. /\ Windows(d.wm, d.launcher) /\ d.wm.next \notin d.wm.open /\ d.wm.next \in Nat
      /\ d.wm.next > 1
  BY RunningFacts DEF Consistent
<1>2. CASE e = d
  BY <1>2 DEF Kept
<1>3. CASE e = [d EXCEPT !.wm = CreateFails(@)]
  <2> DEFINE w == CreateFails(d.wm)
  <2>1. /\ Windows(w, d.launcher) /\ w.next = d.wm.next + 1
        /\ w.open = d.wm.open /\ Visible(w) = Visible(d.wm)
    BY <1>1, WindowsCreateFails
  <2>2. e = [d EXCEPT !.wm = w]
    BY <1>3
  <2> HIDE DEF w
  <2> QED  BY <2>1, <2>2, WmChange
<1>4. CASE e = [d EXCEPT !.wm = CloseWindow(CreateWindow(@, FALSE, FALSE), @.next)]
  <2> DEFINE n == d.wm.next
             v == CreateWindow(d.wm, FALSE, FALSE)
             w == CloseWindow(v, n)
  <2>1. /\ Windows(v, d.launcher) /\ v.next = n + 1
        /\ v.open = d.wm.open \cup {n} /\ Visible(v) = Visible(d.wm) \cup {n}
    <3>1. /\ Windows(v, IF FALSE THEN d.wm.next ELSE d.launcher)
          /\ v.next = n + 1
          /\ v.open = d.wm.open \cup {n} /\ Visible(v) = Visible(d.wm) \cup {n}
      BY <1>1, WindowsCreate
    <3> QED  BY <3>1
  <2>2. e = [d EXCEPT !.wm = w]
    BY <1>4
  <2>3. n \in v.open \ {Shell, d.launcher}
    <3>1. d.launcher # NoWindow => d.launcher \in d.wm.open
      BY <1>1, WindowsFacts DEF Visible
    <3>2. n # NoWindow /\ n # Shell
      BY <1>1 DEF NoWindow, Shell
    <3> QED  BY <1>1, <2>1, <3>1, <3>2
  <2> HIDE DEF v
  <2>4. /\ Windows(w, d.launcher) /\ w.next = v.next
        /\ w.open = v.open \ {n} /\ Visible(w) = Visible(v) \ {n}
    BY <2>1, <2>3, WindowsCloseOne
  <2>5. w.open = d.wm.open /\ Visible(w) = Visible(d.wm) /\ w.next = d.wm.next + 1
    BY <1>1, <2>1, <2>4 DEF Visible
  <2> HIDE DEF w, n
  <2> QED  BY <2>2, <2>4, <2>5, WmChange
<1> QED  BY <1>2, <1>3, <1>4 DEF LaunchFails

\* The app of a kind, when there is one, is brought to the front.
LEMMA RaiseApp ==
  ASSUME NEW d, Consistent(d), NEW id \in d.wm.open
  PROVE  LET e == [d EXCEPT !.wm = Raise(@, id)]
         IN  /\ Consistent(e) /\ Kept(d, e) /\ e.apps = d.apps
             /\ Running(e) = Running(d)
             /\ e.wm.open = d.wm.open /\ Visible(d.wm) \subseteq Visible(e.wm)
<1> DEFINE w == Raise(d.wm, id)
<1>1. Windows(d.wm, d.launcher)
  BY DEF Consistent
<1>2. /\ Windows(w, d.launcher) /\ w.next = d.wm.next
      /\ w.open = d.wm.open /\ Visible(w) = Visible(d.wm) \cup {id}
  BY <1>1, WindowsRaise
<1> HIDE DEF w
<1>3. LET e == [d EXCEPT !.wm = w]
      IN  /\ Consistent(e) /\ Kept(d, e) /\ e.wm = w /\ e.apps = d.apps
          /\ Running(e) = Running(d)
  BY <1>2, WmChange
<1> QED  BY <1>2, <1>3 DEF w

\* Whatever comes of a launch.
LEMMA LaunchRight ==
  ASSUME NEW d, Consistent(d), Running(d) \subseteq d.wm.open,
         NEW kind \in Kinds, NEW hasPath \in BOOLEAN, NEW e \in Launch(d, kind, hasPath)
  PROVE  /\ Consistent(e) /\ Kept(d, e)
         /\ Running(d) \subseteq Running(e)
         /\ Running(e) \subseteq Running(d) \cup {d.wm.next}
         /\ \A j \in Running(d) : e.apps[j] = d.apps[j]
         /\ Running(e) \subseteq e.wm.open /\ Visible(d.wm) \subseteq Visible(e.wm)
<1>1. CASE e = d
  BY <1>1 DEF Kept
<1>2. CASE e \in LaunchFails(d)
  BY <1>2, LaunchFailsRight
<1>3. CASE e = OpenApp(d, kind, hasPath)
  <2> DEFINE f == OpenApp(d, kind, hasPath)
  <2>1. /\ Consistent(f) /\ Kept(d, f)
        /\ Running(f) = Running(d) \cup {d.wm.next}
        /\ \A j \in Running(d) : f.apps[j] = d.apps[j]
        /\ f.wm.open = d.wm.open \cup {d.wm.next}
        /\ Visible(d.wm) \subseteq Visible(f.wm)
    BY OpenAppRight, SMTT(20)
  <2>2. e = f
    BY <1>3
  <2> HIDE DEF f
  <2>3. Running(e) = Running(d) \cup {d.wm.next} /\ e.wm.open = d.wm.open \cup {d.wm.next}
    BY <2>1, <2>2
  <2>4. /\ Running(d) \subseteq Running(e)
        /\ Running(e) \subseteq Running(d) \cup {d.wm.next}
        /\ Running(e) \subseteq e.wm.open
    BY <2>3
  <2> QED  BY <2>1, <2>2, <2>4
<1>4. CASE OfKind(d, kind) # {} /\ e = [d EXCEPT !.wm = Raise(@, First(OfKind(d, kind)))]
  <2> DEFINE S == OfKind(d, kind)
  <2>1. S \in SUBSET Nat /\ S # {} /\ S \subseteq Running(d)
    BY <1>4, RunningFacts DEF OfKind
  <2> HIDE DEF S
  <2>2. First(S) \in S
    BY <2>1, FirstRight
  <2> DEFINE id == First(S)
  <2>3. id \in d.wm.open
    BY <2>1, <2>2
  <2>4. e = [d EXCEPT !.wm = Raise(@, id)]
    BY <1>4 DEF S
  <2> HIDE DEF id
  <2> QED  BY <2>3, <2>4, RaiseApp
<1> QED  BY <1>1, <1>2, <1>3, <1>4 DEF Launch

\* Asking an app to close, or closing it.
LEMMA CloseAppRight ==
  ASSUME NEW d, Consistent(d), NEW id \in Running(d), id \in d.wm.open
  PROVE  LET e == CloseApp(d, id)
         IN  /\ Consistent(e) /\ Kept(d, e) /\ Running(e) = Running(d)
             /\ \A j \in Running(d) \ {id} : e.apps[j] = d.apps[j]
<1> DEFINE asked == RequestAppClose(d.apps[id])
           A(i)  == IF i = id THEN asked ELSE d.apps[i]
           apps  == [i \in Running(d) |-> A(i)]
           w     == IF asked.requested THEN CloseWindow(d.wm, id) ELSE d.wm
           e     == CloseApp(d, id)
<1>1. /\ DeskType(d) /\ Windows(d.wm, d.launcher) /\ id # Shell /\ id # d.launcher
      /\ d.apps \in [Running(d) -> App] /\ Shell \notin Running(d)
  BY RunningFacts DEF Consistent
<1>2. \A i \in Running(d) : AppOK(d.apps[i]) /\ (i \in d.wm.open \/ d.apps[i].requested)
  BY DEF Consistent
<1>3. AppOK(asked) /\ asked.requested \in BOOLEAN
  <2>1. AppOK(d.apps[id])
    BY <1>2
  <2>2. AppOK(asked)
    BY <2>1, RequestRight
  <2> HIDE DEF asked
  <2> QED  BY <2>2 DEF AppOK, App
<1>4. e = [d EXCEPT !.wm = w, !.apps = apps]
  <2>1. [d.apps EXCEPT ![id] = asked] = apps
    BY <1>1
  <2>2. e = [d EXCEPT !.apps = [d.apps EXCEPT ![id] = asked], !.wm = w]
    BY <1>1 DEF CloseApp, DeskType
  <2> HIDE DEF apps, w, e
  <2> QED  BY <1>1, <2>1, <2>2 DEF DeskType
<1> HIDE DEF asked
<1>5. /\ Windows(w, d.launcher) /\ w.next = d.wm.next
      /\ w.open = IF asked.requested THEN d.wm.open \ {id} ELSE d.wm.open
  <2>1. CASE asked.requested
    <3>1. w = CloseWindow(d.wm, id)
      BY <2>1
    <3> HIDE DEF w
    <3>2. /\ Windows(w, d.launcher) /\ w.next = d.wm.next
          /\ w.open = d.wm.open \ {id}
      BY <1>1, <3>1, WindowsCloseOne
    <3> QED  BY <2>1, <3>2
  <2>2. CASE ~asked.requested
    BY <1>1, <2>2
  <2> QED  BY <2>1, <2>2
<1>6. w \in WmValues
  BY <1>5, WindowsFacts
<1>7. \A i \in Running(d) : AppOK(A(i)) /\ (i \in w.open \/ A(i).requested)
  BY <1>2, <1>3, <1>5
<1>8. apps \in [Running(d) -> App]
  <2>1. \A i \in Running(d) : A(i) \in App
    BY <1>7 DEF AppOK
  <2> HIDE DEF A
  <2> QED  BY <2>1
<1>9. \A i \in Running(d) : apps[i] = A(i)
  OBVIOUS
<1>10. \A i \in Running(d) \ {id} : A(i) = d.apps[i]
  OBVIOUS
<1> HIDE DEF w, apps, A, e
<1>11. /\ e.wm = w /\ e.apps = apps /\ e.launcher = d.launcher
       /\ e.mode = d.mode /\ e.asking = d.asking /\ e.index = d.index
       /\ e.waiting = d.waiting /\ e.status = d.status
  BY <1>1, <1>4 DEF DeskType
<1>12. Running(e) = Running(d)
  BY <1>8, <1>11 DEF Running
<1>13. DeskType(e)
  <2>1. e \in [ wm : WmValues, apps : [Running(d) -> App], launcher : Nat \cup {NoWindow},
                mode : Nat \cup {NoWindow}, asking : BOOLEAN, index : Nat,
                waiting : Nat \cup {NoWindow}, status : {"running", "quit", "lost"} ]
    BY <1>1, <1>4, <1>6, <1>8 DEF DeskType
  <2> QED  BY <1>12, <2>1 DEF DeskType
<1>14. Consistent(e)
  <2>1. \A i \in Running(d) : AppOK(apps[i]) /\ (i \in w.open \/ apps[i].requested)
    BY <1>7, <1>9
  <2>2. w.open \subseteq {Shell, d.launcher} \cup Running(d)
    BY <1>5 DEF Consistent
  <2> QED  BY <1>5, <1>11, <1>12, <1>13, <2>1, <2>2 DEF Consistent
<1> QED  BY <1>9, <1>10, <1>11, <1>12, <1>14 DEF e, Kept

\* What makes an event of a desktop that is not shutting down.
LEMMA QuietEvent ==
  ASSUME NEW d, Live(d), ~d.asking, NEW e, Consistent(e), LauncherOnTop(e),
         e.asking = d.asking, e.status = d.status, e.waiting = d.waiting,
         NEW i \in Nat, Running(d) \subseteq Running(e),
         Running(e) \subseteq Running(d) \cup {i},
         \A j \in Running(d) \ {i} : e.apps[j] = d.apps[j]
  PROVE  Event(d, e)
BY DEF Event, Between, Touches

\* Ctrl+W.
LEMMA CloseActiveEvent ==
  ASSUME NEW d, Live(d), ~d.asking, d.launcher = NoWindow, NEW id \in Running(d)
  PROVE  Event(d, CloseApp(d, id))
<1> DEFINE e == CloseApp(d, id)
<1>1. Consistent(d) /\ id \in d.wm.open /\ id \in Nat
  BY LiveFacts
<1>2. /\ Consistent(e) /\ Kept(d, e) /\ Running(e) = Running(d)
      /\ \A j \in Running(d) \ {id} : e.apps[j] = d.apps[j]
  BY <1>1, CloseAppRight
<1> HIDE DEF e
<1>3. Event(d, e)
  BY <1>1, <1>2, QuietEvent DEF Kept, LauncherOnTop
<1> QED  BY <1>3 DEF e

\* F1, F10 and the menu button.
LEMMA LauncherOpenEvent ==
  ASSUME NEW d, Live(d), ~d.asking, d.launcher = NoWindow, NEW e \in LauncherOpen(d)
  PROVE  Event(d, e)
<1>1. /\ DeskType(d) /\ Windows(d.wm, NoWindow) /\ Consistent(d) /\ Live(d)
      /\ d.wm.next \in Nat /\ d.wm.next \notin Running(d)
  BY LiveFacts, RunningFacts
<1>2. CASE e = d
  BY <1>2, TickEvent
<1>3. CASE e = [d EXCEPT !.wm = CreateFails(@)]
  <2> DEFINE w == CreateFails(d.wm)
  <2>1. /\ Windows(w, NoWindow) /\ w.next = d.wm.next + 1
        /\ w.open = d.wm.open
    BY <1>1, WindowsCreateFails
  <2>2. e = [d EXCEPT !.wm = w]
    BY <1>3
  <2> HIDE DEF w
  <2> QED  BY <2>1, <2>2, WmEvent
<1>4. CASE e = [d EXCEPT !.wm = Raise(CreateWindow(@, TRUE, TRUE), @.next),
                         !.launcher = d.wm.next]
  <2> DEFINE n == d.wm.next
             v == CreateWindow(d.wm, TRUE, TRUE)
             w == Raise(v, n)
  <2>1. Windows(v, n) /\ v.next = n + 1 /\ v.open = d.wm.open \cup {n}
    <3>1. /\ Windows(v, IF TRUE THEN d.wm.next ELSE NoWindow)
          /\ v.next = n + 1 /\ v.open = d.wm.open \cup {n}
      BY <1>1, WindowsCreate
    <3> QED  BY <3>1
  <2>2. n \in v.open
    BY <2>1
  <2>3. e = [d EXCEPT !.wm = w, !.launcher = n]
    BY <1>1, <1>4 DEF DeskType
  <2> HIDE DEF v
  <2>4. Windows(w, n) /\ w.active = n /\ w.next = n + 1 /\ w.open = d.wm.open \cup {n}
    BY <2>1, <2>2, WindowsRaise
  <2>5. w \in WmValues
    BY <2>4, WindowsFacts
  <2> HIDE DEF w
  <2>6. /\ e.wm = w /\ e.apps = d.apps /\ e.launcher = n
        /\ e.mode = d.mode /\ e.asking = d.asking /\ e.index = d.index
        /\ e.waiting = d.waiting /\ e.status = d.status
    BY <1>1, <2>3 DEF DeskType
  <2>7. Running(e) = Running(d)
    BY <2>6 DEF Running
  <2>8. DeskType(e)
    <3>1. e \in [ wm : WmValues, apps : [Running(d) -> App], launcher : Nat \cup {NoWindow},
                  mode : Nat \cup {NoWindow}, asking : BOOLEAN, index : Nat,
                  waiting : Nat \cup {NoWindow}, status : {"running", "quit", "lost"} ]
      BY <1>1, <2>3, <2>5 DEF DeskType
    <3> QED  BY <2>7, <3>1 DEF DeskType
  <2>9. Consistent(e)
    <3>1. Running(d) \subseteq 2 .. w.next - 1
      <4>1. Running(d) \subseteq 2 .. n - 1
        BY <1>1 DEF Consistent
      <4>2. 2 .. n - 1 \subseteq 2 .. (n + 1) - 1
        BY <1>1
      <4> QED  BY <2>4, <4>1, <4>2
    <3>2. w.open \subseteq {Shell, n} \cup Running(d)
      BY <1>1, <2>4, WindowsFacts DEF Consistent
    <3>3. \A i \in Running(d) :
            AppOK(d.apps[i]) /\ (i \in w.open \/ d.apps[i].requested)
      BY <1>1, <2>4 DEF Consistent
    <3>4. n \notin Running(d) /\ d.status \in {"running", "quit"}
      BY <1>1 DEF Consistent
    <3> QED  BY <2>4, <2>6, <2>7, <2>8, <3>1, <3>2, <3>3, <3>4 DEF Consistent
  <2>10. LauncherOnTop(e)
    BY <2>4, <2>6 DEF LauncherOnTop
  <2> QED  BY <1>1, <2>6, <2>7, <2>9, <2>10, QuietEvent
<1> QED  BY <1>2, <1>3, <1>4 DEF LauncherOpen

\* F10 and the menu button, once more.
LEMMA LauncherCloseEvent ==
  ASSUME NEW d, Live(d), ~d.asking
  PROVE  Event(d, LauncherClose(d))
<1> DEFINE e == LauncherClose(d)
<1>1. /\ Consistent(e) /\ e.launcher = NoWindow
      /\ e.apps = d.apps /\ Running(e) = Running(d)
      /\ e.asking = d.asking /\ e.waiting = d.waiting /\ e.status = d.status
  BY LiveFacts, LauncherCloseRight
<1> HIDE DEF e
<1>2. Event(d, e)
  BY <1>1, QuietEvent DEF LauncherOnTop
<1> QED  BY <1>2 DEF e

\* The clean-up at the end of an input event.
LEMMA CleanWm ==
  ASSUME NEW d, Consistent(d)
  PROVE  LET e == [d EXCEPT !.wm = CleanupClosed(@)]
         IN  /\ Consistent(e) /\ Kept(d, e) /\ e.apps = d.apps
             /\ Running(e) = Running(d)
             /\ e.wm.open = d.wm.open /\ Visible(e.wm) = Visible(d.wm)
<1> DEFINE w == CleanupClosed(d.wm)
<1>1. /\ Windows(w, d.launcher) /\ w.next = d.wm.next
      /\ w.open = d.wm.open /\ Visible(w) = Visible(d.wm)
  BY WindowsClean DEF Consistent
<1> HIDE DEF w
<1>2. LET e == [d EXCEPT !.wm = w]
      IN  /\ Consistent(e) /\ Kept(d, e) /\ e.wm = w /\ e.apps = d.apps
          /\ Running(e) = Running(d)
  BY <1>1, WmChange
<1> QED  BY <1>1, <1>2 DEF w

\* The same when an app that agreed to close asked for its window to go.
LEMMA CloseWm ==
  ASSUME NEW d, Consistent(d), NEW id \in Running(d), id \in d.wm.open,
         d.apps[id].requested
  PROVE  LET e == [d EXCEPT !.wm = CleanupClosed(RequestClose(@, id))]
         IN  /\ Consistent(e) /\ Kept(d, e) /\ e.apps = d.apps
             /\ Running(e) = Running(d)
<1> DEFINE v == CloseWindow(d.wm, id)
           w == CleanupClosed(RequestClose(d.wm, id))
           e == [d EXCEPT !.wm = w]
<1>1. /\ Windows(d.wm, d.launcher) /\ id \in d.wm.open \ {Shell, d.launcher} /\ DeskType(d)
  BY RunningFacts DEF Consistent
<1>2. /\ v = w /\ Windows(v, d.launcher) /\ v.next = d.wm.next
      /\ v.open = d.wm.open \ {id}
  BY <1>1, WindowsCloseOne
<1> HIDE DEF v, w
<1>3. w \in WmValues
  BY <1>2, WindowsFacts
<1>4. /\ DeskType(e) /\ Running(e) = Running(d)
      /\ e.wm = w /\ e.apps = d.apps /\ e.launcher = d.launcher
      /\ e.mode = d.mode /\ e.asking = d.asking /\ e.index = d.index
      /\ e.waiting = d.waiting /\ e.status = d.status
  BY <1>1, <1>3, NewWm
<1> HIDE DEF e
<1>5. Consistent(e)
  BY <1>2, <1>4 DEF Consistent
<1> QED  BY <1>4, <1>5 DEF e, w, Kept

\* A key or a click in the launcher.
LEMMA LauncherChoiceEvent ==
  ASSUME NEW d, Live(d), d.launcher # NoWindow, NEW action \in LauncherActions,
         NEW e \in LauncherExecute(d, action)
  PROVE  Event(d, [e EXCEPT !.wm = CleanupClosed(@)])
<1>1. /\ Consistent(d) /\ Running(d) \subseteq d.wm.open /\ ~d.asking
      /\ Running(d) \in SUBSET Nat /\ d.launcher \notin Running(d)
      /\ d.wm.next \in Nat
  BY LiveFacts, RunningFacts DEF Waits
<1>2. /\ Consistent(e) /\ e.launcher = NoWindow
      /\ e.asking = d.asking /\ e.status = d.status /\ e.waiting = d.waiting
      /\ \E i \in Nat : /\ Running(d) \subseteq Running(e)
                        /\ Running(e) \subseteq Running(d) \cup {i}
                        /\ \A j \in Running(d) \ {i} : e.apps[j] = d.apps[j]
  <2>1. CASE action \in Kinds
    <3>1. PICK f \in Launch(d, action, FALSE) : e = LauncherClose(f)
      BY <2>1 DEF LauncherExecute, Kinds
    <3>2. /\ Consistent(f) /\ Kept(d, f)
          /\ Running(d) \subseteq Running(f)
          /\ Running(f) \subseteq Running(d) \cup {d.wm.next}
          /\ \A j \in Running(d) : f.apps[j] = d.apps[j]
      BY <1>1, <2>1, LaunchRight
    <3>3. /\ Consistent(e) /\ e.launcher = NoWindow
          /\ e.apps = f.apps /\ Running(e) = Running(f)
          /\ e.asking = f.asking /\ e.waiting = f.waiting /\ e.status = f.status
      BY <3>1, <3>2, LauncherCloseRight
    <3> QED  BY <1>1, <3>2, <3>3 DEF Kept
  <2> DEFINE c == LauncherClose(d)
  <2>2. /\ Consistent(c) /\ c.launcher = NoWindow
        /\ c.apps = d.apps /\ Running(c) = Running(d)
        /\ c.asking = d.asking /\ c.waiting = d.waiting /\ c.status = d.status
        /\ c.wm.open = d.wm.open \ {d.launcher}
    BY <1>1, LauncherCloseRight
  <2>3. CASE action = "close menu"
    <3>1. e = c
      BY <2>3 DEF LauncherExecute, Kinds
    <3> QED  BY <2>2, <3>1
  <2>4. CASE action = "close active"
    <3>1. e = IF c.wm.active \in Running(c) THEN CloseApp(c, c.wm.active) ELSE c
      BY <2>4 DEF LauncherExecute, Kinds
    <3> HIDE DEF c
    <3>2. CASE c.wm.active \notin Running(c)
      BY <2>2, <3>1, <3>2
    <3>3. CASE c.wm.active \in Running(c)
      <4> DEFINE id == c.wm.active
      <4>1. id \in Running(c) /\ id \in c.wm.open /\ id \in Nat
        BY <1>1, <2>2, <3>3
      <4>2. e = CloseApp(c, id)
        BY <3>1, <3>3
      <4> HIDE DEF id
      <4>3. /\ Consistent(e) /\ Kept(c, e) /\ Running(e) = Running(c)
            /\ \A j \in Running(c) \ {id} : e.apps[j] = c.apps[j]
        BY <2>2, <4>1, <4>2, CloseAppRight
      <4> QED  BY <2>2, <4>1, <4>3 DEF Kept
    <3> QED  BY <3>2, <3>3
  <2> QED  BY <2>1, <2>3, <2>4 DEF LauncherActions
<1> DEFINE g == [e EXCEPT !.wm = CleanupClosed(@)]
<1>3. Consistent(g) /\ Kept(e, g) /\ g.apps = e.apps /\ Running(g) = Running(e)
  BY <1>2, CleanWm
<1> HIDE DEF g
<1>4. LauncherOnTop(g)
  BY <1>2, <1>3 DEF LauncherOnTop, Kept
<1>5. Event(d, g)
  <2>1. PICK i \in Nat : /\ Running(d) \subseteq Running(e)
                         /\ Running(e) \subseteq Running(d) \cup {i}
                         /\ \A j \in Running(d) \ {i} : e.apps[j] = d.apps[j]
    BY <1>2
  <2>2. /\ g.asking = d.asking /\ g.status = d.status /\ g.waiting = d.waiting
    BY <1>2, <1>3 DEF Kept
  <2> QED  BY <1>1, <1>3, <1>4, <2>1, <2>2, QuietEvent
<1> QED  BY <1>5 DEF g

\* A click on the button of an app.
LEMMA TaskbarEvent ==
  ASSUME NEW d, Live(d), ~d.asking, NEW kind \in Kinds, NEW e \in TaskbarApp(d, kind)
  PROVE  Event(d, e)
<1> DEFINE c      == LauncherClose(d)
           mine   == OfKind(c, kind)
           later  == {i \in mine : i > c.wm.active}
           among  == IF c.wm.active \in mine /\ later # {} THEN later ELSE mine
           target == First(among)
<1>1. /\ Consistent(d) /\ Running(d) \subseteq d.wm.open
      /\ Running(d) \in SUBSET Nat /\ d.launcher \notin Running(d)
  BY LiveFacts
<1>2. /\ Consistent(c) /\ c.launcher = NoWindow
      /\ c.apps = d.apps /\ Running(c) = Running(d)
      /\ c.asking = d.asking /\ c.waiting = d.waiting /\ c.status = d.status
      /\ c.wm.open = d.wm.open \ {d.launcher}
  BY <1>1, LauncherCloseRight
<1>3. \/ mine = {} /\ e \in Launch(c, kind, FALSE)
      \/ mine # {} /\ e = [c EXCEPT !.wm = MinimizeWindow(@, target)]
      \/ mine # {} /\ e = [c EXCEPT !.wm = Raise(@, target)]
  BY DEF TaskbarApp
<1> HIDE DEF c
<1>4. mine \subseteq Running(c) /\ among \subseteq mine /\ (mine # {} => among # {})
  BY DEF OfKind
<1> HIDE DEF mine, later, among
<1>5. mine # {} => target \in Running(c) /\ target \in c.wm.open /\ target # Shell
  <2> SUFFICES ASSUME mine # {} PROVE target \in Running(c) /\ target \in c.wm.open
                                      /\ target # Shell
    OBVIOUS
  <2>1. among \in SUBSET Nat /\ among # {}
    BY <1>1, <1>2, <1>4
  <2>2. target \in among
    BY <2>1, FirstRight
  <2>3. Shell \notin Running(c)
    BY <1>2, RunningFacts
  <2> QED  BY <1>1, <1>2, <1>4, <2>2, <2>3
<1> HIDE DEF target
<1>6. CASE mine = {} /\ e \in Launch(c, kind, FALSE)
  <2>1. /\ Consistent(e) /\ Kept(c, e)
        /\ Running(c) \subseteq Running(e)
        /\ Running(e) \subseteq Running(c) \cup {c.wm.next}
        /\ \A j \in Running(c) : e.apps[j] = c.apps[j]
    <3>1. Running(c) \subseteq c.wm.open /\ FALSE \in BOOLEAN
      BY <1>1, <1>2
    <3> QED  BY <1>2, <1>6, <3>1, LaunchRight
  <2>2. c.wm.next \in Nat
    BY <1>2, RunningFacts
  <2>3. LauncherOnTop(e)
    BY <1>2, <2>1 DEF LauncherOnTop, Kept
  <2>4. e.asking = d.asking /\ e.status = d.status /\ e.waiting = d.waiting
    BY <1>2, <2>1 DEF Kept
  <2>5. /\ Running(d) \subseteq Running(e)
        /\ Running(e) \subseteq Running(d) \cup {c.wm.next}
        /\ \A j \in Running(d) \ {c.wm.next} : e.apps[j] = d.apps[j]
    BY <1>2, <2>1
  <2> QED  BY <2>1, <2>2, <2>3, <2>4, <2>5, QuietEvent
<1>7. ASSUME NEW w, Windows(w, NoWindow), w.open = c.wm.open, w.next = c.wm.next,
             e = [c EXCEPT !.wm = w]
      PROVE  Event(d, e)
  <2>2. /\ Consistent(e) /\ Kept(c, e) /\ e.wm = w /\ e.apps = c.apps
        /\ Running(e) = Running(c)
    BY <1>2, <1>7, WmChange
  <2>3. LauncherOnTop(e)
    BY <1>2, <2>2 DEF LauncherOnTop, Kept
  <2>4. e.asking = d.asking /\ e.status = d.status /\ e.waiting = d.waiting
    BY <1>2, <2>2 DEF Kept
  <2> QED  BY <1>2, <2>2, <2>3, <2>4, QuietEvent
<1>8. Windows(c.wm, NoWindow)
  BY <1>2 DEF Consistent
<1>9. CASE mine # {} /\ e = [c EXCEPT !.wm = MinimizeWindow(@, target)]
  <2> DEFINE w == MinimizeWindow(c.wm, target)
  <2>1. Windows(w, NoWindow) /\ w.next = c.wm.next /\ w.open = c.wm.open
    BY <1>5, <1>8, <1>9, WindowsMinimize
  <2>2. e = [c EXCEPT !.wm = w]
    BY <1>9
  <2> HIDE DEF w
  <2> QED  BY <1>7, <2>1, <2>2
<1>10. CASE mine # {} /\ e = [c EXCEPT !.wm = Raise(@, target)]
  <2> DEFINE w == Raise(c.wm, target)
  <2>1. Windows(w, NoWindow) /\ w.next = c.wm.next /\ w.open = c.wm.open
    BY <1>5, <1>8, <1>10, WindowsRaise
  <2>2. e = [c EXCEPT !.wm = w]
    BY <1>10
  <2> HIDE DEF w
  <2> QED  BY <1>7, <2>1, <2>2
<1> QED  BY <1>3, <1>6, <1>9, <1>10

\* A key handled by an app changes that app only.
LEMMA AppChange ==
  ASSUME NEW d, Consistent(d), NEW id \in Running(d), NEW a, AppOK(a),
         d.apps[id].requested => a.requested
  PROVE  LET e == [d EXCEPT !.apps[id] = a]
         IN  /\ Consistent(e) /\ Kept(d, e) /\ e.wm = d.wm /\ Running(e) = Running(d)
             /\ e.apps[id] = a /\ \A j \in Running(d) \ {id} : e.apps[j] = d.apps[j]
<1> DEFINE apps == [d.apps EXCEPT ![id] = a]
           e    == [d EXCEPT !.apps = apps]
<1>1. DeskType(d) /\ d.apps \in [Running(d) -> App]
  BY RunningFacts DEF Consistent
<1>2. /\ apps \in [Running(d) -> App] /\ apps[id] = a
      /\ \A j \in Running(d) \ {id} : apps[j] = d.apps[j]
  BY <1>1 DEF AppOK
<1>3. [d EXCEPT !.apps[id] = a] = e
  BY <1>1 DEF DeskType
<1> HIDE DEF apps
<1>4. /\ DeskType(e) /\ Running(e) = Running(d)
      /\ e.wm = d.wm /\ e.apps = apps /\ e.launcher = d.launcher
      /\ e.mode = d.mode /\ e.asking = d.asking /\ e.index = d.index
      /\ e.waiting = d.waiting /\ e.status = d.status
  BY <1>1, <1>2, NewApps
<1> HIDE DEF e
<1>5. \A i \in Running(d) : AppOK(apps[i]) /\ (i \in d.wm.open \/ apps[i].requested)
  <2> TAKE i \in Running(d)
  <2>1. AppOK(d.apps[i]) /\ (i \in d.wm.open \/ d.apps[i].requested)
    BY DEF Consistent
  <2> QED  BY <1>2, <2>1
<1>6. Consistent(e)
  BY <1>4, <1>5 DEF Consistent
<1> QED  BY <1>2, <1>3, <1>4, <1>6 DEF Kept

\* A key that reaches an app, during a shutdown as well.
LEMMA KeyEvent ==
  ASSUME NEW d, Live(d), NEW id \in Running(d), KeyTarget(d.wm) = id,
         NEW e \in KeyInApp(d, id)
  PROVE  Event(d, e)
<1>1. /\ Consistent(d) /\ Running(d) \subseteq d.wm.open /\ d.asking \in BOOLEAN
      /\ Windows(d.wm, d.launcher) /\ Running(d) \in SUBSET Nat
      /\ d.launcher \notin Running(d) /\ (d.asking => Waits(d))
      /\ d.wm.next \in Nat /\ d.wm.next \notin Running(d)
  BY LiveFacts, RunningFacts
<1>2. d.launcher = NoWindow
  BY <1>1, LauncherIsModal
<1>3. AppOK(d.apps[id])
  BY <1>1 DEF Consistent
<1>4. PICK f : /\ \/ \E a \in AppKey(d.apps[id]) : f = [d EXCEPT !.apps[id] = a]
                  \/ f \in Launch(d, "notepad", TRUE)
               /\ e = IF Closes(f, id)
                        THEN [f EXCEPT !.wm = CleanupClosed(RequestClose(@, id))]
                        ELSE [f EXCEPT !.wm = CleanupClosed(@)]
  BY DEF KeyInApp
<1>5. /\ Consistent(f) /\ Kept(d, f)
      /\ Running(d) \subseteq Running(f)
      /\ Running(f) \subseteq Running(d) \cup {d.wm.next}
      /\ Running(f) \subseteq f.wm.open /\ Visible(d.wm) \subseteq Visible(f.wm)
      /\ \A j \in Running(d) : d.apps[j].requested => f.apps[j].requested
      /\ \E i \in Nat : /\ Running(f) \subseteq Running(d) \cup {i}
                        /\ \A j \in Running(d) \ {i} : f.apps[j] = d.apps[j]
  <2>1. CASE \E a \in AppKey(d.apps[id]) : f = [d EXCEPT !.apps[id] = a]
    <3>1. PICK a \in AppKey(d.apps[id]) : f = [d EXCEPT !.apps[id] = a]
      BY <2>1
    <3>2. AppOK(a) /\ (d.apps[id].requested => a.requested)
      BY <1>3, AppKeyRight
    <3>3. /\ Consistent(f) /\ Kept(d, f) /\ f.wm = d.wm /\ Running(f) = Running(d)
          /\ f.apps[id] = a /\ \A j \in Running(d) \ {id} : f.apps[j] = d.apps[j]
      BY <1>1, <3>1, <3>2, AppChange
    <3>4. id \in Nat
      BY <1>1
    <3> QED  BY <1>1, <3>2, <3>3, <3>4
  <2>2. CASE f \in Launch(d, "notepad", TRUE)
    <3>1. "notepad" \in Kinds /\ TRUE \in BOOLEAN
      BY DEF Kinds
    <3>2. /\ Consistent(f) /\ Kept(d, f)
          /\ Running(d) \subseteq Running(f)
          /\ Running(f) \subseteq Running(d) \cup {d.wm.next}
          /\ \A j \in Running(d) : f.apps[j] = d.apps[j]
          /\ Running(f) \subseteq f.wm.open /\ Visible(d.wm) \subseteq Visible(f.wm)
      BY <1>1, <2>2, <3>1, LaunchRight
    <3> QED  BY <1>1, <3>2
  <2> QED  BY <1>4, <2>1, <2>2
<1>6. /\ Consistent(e) /\ Kept(f, e) /\ e.apps = f.apps /\ Running(e) = Running(f)
      /\ f.asking => /\ e.wm.open = f.wm.open
                     /\ Visible(e.wm) = Visible(f.wm)
  <2>1. CASE Closes(f, id)
    <3>1. f.apps[id].requested /\ ~f.asking /\ id \in Running(f) /\ id \in f.wm.open
      BY <1>5, <2>1 DEF Closes
    <3>2. e = [f EXCEPT !.wm = CleanupClosed(RequestClose(@, id))]
      BY <1>4, <2>1
    <3> QED  BY <1>5, <3>1, <3>2, CloseWm
  <2>2. CASE ~Closes(f, id)
    <3>1. e = [f EXCEPT !.wm = CleanupClosed(@)]
      BY <1>4, <2>2
    <3> QED  BY <1>5, <3>1, CleanWm
  <2> QED  BY <2>1, <2>2
<1>7. Kept(d, e)
  BY <1>5, <1>6 DEF Kept
<1>8. d.asking => Waits(e)
  <2> SUFFICES ASSUME d.asking PROVE Waits(e)
    OBVIOUS
  <2>1. Waits(d) /\ d.waiting \in Visible(d.wm)
    BY <1>1 DEF Waits
  <2>2. e.wm.open = f.wm.open /\ Visible(e.wm) = Visible(f.wm)
    BY <1>5, <1>6 DEF Kept
  <2>3. d.waiting \in Visible(e.wm) /\ Running(e) \subseteq e.wm.open
    BY <1>5, <1>6, <2>1, <2>2
  <2> QED  BY <1>1, <1>5, <1>6, <1>7, <2>1, <2>3, WaitsKept
<1>9. Between(e)
  BY <1>2, <1>6, <1>7, <1>8 DEF Between, LauncherOnTop, Kept
<1>10. \E i \in Nat : Touches(d, e, i)
  <2>1. PICK i \in Nat : /\ Running(f) \subseteq Running(d) \cup {i}
                         /\ \A j \in Running(d) \ {i} : f.apps[j] = d.apps[j]
    BY <1>5
  <2>2. Touches(d, e, i)
    BY <1>5, <1>6, <1>7, <2>1 DEF Touches, Kept
  <2> QED  BY <2>2
<1> QED  BY <1>9, <1>10 DEF Event

-----------------------------------------------------------------------------
(***************************************************************************)
(* Every step is a round after one of these events, Ctrl+Q, or the end of  *)
(* the terminal.                                                           *)
(***************************************************************************)
LEMMA NextIsEvent ==
  ASSUME Live(desk), Next
  PROVE  \/ \E d : Event(desk, d) /\ Finish(d)
         \/ Quit \/ InputCloses
<1>1. /\ Windows(desk.wm, desk.launcher) /\ desk.wm.active \in Nat
      /\ Running(desk) \in SUBSET Nat /\ desk.asking \in BOOLEAN
      /\ desk.asking => Waits(desk)
  <2>1. Windows(desk.wm, desk.launcher) /\ desk.asking \in BOOLEAN
    BY LiveFacts
  <2>2. desk.wm.active \in Visible(desk.wm) /\ desk.wm.open \in SUBSET Nat
    BY <2>1, WindowsFacts
  <2> QED  BY <2>1, <2>2, LiveFacts DEF Visible
<1>2. CASE OpenLauncher
  <2>1. PICK d \in LauncherOpen(desk) : Finish(d)
    BY <1>2 DEF OpenLauncher
  <2>2. Event(desk, d)
    BY <1>2, LauncherOpenEvent DEF OpenLauncher, Commands
  <2> QED  BY <2>1, <2>2
<1>3. CASE CloseLauncher
  <2>1. Event(desk, LauncherClose(desk)) /\ Finish(LauncherClose(desk))
    BY <1>3, LauncherCloseEvent DEF CloseLauncher
  <2> QED  BY <2>1
<1>4. CASE NextWindow
  <2> DEFINE d == [desk EXCEPT !.wm = CycleFocus(@)]
  <2>1. Event(desk, d) /\ Finish(d)
    BY <1>4, NextWindowEvent DEF NextWindow, Commands
  <2> HIDE DEF d
  <2> QED  BY <2>1
<1>5. CASE EnterWindowMode
  <2> DEFINE m == desk.wm.active
             d == [desk EXCEPT !.mode = m]
  <2>1. m \in Nat \cup {NoWindow} /\ ~desk.asking /\ Finish(d)
    BY <1>1, <1>5 DEF EnterWindowMode, Commands
  <2> HIDE DEF m
  <2>2. Event(desk, d)
    BY <2>1, ModeEvent
  <2> HIDE DEF d
  <2> QED  BY <2>1, <2>2
<1>6. CASE LeaveWindowMode
  <2> DEFINE d == [desk EXCEPT !.mode = NoWindow]
  <2>1. NoWindow \in Nat \cup {NoWindow}
    OBVIOUS
  <2>2. Event(desk, d) /\ Finish(d)
    BY <1>6, <2>1, ModeEvent DEF LeaveWindowMode
  <2> HIDE DEF d
  <2> QED  BY <2>2
<1>7. CASE CloseActive
  <2> DEFINE id == desk.wm.active
             d  == CloseApp(desk, id)
  <2>1. id \in Running(desk) /\ Finish(d) /\ ~desk.asking /\ desk.launcher = NoWindow
    BY <1>7 DEF CloseActive, Commands
  <2> HIDE DEF id
  <2>2. Event(desk, d)
    BY <2>1, CloseActiveEvent
  <2> HIDE DEF d
  <2> QED  BY <2>1, <2>2
<1>8. CASE KeyToApp
  <2> DEFINE id == KeyTarget(desk.wm)
  <2>1. PICK d \in KeyInApp(desk, id) : id \in Running(desk) /\ Finish(d)
    BY <1>8 DEF KeyToApp
  <2>2. id = KeyTarget(desk.wm)
    OBVIOUS
  <2> HIDE DEF id
  <2>3. Event(desk, d)
    BY <2>1, <2>2, KeyEvent
  <2> QED  BY <2>1, <2>3
<1>9. ASSUME NEW action \in LauncherActions, ChooseInLauncher(action)
      PROVE  \E d : Event(desk, d) /\ Finish(d)
  <2>1. PICK e \in LauncherExecute(desk, action) :
          desk.launcher # NoWindow /\ Finish([e EXCEPT !.wm = CleanupClosed(@)])
    BY <1>9 DEF ChooseInLauncher
  <2> DEFINE d == [e EXCEPT !.wm = CleanupClosed(@)]
  <2>2. Event(desk, d) /\ Finish(d)
    BY <1>9, <2>1, LauncherChoiceEvent
  <2> HIDE DEF d
  <2> QED  BY <2>2
<1>10. ASSUME NEW m, NEW hit \in Visible(desk.wm) \cup {NoWindow}, NEW onTitle,
              Mouse(m, hit, onTitle)
       PROVE  \E d : Event(desk, d) /\ Finish(d)
  <2> DEFINE d == [desk EXCEPT !.wm = CleanupClosed(Pointer(@, m, hit, onTitle))]
  <2>1. Event(desk, d) /\ Finish(d)
    BY <1>10, MouseEvent DEF Mouse
  <2> HIDE DEF d
  <2> QED  BY <2>1
<1>11. CASE ClickMenuButton
  <2>1. CASE desk.launcher # NoWindow
    <3>1. Event(desk, LauncherClose(desk)) /\ Finish(LauncherClose(desk))
      BY <1>11, <2>1, LauncherCloseEvent DEF ClickMenuButton
    <3> QED  BY <3>1
  <2>2. CASE desk.launcher = NoWindow
    <3>1. PICK d \in LauncherOpen(desk) : Finish(d)
      BY <1>11, <2>2 DEF ClickMenuButton
    <3>2. Event(desk, d)
      BY <1>11, <2>2, LauncherOpenEvent DEF ClickMenuButton
    <3> QED  BY <3>1, <3>2
  <2> QED  BY <2>1, <2>2
<1>12. ASSUME NEW kind \in Kinds, ClickAppButton(kind)
       PROVE  \E d : Event(desk, d) /\ Finish(d)
  <2>1. PICK d \in TaskbarApp(desk, kind) : ~desk.asking /\ Finish(d)
    BY <1>12 DEF ClickAppButton
  <2>2. Event(desk, d)
    BY <1>12, <2>1, TaskbarEvent
  <2> QED  BY <2>1, <2>2
<1>13. CASE Tick
  BY <1>13, TickEvent DEF Tick
<1> QED  BY <1>2, <1>3, <1>4, <1>5, <1>6, <1>7, <1>8, <1>9, <1>10, <1>11, <1>12,
            <1>13 DEF Next

-----------------------------------------------------------------------------
(***************************************************************************)
(* The invariant.                                                          *)
(***************************************************************************)
DeskInv == Live(desk) \/ Lost(desk)

\* desktop_create leaves a shell, and nothing that has to be closed.
LEMMA CreatedRight ==
  /\ Consistent(Created) /\ Running(Created) = {} /\ Created.launcher = NoWindow
  /\ Created.mode = NoWindow /\ ~Created.asking /\ Created.status = "running"
<1> DEFINE u == SetDragEnabled(WmInit, DragReliable)
           v == SetDragAutoDegrade(u, KeyboardOnly)
           w == CreateWindow(v, TRUE, FALSE)
<1>1. DragReliable \in BOOLEAN /\ KeyboardOnly \in BOOLEAN
  BY DesktopAssumption
<1>2. /\ WmInv(WmInit) /\ WmInit.open = {} /\ WmInit.fixed = {} /\ WmInit.modal = {}
      /\ WmInit.minimized = {} /\ WmInit.next = 1
  BY WmInitRight DEF WmInit
<1>3. WmInv(u) /\ SameWindows(u, WmInit)
  BY <1>1, <1>2, SetDragRight, SetDragKeepsWindows DEF WmInv, WmTypeOK
<1> HIDE DEF u
<1>4. WmInv(v) /\ SameWindows(v, u)
  BY <1>1, <1>3, SetDragRight, SetDragKeepsWindows DEF WmInv, WmTypeOK
<1> HIDE DEF v
<1>5. /\ WmInv(w) /\ TopInv(w) /\ w.next = v.next + 1
      /\ w.open = v.open \cup {v.next}
      /\ w.fixed = v.fixed \cup (IF TRUE THEN {v.next} ELSE {})
      /\ w.modal = v.modal \cup (IF FALSE THEN {v.next} ELSE {})
      /\ w.minimized = v.minimized
  BY <1>4, CreateTop
<1> HIDE DEF w
<1>6. /\ w.open = {1} /\ w.fixed = {1} /\ w.modal = {} /\ w.minimized = {} /\ w.next = 2
  BY <1>2, <1>3, <1>4, <1>5 DEF SameWindows
<1>7. Windows(w, NoWindow)
  BY <1>5, <1>6 DEF Windows, Shell, NoWindow
<1>8. w \in WmValues
  BY <1>7, WindowsFacts
<1>9. Created = [ wm |-> w, apps |-> [i \in {} |-> NewApp("filemanager", FALSE)],
                  launcher |-> NoWindow, mode |-> NoWindow, asking |-> FALSE, index |-> 0,
                  waiting |-> NoWindow, status |-> "running" ]
  BY DEF Created, u, v, w
<1>10. Running(Created) = {} /\ Created.apps \in [{} -> App]
  BY <1>9 DEF Running
<1>11. DeskType(Created)
  <2>1. Created \in [ wm : WmValues, apps : [{} -> App], launcher : Nat \cup {NoWindow},
                      mode : Nat \cup {NoWindow}, asking : BOOLEAN, index : Nat,
                      waiting : Nat \cup {NoWindow}, status : {"running", "quit", "lost"} ]
    BY <1>8, <1>9
  <2> QED  BY <1>10, <2>1 DEF DeskType
<1>12. /\ Created.wm = w /\ Created.launcher = NoWindow /\ Created.mode = NoWindow
       /\ Created.asking = FALSE /\ Created.status = "running"
  BY <1>9
<1>13. Consistent(Created)
  BY <1>6, <1>7, <1>10, <1>11, <1>12 DEF Consistent, Shell
<1> QED  BY <1>10, <1>12, <1>13

\* The session starts with the shell, and the File Manager if all goes well.
LEMMA InitRight ==
  ASSUME Init
  PROVE  /\ Live(desk) /\ desk.status = "running" /\ ~desk.asking
         /\ Undecided(desk) = {}
<1>1. /\ Consistent(Created) /\ Running(Created) = {} /\ Created.launcher = NoWindow
      /\ Created.mode = NoWindow /\ ~Created.asking /\ Created.status = "running"
  BY CreatedRight
<1>2. /\ Consistent(desk) /\ Kept(Created, desk) /\ Running(desk) \subseteq desk.wm.open
      /\ \A i \in Running(desk) : ~desk.apps[i].requested /\ CanClose(desk.apps[i])
  <2>1. CASE desk = OpenApp(Created, "filemanager", FALSE)
    <3>1. "filemanager" \in Kinds /\ FALSE \in BOOLEAN
      BY DEF Kinds
    <3> DEFINE n == Created.wm.next
               a == NewApp("filemanager", FALSE)
    <3>2. /\ Consistent(desk) /\ Kept(Created, desk)
          /\ Running(desk) = Running(Created) \cup {n}
          /\ desk.apps[n] = a
          /\ desk.wm.open = Created.wm.open \cup {n}
      BY <1>1, <2>1, <3>1, OpenAppRight
    <3>3. ~a.requested /\ CanClose(a)
      BY <3>1, NewAppRight
    <3> QED  BY <1>1, <3>2, <3>3
  <2>2. CASE desk \in LaunchFails(Created)
    BY <1>1, <2>2, LaunchFailsRight
  <2> QED  BY <2>1, <2>2 DEF Init
<1>3. /\ desk.launcher = NoWindow /\ desk.mode = NoWindow /\ ~desk.asking
      /\ desk.status = "running"
  BY <1>1, <1>2 DEF Kept
<1>4. Live(desk)
  BY <1>2, <1>3 DEF Live, Settled, Cleaned, Between, LauncherOnTop
<1>5. Undecided(desk) = {}
  BY <1>2 DEF Undecided
<1> QED  BY <1>3, <1>4, <1>5

\* Ctrl+Q.
LEMMA QuitRound ==
  ASSUME Live(desk), desk.status = "running", Quit
  PROVE  /\ Live(desk')
         /\ \/ /\ desk'.asking /\ desk'.status = "running"
               /\ Running(desk') = Running(desk)
               /\ Undecided(desk') = Undecided(desk) /\ Undecided(desk) # {}
            \/ /\ ~desk'.asking /\ desk'.status = "quit"
               /\ Running(desk') = {} /\ Undecided(desk) = {}
<1> DEFINE d == BeginShutdown(desk)
<1>1. ~desk.asking /\ Finish(d) /\ Cleaned(desk)
  BY LiveFacts DEF Quit
<1>2. /\ Settled(d)
      /\ \/ /\ d.asking /\ d.status = "running" /\ Running(d) = Running(desk)
            /\ Undecided(d) = Undecided(desk) /\ Undecided(desk) # {}
         \/ /\ ~d.asking /\ d.status = "quit" /\ Running(d) = {}
            /\ Undecided(desk) = {}
  BY <1>1, BeginRight
<1> HIDE DEF d
<1>3. /\ Live(desk') /\ desk'.asking = d.asking /\ desk'.status = d.status
      /\ Running(desk') = Running(d) /\ Undecided(desk') = Undecided(d)
  BY <1>1, <1>2, SettledRound
<1> QED  BY <1>2, <1>3

\* The end of the terminal destroys the apps.
LEMMA LostRound ==
  ASSUME Live(desk), InputCloses
  PROVE  Lost(desk') /\ Undecided(desk') = {}
<1> DEFINE e == [desk EXCEPT !.status = "lost", !.apps = [i \in {} |-> @[i]],
                             !.mode = NoWindow, !.asking = FALSE, !.index = 0,
                             !.waiting = NoWindow]
<1>1. DeskType(desk) /\ Windows(desk.wm, desk.launcher) /\ LauncherOnTop(desk)
  BY LiveFacts
<1>2. desk' = e
  BY DEF InputCloses
<1>3. /\ e.wm = desk.wm /\ e.launcher = desk.launcher /\ e.mode = NoWindow
      /\ e.asking = FALSE /\ e.status = "lost" /\ Running(e) = {}
  BY <1>1 DEF DeskType, Running
<1>4. DeskType(e)
  <2>1. e \in [ wm : WmValues, apps : [{} -> App], launcher : Nat \cup {NoWindow},
                mode : Nat \cup {NoWindow}, asking : BOOLEAN, index : Nat,
                waiting : Nat \cup {NoWindow}, status : {"running", "quit", "lost"} ]
    BY <1>1 DEF DeskType
  <2> HIDE DEF e
  <2> QED  BY <1>3, <2>1 DEF DeskType
<1> HIDE DEF e
<1>5. Lost(e) /\ Undecided(e) = {}
  BY <1>1, <1>3, <1>4 DEF Lost, LauncherOnTop, Undecided
<1> QED  BY <1>2, <1>5

\* Every step keeps the invariant.
LEMMA StepRight ==
  ASSUME Live(desk), Next
  PROVE  Live(desk') \/ Lost(desk')
<1>1. desk.status = "running"
  BY DEF Next
<1>2. CASE \E d : Event(desk, d) /\ Finish(d)
  <2>1. PICK d : Event(desk, d) /\ Finish(d)
    BY <1>2
  <2>2. PICK i \in Nat : Touches(desk, d, i)
    BY <2>1 DEF Event
  <2>3. Between(d)
    BY <2>1 DEF Event
  <2> QED  BY <1>1, <2>1, <2>2, <2>3, OpenRound, AskingRound
<1>3. CASE Quit
  BY <1>1, <1>3, QuitRound
<1>4. CASE InputCloses
  BY <1>4, LostRound
<1> QED  BY <1>2, <1>3, <1>4, NextIsEvent

(***************************************************************************)
(* Between two rounds the desktop is settled, or the terminal is gone.     *)
(***************************************************************************)
THEOREM Inductive == Spec => []DeskInv
<1>1. Init => DeskInv
  BY InitRight DEF DeskInv
<1>2. DeskInv /\ [Next]_desk => DeskInv'
  <2> SUFFICES ASSUME DeskInv, [Next]_desk PROVE DeskInv'
    OBVIOUS
  <2>1. CASE UNCHANGED desk
    BY <2>1 DEF DeskInv
  <2>2. CASE Next
    <3>1. desk.status = "running"
      BY <2>2 DEF Next
    <3>2. Live(desk)
      BY <3>1 DEF DeskInv, Lost
    <3> QED  BY <2>2, <3>2, StepRight DEF DeskInv
  <2> QED  BY <2>1, <2>2
<1> QED  BY <1>1, <1>2, PTL DEF Spec

-----------------------------------------------------------------------------
(***************************************************************************)
(* What the runs check, for any number of windows.                         *)
(***************************************************************************)
\* Every window has an owner, and no app is left that agreed to close.
LEMMA OwnedRight ==
  ASSUME DeskInv
  PROVE  WindowsAreOwned
<1>1. SUFFICES ASSUME desk.status # "lost"
      PROVE  /\ desk.wm.open = {Shell} \cup Running(desk) \cup ({desk.launcher} \ {NoWindow})
             /\ ~desk.asking => \A i \in Running(desk) : ~desk.apps[i].requested
  BY DEF WindowsAreOwned
<1>2. Live(desk)
  BY <1>1 DEF DeskInv, Lost
<1>3. /\ Windows(desk.wm, desk.launcher) /\ Running(desk) \subseteq desk.wm.open
      /\ desk.wm.open \subseteq {Shell, desk.launcher} \cup Running(desk)
  BY <1>2, LiveFacts DEF Consistent
<1>4. /\ Shell \in desk.wm.open /\ NoWindow \notin desk.wm.open
      /\ desk.launcher # NoWindow => desk.launcher \in desk.wm.open
  BY <1>3, WindowsFacts DEF Visible
<1>5. ~desk.asking => \A i \in Running(desk) : ~desk.apps[i].requested
  BY <1>2 DEF Live, Settled, Cleaned
<1> QED  BY <1>3, <1>4, <1>5

(***************************************************************************)
(* Every window belongs to the shell, the launcher or a running app, every *)
(* running app has its window, and no app is left that was allowed to      *)
(* close, however apps were launched, closed and asked.                    *)
(***************************************************************************)
THEOREM WindowsOwned == Spec => []WindowsAreOwned
BY Inductive, OwnedRight, PTL

\* The windows are right in every state, also after the terminal is gone.
LEMMA WindowsRight ==
  ASSUME DeskInv
  PROVE  Windows(desk.wm, desk.launcher)
BY LiveFacts DEF DeskInv, Lost

(***************************************************************************)
(* After any sequence of launches, closes, minimizes, restores, cycles and *)
(* shutdown prompts the user types into the window that is on top.         *)
(***************************************************************************)
THEOREM FocusIsOnTop == Spec => []FocusOnTop
<1>1. DeskInv => FocusOnTop
  BY WindowsRight DEF FocusOnTop, Windows, TopInv
<1> QED  BY <1>1, Inductive, PTL

(***************************************************************************)
(* The open launcher has the keyboard and is the only modal window: when   *)
(* it is closed nothing blocks the windows below.                          *)
(***************************************************************************)
THEOREM LauncherGetsKeys == Spec => []LauncherHasKeys
<1>1. DeskInv => LauncherHasKeys
  BY WindowsRight, LauncherIsModal DEF LauncherHasKeys, Windows
<1> QED  BY <1>1, Inductive, PTL

(***************************************************************************)
(* Window mode only ever moves the focused window, which can be moved, and *)
(* ends before the launcher or a shutdown want the keys.                   *)
(***************************************************************************)
THEOREM ModeIsOfFocused == Spec => []ModeMovesFocused
<1>1. DeskInv => ModeMovesFocused
  <2> SUFFICES ASSUME DeskInv, desk.mode # NoWindow
               PROVE  /\ desk.mode = desk.wm.active /\ desk.mode \in Focusable(desk.wm)
                      /\ desk.launcher = NoWindow /\ ~desk.asking
    BY DEF ModeMovesFocused
  <2>1. Live(desk)
    BY DEF DeskInv, Lost
  <2>2. /\ desk.mode = desk.wm.active /\ desk.mode \in Focusable(desk.wm)
    BY <2>1 DEF Live
  <2>3. LauncherOnTop(desk) /\ Windows(desk.wm, desk.launcher)
        /\ (desk.asking => Waits(desk))
    BY <2>1, LiveFacts
  <2>4. desk.launcher # NoWindow => desk.launcher \in desk.wm.fixed
    BY <2>3 DEF Windows
  <2>5. desk.launcher = NoWindow
    BY <2>2, <2>3, <2>4 DEF LauncherOnTop, Focusable
  <2>6. ~desk.asking
    BY <2>3 DEF Waits
  <2> QED  BY <2>2, <2>5, <2>6
<1> QED  BY <1>1, Inductive, PTL

(***************************************************************************)
(* A pending close always shows a way to decide, and a shutdown waits only *)
(* for an app that can be seen and reached.                                *)
(***************************************************************************)
THEOREM PendingAnswerable == Spec => []PendingCanBeAnswered
<1>1. DeskInv => PendingCanBeAnswered
  <2> SUFFICES ASSUME DeskInv PROVE PendingCanBeAnswered
    OBVIOUS
  <2>1. CASE Live(desk)
    <3>1. \A i \in Running(desk) : AppOK(desk.apps[i])
      BY <2>1, LiveFacts DEF Consistent
    <3>2. desk.asking =>
            /\ desk.waiting \in Running(desk) /\ desk.apps[desk.waiting].pending
            /\ desk.waiting \in Visible(desk.wm) /\ desk.launcher = NoWindow
      BY <2>1, LiveFacts DEF Live, Settled, Waits
    <3>3. TopmostModal(desk.wm) = desk.launcher
      BY WindowsRight, LauncherIsModal
    <3> QED  BY <3>1, <3>2, <3>3 DEF PendingCanBeAnswered, AppOK
  <2>2. CASE Lost(desk)
    BY <2>2 DEF Lost, PendingCanBeAnswered
  <2> QED  BY <2>1, <2>2 DEF DeskInv
<1> QED  BY <1>1, Inductive, PTL

(***************************************************************************)
(* shutdown_index stays the place of the app a shutdown waits for, and the *)
(* apps before it agreed: apps launched meanwhile come after it.           *)
(***************************************************************************)
THEOREM AskedInTurn == Spec => []AskedInOrder
<1>1. DeskInv => AskedInOrder
  BY LiveFacts DEF DeskInv, Lost, AskedInOrder, Waits
<1> QED  BY <1>1, Inductive, PTL

(***************************************************************************)
(* A document that differs from what was saved is marked dirty or was      *)
(* discarded by the user, and one marked dirty is asked about.             *)
(***************************************************************************)
THEOREM UnsavedKnown == Spec => []UnsavedIsKnown
<1>1. DeskInv => UnsavedIsKnown
  <2>1. \A i \in Running(desk) : Live(desk) => AppOK(desk.apps[i])
    BY LiveFacts DEF Consistent
  <2>2. Lost(desk) => Running(desk) = {}
    BY DEF Lost
  <2> QED  BY <2>1, <2>2 DEF DeskInv, UnsavedIsKnown, AppOK, CanClose
<1> QED  BY <1>1, Inductive, PTL

-----------------------------------------------------------------------------
(***************************************************************************)
(* The desktop implements the abstract session.                            *)
(***************************************************************************)
\* The phase of the session.
Phase(d) ==
  CASE d.status = "quit" -> "ended"
    [] d.status = "lost" -> "lost"
    [] OTHER -> IF d.asking THEN "asking" ELSE "open"

\* The steps of the session, in terms of the desktop.
LEMMA SessionSteps ==
  ASSUME NEW i
  PROVE  /\ AbstractSession!vars = <<Phase(desk), Running(desk), Undecided(desk)>>
         /\ AbstractSession!Work(i) <=>
              /\ Phase(desk) = "open" /\ Phase(desk') = "open"
              /\ Running(desk) \ {i} = Running(desk') \ {i}
              /\ Undecided(desk) \ {i} = Undecided(desk') \ {i}
         /\ AbstractSession!Ask <=>
              /\ Phase(desk) = "open" /\ Undecided(desk) # {}
              /\ Phase(desk') = "asking"
              /\ Running(desk') = Running(desk) /\ Undecided(desk') = Undecided(desk)
         /\ AbstractSession!Answer(i) <=>
              /\ Phase(desk) = "asking" /\ Phase(desk') = "asking"
              /\ Running(desk) \subseteq Running(desk')
              /\ Running(desk') \subseteq Running(desk) \cup {i}
              /\ Undecided(desk) \ {i} \subseteq Undecided(desk')
         /\ AbstractSession!Cancel(i) <=>
              /\ Phase(desk) = "asking" /\ Phase(desk') = "open"
              /\ Running(desk') = Running(desk)
              /\ Undecided(desk) \ {i} \subseteq Undecided(desk')
         /\ AbstractSession!Quit(i) <=>
              /\ \/ Phase(desk) = "open" /\ Undecided(desk) = {}
                 \/ Phase(desk) = "asking" /\ Undecided(desk) \subseteq {i}
              /\ Phase(desk') = "ended" /\ Running(desk') = {} /\ Undecided(desk') = {}
         /\ AbstractSession!Lose <=>
              /\ Phase(desk) \in {"open", "asking"}
              /\ Phase(desk') = "lost" /\ Running(desk') = {} /\ Undecided(desk') = {}
BY DEF AbstractSession!vars, AbstractSession!Work, AbstractSession!OnlyApp,
       AbstractSession!Ask, AbstractSession!Answer, AbstractSession!Cancel,
       AbstractSession!Quit, AbstractSession!Lose, Phase, Undecided

\* One step of the session, or none.
SessionStep == AbstractSession!Next \/ UNCHANGED AbstractSession!vars

\* What makes such a step.
LEMMA SessionNext ==
  ASSUME \/ \E i \in Running(desk) \cup Running(desk') :
              \/ AbstractSession!Work(i) \/ AbstractSession!Answer(i)
              \/ AbstractSession!Cancel(i) \/ AbstractSession!Quit(i)
         \/ AbstractSession!Quit(0) \/ AbstractSession!Ask \/ AbstractSession!Lose
  PROVE  AbstractSession!Next
BY DEF AbstractSession!Next

\* An event outside a shutdown is work on at most one app.
LEMMA OpenStep ==
  ASSUME Live(desk), desk.status = "running", ~desk.asking,
         NEW d, Between(d), NEW i, Touches(desk, d, i), Finish(d)
  PROVE  SessionStep
<1>1. /\ desk'.status = "running" /\ ~desk'.asking
      /\ Running(desk) \ {i} = Running(desk') \ {i}
      /\ Undecided(desk) \ {i} = Undecided(desk') \ {i}
  BY OpenRound
<1>2. Phase(desk) = "open" /\ Phase(desk') = "open"
  BY <1>1 DEF Phase
<1>3. CASE i \in Running(desk) \cup Running(desk')
  <2>1. AbstractSession!Work(i)
    BY <1>1, <1>2, SessionSteps
  <2> QED  BY <1>3, <2>1, SessionNext DEF SessionStep
<1>4. CASE i \notin Running(desk) \cup Running(desk')
  <2>1. Running(desk') = Running(desk)
    BY <1>1, <1>4
  <2>2. Undecided(desk') = Undecided(desk)
    <3>1. Undecided(desk) \subseteq Running(desk) /\ Undecided(desk') \subseteq Running(desk')
      BY DEF Undecided
    <3> QED  BY <1>1, <1>4, <3>1
  <2>3. UNCHANGED AbstractSession!vars
    BY <1>2, <2>1, <2>2 DEF AbstractSession!vars, Phase, Undecided
  <2> QED  BY <2>3 DEF SessionStep
<1> QED  BY <1>3, <1>4

\* An event during a shutdown is an answer, the last one, or the one that ends it.
LEMMA AskingStep ==
  ASSUME Live(desk), desk.status = "running", desk.asking,
         NEW d, Between(d), NEW i, Touches(desk, d, i), Finish(d)
  PROVE  SessionStep
<1>1. \/ /\ desk'.status = "running" /\ desk'.asking
         /\ Running(desk) \subseteq Running(desk')
         /\ Running(desk') \subseteq Running(desk) \cup {i}
         /\ Undecided(desk) \ {i} \subseteq Undecided(desk')
         /\ i \notin Running(desk) \cup Running(desk')
              => Undecided(desk') = Undecided(desk)
      \/ /\ desk'.status = "running" /\ ~desk'.asking
         /\ Running(desk') = Running(desk) /\ i \in Running(desk)
         /\ Undecided(desk) \ {i} \subseteq Undecided(desk')
      \/ /\ desk'.status = "quit" /\ ~desk'.asking
         /\ Running(desk') = {} /\ i \in Running(desk)
         /\ Undecided(desk) \subseteq {i}
  BY AskingRound
<1>2. Phase(desk) = "asking"
  BY DEF Phase
<1>3. CASE /\ desk'.status = "running" /\ desk'.asking
           /\ Running(desk) \subseteq Running(desk')
           /\ Running(desk') \subseteq Running(desk) \cup {i}
           /\ Undecided(desk) \ {i} \subseteq Undecided(desk')
           /\ i \notin Running(desk) \cup Running(desk')
                => Undecided(desk') = Undecided(desk)
  <2>1. Phase(desk') = "asking"
    BY <1>3 DEF Phase
  <2>2. CASE i \in Running(desk) \cup Running(desk')
    <3>1. AbstractSession!Answer(i)
      BY <1>2, <1>3, <2>1, SessionSteps
    <3> QED  BY <2>2, <3>1, SessionNext DEF SessionStep
  <2>3. CASE i \notin Running(desk) \cup Running(desk')
    <3>1. Running(desk') = Running(desk) /\ Undecided(desk') = Undecided(desk)
      BY <1>3, <2>3
    <3>2. UNCHANGED AbstractSession!vars
      BY <1>2, <2>1, <3>1 DEF AbstractSession!vars, Phase, Undecided
    <3> QED  BY <3>2 DEF SessionStep
  <2> QED  BY <2>2, <2>3
<1>4. CASE /\ desk'.status = "running" /\ ~desk'.asking
           /\ Running(desk') = Running(desk) /\ i \in Running(desk)
           /\ Undecided(desk) \ {i} \subseteq Undecided(desk')
  <2>1. Phase(desk') = "open"
    BY <1>4 DEF Phase
  <2>2. AbstractSession!Cancel(i)
    BY <1>2, <1>4, <2>1, SessionSteps
  <2> QED  BY <1>4, <2>2, SessionNext DEF SessionStep
<1>5. CASE /\ desk'.status = "quit" /\ ~desk'.asking
           /\ Running(desk') = {} /\ i \in Running(desk)
           /\ Undecided(desk) \subseteq {i}
  <2>1. Phase(desk') = "ended" /\ Undecided(desk') = {}
    BY <1>5 DEF Phase, Undecided
  <2>2. AbstractSession!Quit(i)
    BY <1>2, <1>5, <2>1, SessionSteps
  <2> QED  BY <1>5, <2>2, SessionNext DEF SessionStep
<1> QED  BY <1>1, <1>3, <1>4, <1>5

\* Every step of the desktop is a step of the session, or none.
LEMMA StepIsSessionStep ==
  ASSUME Live(desk), Next
  PROVE  SessionStep
<1>1. desk.status = "running" /\ desk.asking \in BOOLEAN
  BY LiveFacts DEF Next
<1>2. CASE \E d : Event(desk, d) /\ Finish(d)
  <2>1. PICK d : Event(desk, d) /\ Finish(d)
    BY <1>2
  <2>2. PICK i \in Nat : Touches(desk, d, i)
    BY <2>1 DEF Event
  <2>3. Between(d)
    BY <2>1 DEF Event
  <2> QED  BY <1>1, <2>1, <2>2, <2>3, OpenStep, AskingStep
<1>3. CASE Quit
  <2>1. \/ /\ desk'.asking /\ desk'.status = "running"
           /\ Running(desk') = Running(desk)
           /\ Undecided(desk') = Undecided(desk) /\ Undecided(desk) # {}
        \/ /\ ~desk'.asking /\ desk'.status = "quit"
           /\ Running(desk') = {} /\ Undecided(desk) = {}
    BY <1>1, <1>3, QuitRound
  <2>2. Phase(desk) = "open"
    BY <1>1, <1>3 DEF Phase, Quit
  <2>3. CASE /\ desk'.asking /\ desk'.status = "running"
             /\ Running(desk') = Running(desk)
             /\ Undecided(desk') = Undecided(desk) /\ Undecided(desk) # {}
    <3>1. Phase(desk') = "asking"
      BY <2>3 DEF Phase
    <3>2. AbstractSession!Ask
      BY <2>2, <2>3, <3>1, SessionSteps
    <3> QED  BY <3>2, SessionNext DEF SessionStep
  <2>4. CASE /\ ~desk'.asking /\ desk'.status = "quit"
             /\ Running(desk') = {} /\ Undecided(desk) = {}
    <3>1. Phase(desk') = "ended" /\ Undecided(desk') = {}
      BY <2>4 DEF Phase, Undecided
    <3>2. AbstractSession!Quit(0)
      BY <2>2, <2>4, <3>1, SessionSteps
    <3> QED  BY <3>2, SessionNext DEF SessionStep
  <2> QED  BY <2>1, <2>3, <2>4
<1>4. CASE InputCloses
  <2>1. /\ desk'.status = "lost" /\ Running(desk') = {} /\ Undecided(desk') = {}
    BY <1>4, LostRound DEF Lost
  <2>2. Phase(desk) \in {"open", "asking"} /\ Phase(desk') = "lost"
    BY <1>1, <2>1 DEF Phase
  <2>3. AbstractSession!Lose
    BY <2>1, <2>2, SessionSteps
  <2> QED  BY <2>3, SessionNext DEF SessionStep
<1> QED  BY <1>2, <1>3, <1>4, NextIsEvent

(***************************************************************************)
(* Quitting is a transaction, with any number of apps and of windows: from *)
(* the moment it is asked for no app closes until all of them do or the    *)
(* shutdown is cancelled, and it never ends while the user has still to    *)
(* decide about the unsaved work of another app.                           *)
(***************************************************************************)
THEOREM QuittingIsTransaction == Spec => QuitIsTransaction
<1>1. Init => AbstractSession!Init
  <2> SUFFICES ASSUME Init PROVE AbstractSession!Init
    OBVIOUS
  <2>1. /\ Running(desk) \in SUBSET Nat /\ desk.status = "running" /\ ~desk.asking
        /\ Undecided(desk) = {}
    BY InitRight, LiveFacts
  <2>2. Phase(desk) = "open"
    BY <2>1 DEF Phase
  <2> QED  BY <2>1, <2>2 DEF AbstractSession!Init, Phase, Undecided
<1>2. DeskInv /\ [Next]_desk => [AbstractSession!Next]_(AbstractSession!vars)
  <2> SUFFICES ASSUME DeskInv, [Next]_desk PROVE SessionStep
    BY DEF SessionStep
  <2>1. CASE UNCHANGED desk
    BY <2>1 DEF SessionStep, AbstractSession!vars, Running
  <2>2. CASE Next
    <3>1. desk.status = "running"
      BY <2>2 DEF Next
    <3>2. Live(desk)
      BY <3>1 DEF DeskInv, Lost
    <3> QED  BY <2>2, <3>2, StepIsSessionStep
  <2> QED  BY <2>1, <2>2
<1> QED  BY <1>1, <1>2, Inductive, PTL DEF Spec, QuitIsTransaction, AbstractSession!Spec
=============================================================================
