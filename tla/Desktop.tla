------------------------------ MODULE Desktop ------------------------------
(***************************************************************************)
(* The desktop of src/core/desktop.c with its window manager, launcher,    *)
(* taskbar, window mode and apps.  A step is one round of desktop_run: an  *)
(* event is dispatched, apps that are closing are cleaned up, a shutdown   *)
(* in progress goes on, and a frame is drawn.                              *)
(***************************************************************************)
EXTENDS DesktopOps

CONSTANTS
  MouseEvents,    \* what a mouse event can report, sets of flags
  DragReliable,   \* capabilities.drag_reliable
  KeyboardOnly    \* capabilities.linux_tty_keyboard_only

ASSUME DesktopAssumption ==
  /\ MouseEvents \subseteq SUBSET {"pressed", "clicked", "released", "moved", "dblclick"}
  /\ {DragReliable, KeyboardOnly} \subseteq BOOLEAN

VARIABLE desk

\* desktop_create: the shell, then the File Manager unless that fails.
Created ==
  [ wm       |-> CreateWindow(SetDragAutoDegrade(SetDragEnabled(WmInit, DragReliable),
                                                 KeyboardOnly),
                              TRUE, FALSE),
    apps     |-> [i \in {} |-> NewApp("filemanager", FALSE)],
    launcher |-> NoWindow,
    mode     |-> NoWindow,
    asking   |-> FALSE,
    index    |-> 0,
    waiting  |-> NoWindow,
    status   |-> "running" ]

Init == desk \in {OpenApp(Created, "filemanager", FALSE)} \cup LaunchFails(Created)

\* The rest of the round, after the event turned the desktop into d.  (Each
\* stage is bound to a name so that TLC evaluates it once.)
Finish(d) ==
  \E handled \in {d} :
    \E cleaned \in {CleanupApps(handled)} :
      \E continued \in {ContinueShutdown(cleaned)} :
        desk' \in RenderFrame(continued)

-----------------------------------------------------------------------------
(***************************************************************************)
(* Keys.  Commands are read only when nothing else has the keyboard.       *)
(***************************************************************************)
Commands ==
  ~desk.asking /\ desk.launcher = NoWindow /\ desk.mode = NoWindow

Quit ==                                              \* Ctrl+Q
  /\ ~desk.asking /\ desk.mode = NoWindow
  /\ Finish(BeginShutdown(desk))

OpenLauncher ==                                      \* F1, F10
  /\ Commands
  /\ \E d \in LauncherOpen(desk) : Finish(d)

CloseLauncher ==                                     \* F10
  /\ ~desk.asking /\ desk.launcher # NoWindow
  /\ Finish(LauncherClose(desk))

NextWindow ==                                        \* F6
  /\ Commands
  /\ Finish([desk EXCEPT !.wm = CycleFocus(@)])

EnterWindowMode ==                                   \* F9
  /\ Commands
  /\ Finish([desk EXCEPT !.mode = desk.wm.active])

LeaveWindowMode ==                                   \* Esc, F9, Enter
  /\ desk.mode # NoWindow
  /\ Finish([desk EXCEPT !.mode = NoWindow])

CloseActive ==                                       \* Ctrl+W
  /\ Commands /\ desk.wm.active \in Running(desk)
  /\ Finish(CloseApp(desk, desk.wm.active))

KeyToApp ==
  /\ desk.mode = NoWindow
  /\ KeyTarget(desk.wm) \in Running(desk)
  /\ \E d \in KeyInApp(desk, KeyTarget(desk.wm)) : Finish(d)

\* A key, or a click on an item, in the launcher.
ChooseInLauncher(action) ==
  /\ desk.launcher # NoWindow /\ desk.launcher = KeyTarget(desk.wm)
  /\ \E d \in LauncherExecute(desk, action) :
       Finish([d EXCEPT !.wm = CleanupClosed(@)])

-----------------------------------------------------------------------------
(***************************************************************************)
(* The mouse.  During a shutdown clicks are dropped, presses are not.      *)
(***************************************************************************)
Mouse(m, hit, onTitle) ==
  /\ ~(desk.asking /\ "clicked" \in m)
  /\ Finish([desk EXCEPT !.wm = CleanupClosed(Pointer(@, m, hit, onTitle))])

ClickMenuButton ==
  /\ ~desk.asking
  /\ \E d \in IF desk.launcher # NoWindow THEN {LauncherClose(desk)}
              ELSE LauncherOpen(desk) :
       Finish(d)

ClickAppButton(kind) ==
  /\ ~desk.asking
  /\ \E d \in TaskbarApp(desk, kind) : Finish(d)

-----------------------------------------------------------------------------
\* A round without an event.
Tick == Finish(desk)

\* The terminal closes or fails: desktop_shutdown destroys the apps.
InputCloses ==
  desk' = [desk EXCEPT !.status = "lost", !.apps = [i \in {} |-> @[i]], !.mode = NoWindow,
                       !.asking = FALSE, !.index = 0, !.waiting = NoWindow]

Next ==
  /\ desk.status = "running"
  /\ \/ Quit \/ OpenLauncher \/ CloseLauncher \/ NextWindow
     \/ EnterWindowMode \/ LeaveWindowMode \/ CloseActive \/ KeyToApp
     \/ \E action \in LauncherActions : ChooseInLauncher(action)
     \/ \E m \in MouseEvents, hit \in Visible(desk.wm) \cup {NoWindow},
           onTitle \in BOOLEAN : Mouse(m, hit, onTitle)
     \/ ClickMenuButton
     \/ \E kind \in Kinds : ClickAppButton(kind)
     \/ Tick \/ InputCloses

Spec == Init /\ [][Next]_desk

(***************************************************************************)
(* A user who keeps answering: who brings the app that is waiting for an   *)
(* answer to the front and, given its attention again and again, presses D *)
(* or Esc in its prompt, or Esc in its Save As.  These are steps of Mouse  *)
(* and of KeyToApp.  Nothing is assumed of what the user does besides.     *)
(***************************************************************************)
Answers(a) ==
  IF a.prompt THEN {Discard(a), CancelPrompt(a)}
  ELSE IF a.saveAs THEN {LeaveSaveAs(a, "cancelled")}
  ELSE {}

PressOnWaiting ==
  /\ desk.asking /\ desk.status = "running"
  /\ desk.wm.active # desk.waiting /\ desk.waiting \in Visible(desk.wm)
  /\ TopmostModal(desk.wm) = NoWindow
  /\ \E raised \in {Raise(desk.wm, desk.waiting)} :
       Finish([desk EXCEPT !.wm = CleanupClosed(raised)])

AnswerWaiting ==
  /\ desk.asking /\ desk.status = "running"
  /\ KeyTarget(desk.wm) = desk.waiting
  /\ \E a \in Answers(desk.apps[desk.waiting]) :
       Finish([desk EXCEPT !.apps[desk.waiting] = a, !.wm = CleanupClosed(@)])

LiveSpec == Spec /\ WF_desk(PressOnWaiting) /\ SF_desk(AnswerWaiting)

-----------------------------------------------------------------------------
(***************************************************************************)
(* Invariants.                                                             *)
(***************************************************************************)

(***************************************************************************)
(* Between events windows and apps correspond: every window but those of   *)
(* the shell and the launcher belongs to a running app, every running app  *)
(* has its window, and no app is left that was allowed to close            *)
(* (desktop.c:578-603).                                                    *)
(***************************************************************************)
WindowsAreOwned ==
  desk.status # "lost" =>
    /\ desk.wm.open = {Shell} \cup Running(desk) \cup ({desk.launcher} \ {NoWindow})
    /\ ~desk.asking => \A i \in Running(desk) : ~desk.apps[i].requested

(***************************************************************************)
(* The focused window is the topmost visible one: after any sequence of    *)
(* launches, closes, minimizes, restores, cycles and shutdown prompts the  *)
(* user types into the window that is on top.                              *)
(***************************************************************************)
FocusOnTop == IsTop(desk.wm, Visible(desk.wm), desk.wm.active)

(***************************************************************************)
(* The open launcher has the keyboard, and no other window is modal: when  *)
(* it is closed nothing blocks the windows below (desktop.c:275-309).      *)
(***************************************************************************)
LauncherHasKeys ==
  /\ desk.wm.modal = {desk.launcher} \ {NoWindow}
  /\ desk.launcher # NoWindow => KeyTarget(desk.wm) = desk.launcher

(***************************************************************************)
(* While arrow keys move a window it is the one with the focus, it can be  *)
(* moved, and neither the launcher nor a shutdown wants the keys           *)
(* (window_mode_bridge.h:43-79).                                           *)
(***************************************************************************)
ModeMovesFocused ==
  desk.mode # NoWindow =>
    /\ desk.mode = desk.wm.active /\ desk.mode \in Focusable(desk.wm)
    /\ desk.launcher = NoWindow /\ ~desk.asking

(***************************************************************************)
(* An app whose close is pending shows the user a way to decide, and a     *)
(* shutdown in progress waits for such an app, whose window can be seen    *)
(* and reached: no shutdown is stuck on an app that cannot be answered     *)
(* (desktop.c:644-686, app_runtime.c:114-144).                             *)
(***************************************************************************)
PendingCanBeAnswered ==
  /\ \A i \in Running(desk) :
       LET a == desk.apps[i]
       IN  a.pending => ~a.requested /\ (a.prompt \/ (a.saveAs /\ a.closeAfter))
  /\ desk.asking =>
       /\ desk.waiting \in Running(desk) /\ desk.apps[desk.waiting].pending
       /\ desk.waiting \in Visible(desk.wm)
       /\ TopmostModal(desk.wm) = NoWindow

(***************************************************************************)
(* While a shutdown waits, shutdown_index is the place of the app it waits *)
(* for, and every app before that place has agreed to close: apps opened   *)
(* or closed meanwhile do not make it skip one (desktop.c:644-686).        *)
(***************************************************************************)
AskedInOrder ==
  desk.asking =>
    /\ Position(desk, desk.waiting) = desk.index
    /\ \A i \in Running(desk) : i < desk.waiting => desk.apps[i].requested

(***************************************************************************)
(* A document that differs from what was saved is marked dirty, so that it *)
(* is asked about and recovered, or else the user discarded it; and one    *)
(* marked dirty is asked about, though it was discarded, or saved at a     *)
(* prompt, before it was edited again (notepad_app.c:152-164, 280-285,     *)
(* 435-466).  One that does not differ may be asked about as well: it is   *)
(* marked dirty when there is no memory to see that.                       *)
(***************************************************************************)
UnsavedIsKnown ==
  \A i \in Running(desk) :
    LET a == desk.apps[i]
    IN  /\ a.unsaved => a.dirty \/ a.forced
        /\ a.dirty => ~CanClose(a)

-----------------------------------------------------------------------------
(***************************************************************************)
(* The desktop implements the abstract session: quitting closes all apps   *)
(* or none, and closes them only after each that would have asked about    *)
(* unsaved work has agreed.  What is done in an app after it agreed, until *)
(* the others have, is not asked about (see DesktopClaims): an app that    *)
(* agreed counts as undecided only when its turn comes, or a cancelled     *)
(* shutdown takes its agreement back.                                      *)
(***************************************************************************)
AbstractSession == INSTANCE Session WITH
  phase     <- CASE desk.status = "quit" -> "ended"
                 [] desk.status = "lost" -> "lost"
                 [] OTHER -> IF desk.asking THEN "asking" ELSE "open",
  alive     <- Running(desk),
  undecided <- {i \in Running(desk) :
                  ~CanClose(desk.apps[i]) /\ ~desk.apps[i].requested}

QuitIsTransaction == AbstractSession!Spec

\* With a user who keeps answering every shutdown is decided.
ShutdownEnds == desk.asking ~> ~desk.asking
=============================================================================
