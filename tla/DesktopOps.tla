----------------------------- MODULE DesktopOps -----------------------------
(***************************************************************************)
(* The functions of src/core/desktop.c on a desktop d, a record of         *)
(*   wm        the window manager (WmOps)                                  *)
(*   apps      the running apps by window id; ids grow, so the array       *)
(*             desktop->apps is in the order of the ids                    *)
(*   launcher  the launcher's window, or NoWindow when it is closed        *)
(*   mode      the window that window mode moves, or NoWindow              *)
(*   asking    shutdown_requested                                          *)
(*   index     shutdown_index                                              *)
(*   waiting   shutdown_waiting_window                                     *)
(*   status    "running", "quit" (shutdown committed), "lost" (the         *)
(*             terminal is gone)                                           *)
(* Windows have no geometry here: any visible window may be under the      *)
(* pointer.                                                                *)
(***************************************************************************)
EXTENDS WmOps, AppOps

CONSTANTS
  Registered,     \* the kinds of apps that can be launched
  MaxWindows      \* bound on the window ids handed out, for model checking

ASSUME DesktopOpsAssumption ==
  /\ Registered \subseteq Kinds
  /\ MaxWindows \in Nat

Shell == 1               \* shell_window_id

Running(d)     == DOMAIN d.apps
OfKind(d, k)   == {i \in Running(d) : d.apps[i].kind = k}
First(S)       == CHOOSE i \in S : \A j \in S : i <= j
Position(d, i) == Cardinality({j \in Running(d) : j < i})

\* Several wm_close_window calls in a row.
CloseWindows(w, S) ==
  IF S \cap w.open = {} THEN w
  ELSE CleanupClosed([w EXCEPT !.closing = @ \cup (S \cap w.open)])

-----------------------------------------------------------------------------
(***************************************************************************)
(* Launching and closing apps.                                             *)
(***************************************************************************)
OpenApp(d, kind, hasPath) ==
  LET id == d.wm.next
  IN  [d EXCEPT !.wm   = CreateWindow(@, FALSE, FALSE),
                !.apps = [i \in DOMAIN @ \cup {id} |->
                            IF i = id THEN NewApp(kind, hasPath) ELSE @[i]]]

\* Mutant: the window of an app whose file cannot be read stays open.
LaunchFailsHalfway(d) == {[d EXCEPT !.wm = CreateWindow(@, FALSE, FALSE)]}

\* Nothing is launched: no memory, too small a screen, or a file that cannot
\* be read, in which case the window is closed again.
LaunchFails(d) ==
  {d, [d EXCEPT !.wm = CreateFails(@)],
      [d EXCEPT !.wm = CloseWindow(CreateWindow(@, FALSE, FALSE), @.next)]}

Launch(d, kind, hasPath) ==
  IF kind # "notepad" /\ OfKind(d, kind) # {}
    THEN {[d EXCEPT !.wm = Raise(@, First(OfKind(d, kind)))]}
  ELSE IF kind \in Registered /\ d.wm.next <= MaxWindows
    THEN {OpenApp(d, kind, hasPath)} \cup LaunchFails(d)
  ELSE {d}

\* Ctrl+W, and Close Active Window of the launcher.
CloseApp(d, id) ==
  LET asked == RequestAppClose(d.apps[id])
  IN  [d EXCEPT !.apps[id] = asked,
                !.wm       = IF asked.requested THEN CloseWindow(@, id) ELSE @]

\* Mutant: apps that agreed to a shutdown close before it is decided.
ClosesEarly(d, i) == d.apps[i].requested

\* An app that was allowed to close does so, but not while a shutdown asks.
Closes(d, i) == d.apps[i].requested /\ ~d.asking

\* After every event: windows of apps that close go, then apps without window.
CleanupApps(d) ==
  LET closing == {i \in Running(d) : Closes(d, i)}
      w       == CloseWindows(d.wm, closing)
      left    == (Running(d) \cap w.open) \ closing
  IN  [d EXCEPT !.wm       = w,
                !.apps     = [i \in left |-> @[i]],
                !.launcher = IF @ \in d.wm.open THEN @ ELSE NoWindow]

-----------------------------------------------------------------------------
(***************************************************************************)
(* The launcher.                                                           *)
(***************************************************************************)
\* Mutant: the launcher is forgotten and its modal window stays.
LauncherForget(d) == [d EXCEPT !.launcher = NoWindow]

LauncherClose(d) ==
  [d EXCEPT !.wm = CloseWindow(@, d.launcher), !.launcher = NoWindow]

\* It stays closed on too small a screen or without memory.
LauncherOpen(d) ==
  IF d.launcher # NoWindow \/ d.wm.next > MaxWindows THEN {d}
  ELSE {d, [d EXCEPT !.wm = CreateFails(@)],
           [d EXCEPT !.wm       = Raise(CreateWindow(@, TRUE, TRUE), @.next),
                     !.launcher = d.wm.next]}

LauncherExecute(d, action) ==
  CASE action \in Kinds ->
         {LauncherClose(e) : e \in Launch(d, action, FALSE)}
    [] action = "close active" ->
         LET e == LauncherClose(d)
         IN  {IF e.wm.active \in Running(e) THEN CloseApp(e, e.wm.active) ELSE e}
    [] action = "close menu" ->
         {LauncherClose(d)}

LauncherActions == Kinds \cup {"close active", "close menu"}

-----------------------------------------------------------------------------
(***************************************************************************)
(* Shutdown.                                                               *)
(***************************************************************************)
\* Mutant: the apps that agreed keep their requests.
CancelShutdownOnly(d) == [d EXCEPT !.asking = FALSE, !.index = 0, !.waiting = NoWindow]

CancelShutdown(d) ==
  [d EXCEPT !.apps    = [i \in DOMAIN @ |-> ResetCloseRequest(@[i])],
            !.asking  = FALSE,
            !.index   = 0,
            !.waiting = NoWindow]

CommitShutdown(d) ==
  LET closed == CleanupApps([d EXCEPT !.asking  = FALSE,
                                      !.waiting = NoWindow,
                                      !.wm      = CloseWindows(@, Running(d))])
  IN  [closed EXCEPT !.index = 0, !.status = "quit"]

\* Asks the apps from shutdown_index on, up to the first that defers.
AskApps(d) ==
  LET rest   == {i \in Running(d) : Position(d, i) >= d.index}
      defer  == {i \in rest : ~CanClose(d.apps[i])}
      first  == First(defer)
      asked  == IF defer = {} THEN rest ELSE {i \in rest : i <= first}
      e      == [d EXCEPT !.apps = [i \in DOMAIN @ |->
                   IF i \in asked THEN RequestAppClose(@[i]) ELSE @[i]]]
  IN  IF defer = {}
        THEN CommitShutdown(e)
        ELSE [e EXCEPT !.index   = Position(d, first),
                       !.waiting = first,
                       !.wm      = Raise(@, first)]

ContinueShutdown(d) ==
  LET a == d.apps[d.waiting]
  IN  IF ~d.asking THEN d
      ELSE IF d.waiting = NoWindow THEN AskApps(d)
      ELSE IF d.waiting \notin Running(d) THEN CancelShutdown(d)
      ELSE IF a.pending THEN d
      ELSE IF a.result = "cancelled" \/ ~a.requested THEN CancelShutdown(d)
      ELSE AskApps([d EXCEPT !.waiting = NoWindow, !.index = @ + 1])

BeginShutdown(d) ==
  IF d.asking THEN d
  ELSE ContinueShutdown([LauncherClose(d) EXCEPT !.mode    = NoWindow,
                                                 !.asking  = TRUE,
                                                 !.index   = 0,
                                                 !.waiting = NoWindow])

-----------------------------------------------------------------------------
(***************************************************************************)
(* Keys that reach an app, and the taskbar.                                *)
(***************************************************************************)

\* The app at id handles a key; the File Manager may open a file in Notepad.
KeyInApp(d, id) ==
  LET handled == {[d EXCEPT !.apps[id] = a] : a \in AppKey(d.apps[id])}
      opened  == IF d.apps[id].kind = "filemanager"
                   THEN Launch(d, "notepad", TRUE) ELSE {}
  IN  {IF Closes(e, id) THEN [e EXCEPT !.wm = CleanupClosed(RequestClose(@, id))]
       ELSE [e EXCEPT !.wm = CleanupClosed(@)] : e \in handled \cup opened}

\* A click on the button of an app.  The button shows focus as of the last
\* frame, drawn while the launcher, if open, had it.
TaskbarApp(d, kind) ==
  LET focused == d.wm.active \in OfKind(d, kind)
      e       == LauncherClose(d)
      mine    == OfKind(e, kind)
      later   == {i \in mine : i > e.wm.active}
      target  == First(IF e.wm.active \in mine /\ later # {} THEN later ELSE mine)
  IN  IF mine = {} THEN Launch(e, kind, FALSE)
      ELSE IF focused /\ e.wm.active = target /\ CanMinimize(e.wm, target)
        THEN {[e EXCEPT !.wm = MinimizeWindow(@, target)]}
      ELSE {[e EXCEPT !.wm = Raise(@, target)]}

\* Mutant: window mode outlives the focus of its window.
RenderFrameUnfocused(d) ==
  IF d.mode \in Focusable(d.wm) THEN {d} ELSE {[d EXCEPT !.mode = NoWindow]}

\* Drawing a frame ends window mode when its window lost the focus, is fixed
\* or hidden, or is maximized (a state that is not kept here).
RenderFrame(d) ==
  LET off == [d EXCEPT !.mode = NoWindow]
  IN  IF d.mode = d.wm.active /\ d.mode \in Focusable(d.wm) THEN {d, off} ELSE {off}
=============================================================================
