------------------------ MODULE PlatformInput_proofs ------------------------
(***************************************************************************)
(* Proofs for any inputs, features and sizes: the terminal is given back   *)
(* however the start-up or the program ends, and every event is the next   *)
(* thing the user did, however reads cut the bytes that say so.            *)
(***************************************************************************)
EXTENDS PlatformInput, SequenceTheorems, WellFoundedInduction, NaturalsInduction, TLAPS

Handlers == [Signals -> {"default", "ignored", "ours", "error"}]

TermStates ==
  [mode : {"shell", "raw", "curses", "editor"}, tracking : BOOLEAN, handlers : Handlers]

PlatStates ==
  [rawEnabled : BOOLEAN, curses : BOOLEAN, savedMode : BOOLEAN, forced : BOOLEAN,
   installed : BOOLEAN, previous : Handlers, mouse : BOOLEAN, resizes : BOOLEAN]

Taken == [term : TermStates, plat : PlatStates]

(***************************************************************************)
(* Every change to the terminal is one the program remembers, and so has   *)
(* something that undoes it.  The handlers are the program's, or what a    *)
(* start-up that fails leaves of the shell's.                              *)
(***************************************************************************)
Remembered(t) ==
  /\ t.term.mode # "shell" => t.plat.rawEnabled \/ t.plat.curses
  /\ t.term.tracking => t.plat.forced
  /\ IF t.plat.installed THEN t.plat.previous = ShellHandlers
     ELSE t.term.handlers = LeftHandlers(t.plat.previous)

\* The terminal as the shell had it, but for the handlers.
Bare(handlers) == [mode |-> "shell", tracking |-> FALSE, handlers |-> handlers]

SameHandlers(u, t) ==
  /\ u.term.handlers = t.term.handlers
  /\ u.plat.installed = t.plat.installed /\ u.plat.previous = t.plat.previous

\* What the shell has signals do, and that nothing is changed unless INT fails.
LEMMA ShellSignals ==
  /\ ShellHandlers \in Handlers /\ ShellHandlers.INT # "error"
  /\ \A h \in Handlers : LeftHandlers(h) \in Handlers
  /\ \A h \in Handlers : h.INT # "error" => LeftHandlers(h) = ShellHandlers
<1>1. ShellHandlers \in Handlers /\ ShellHandlers["INT"] # "error"
  BY InputAssumption DEF Handlers, Signals
<1>2. ASSUME NEW h \in Handlers PROVE LeftHandlers(h) \in Handlers
  <2> DEFINE x == IF h.INT = "error" THEN "default" ELSE ShellHandlers.TERM
  <2>1. LeftHandlers(h) = [ShellHandlers EXCEPT !.TERM = x]
    BY DEF LeftHandlers
  <2>2. x \in {"default", "ignored", "ours", "error"}
    BY <1>1 DEF Handlers, Signals
  <2> HIDE DEF x
  <2> QED  BY <1>1, <2>1, <2>2 DEF Handlers
<1>3. ASSUME NEW h \in Handlers, h.INT # "error" PROVE LeftHandlers(h) = ShellHandlers
  <2>1. LeftHandlers(h) = [ShellHandlers EXCEPT !.TERM = ShellHandlers.TERM]
    BY <1>3 DEF LeftHandlers
  <2> QED  BY <1>1, <2>1 DEF Handlers
<1> QED  BY <1>1, <1>2, <1>3

\* The terminal of the shell and what is remembered of it, nothing.
LEMMA ShellStates ==
  /\ ShellTerm \in TermStates /\ ShellTerm.mode = "shell" /\ ShellTerm.tracking = FALSE
  /\ ShellTerm.handlers = ShellHandlers /\ ShellTerm = Bare(ShellHandlers)
  /\ NewPlatform \in PlatStates /\ NewPlatform.installed = FALSE
  /\ NewPlatform.previous.INT # "error" /\ LeftHandlers(NewPlatform.previous) = ShellHandlers
  /\ \A u \in TermStates, h \in Handlers :
        u.mode = "shell" /\ u.tracking = FALSE /\ u.handlers = h => u = Bare(h)
<1>1. ShellTerm = Bare(ShellHandlers)
  BY DEF ShellTerm, Bare
<1>2. /\ ShellTerm.mode = "shell" /\ ShellTerm.tracking = FALSE
      /\ ShellTerm.handlers = ShellHandlers
  BY <1>1 DEF Bare
<1>3. ShellTerm \in TermStates
  BY <1>1, ShellSignals DEF TermStates, Bare
<1>4. ASSUME NEW u \in TermStates, NEW h \in Handlers,
             u.mode = "shell", u.tracking = FALSE, u.handlers = h
      PROVE  u = Bare(h)
  BY <1>4 DEF TermStates, Bare
<1> DEFINE none == [s \in Signals |-> "default"]
<1>5. none \in Handlers /\ none["INT"] # "error"
  BY DEF Handlers, Signals
<1> HIDE DEF none
<1>6. /\ NewPlatform \in PlatStates
      /\ NewPlatform.previous = none /\ NewPlatform.installed = FALSE
  BY <1>5 DEF NewPlatform, PlatStates, none
<1>7. LeftHandlers(NewPlatform.previous) = ShellHandlers
  BY <1>5, <1>6, ShellSignals
<1> QED  BY <1>1, <1>2, <1>3, <1>4, <1>5, <1>6, <1>7

(***************************************************************************)
(* platform_tty_disable_mouse_tracking, platform_tty_disable_raw_mode,     *)
(* platform_curses_destroy and platform_restore_signal_handlers: what each *)
(* gives back, and that it leaves the rest alone.                          *)
(***************************************************************************)
LEMMA TrackingOff ==
  ASSUME NEW t \in Taken, t.term.tracking => t.plat.forced
  PROVE  LET u == DisableTracking(t)
         IN  /\ u \in Taken
             /\ u.term.tracking = FALSE /\ u.plat.forced = FALSE
             /\ u.term.mode = t.term.mode /\ SameHandlers(u, t)
             /\ u.plat.rawEnabled = t.plat.rawEnabled /\ u.plat.curses = t.plat.curses
<1> DEFINE u == [t EXCEPT !.term.tracking = FALSE, !.plat.forced = FALSE]
<1>1. u \in Taken
  BY DEF Taken, TermStates, PlatStates
<1>2. u.term.tracking = FALSE /\ u.term.mode = t.term.mode
  BY DEF Taken, TermStates, PlatStates
<1>3. u.plat.forced = FALSE /\ u.plat.rawEnabled = t.plat.rawEnabled
  BY DEF Taken, TermStates, PlatStates
<1>4. u.plat.curses = t.plat.curses /\ SameHandlers(u, t)
  BY DEF SameHandlers, Taken, TermStates, PlatStates
<1>5. CASE t.plat.forced
  <2>1. DisableTracking(t) = u
    BY <1>5 DEF DisableTracking
  <2> HIDE DEF u
  <2> QED  BY <1>1, <1>2, <1>3, <1>4, <2>1
<1>6. CASE ~t.plat.forced
  <2>1. DisableTracking(t) = t
    BY <1>6 DEF DisableTracking
  <2> QED  BY <1>6, <2>1 DEF SameHandlers, Taken, TermStates, PlatStates
<1> QED  BY <1>5, <1>6

LEMMA RawOff ==
  ASSUME NEW t \in Taken
  PROVE  LET u == DisableRaw(t)
         IN  /\ u \in Taken
             /\ u.plat.rawEnabled = FALSE
             /\ u.term.mode = IF t.plat.rawEnabled THEN "shell" ELSE t.term.mode
             /\ u.term.tracking = t.term.tracking /\ SameHandlers(u, t)
             /\ u.plat.curses = t.plat.curses
<1> DEFINE mode == IF t.plat.rawEnabled THEN "shell" ELSE t.term.mode
           u    == [t EXCEPT !.term.mode = mode, !.plat.rawEnabled = FALSE]
<1>1. DisableRaw(t) = u
  BY DEF DisableRaw
<1>2. mode \in {"shell", "raw", "curses", "editor"}
  BY DEF Taken, TermStates, PlatStates
<1> HIDE DEF mode
<1>3. u \in Taken
  BY <1>2 DEF Taken, TermStates, PlatStates
<1>4. u.term.mode = mode /\ u.term.tracking = t.term.tracking /\ SameHandlers(u, t)
  BY DEF SameHandlers, Taken, TermStates, PlatStates
<1>5. u.plat.rawEnabled = FALSE /\ u.plat.curses = t.plat.curses
  BY DEF Taken, TermStates, PlatStates
<1> HIDE DEF u
<1> QED  BY <1>1, <1>3, <1>4, <1>5 DEF mode

LEMMA ModeRestored ==
  ASSUME NEW t \in Taken
  PROVE  LET u == RestoreMode(t)
         IN  /\ u \in Taken
             /\ u.term.mode \in {"shell", t.term.mode}
             /\ u.term.tracking = t.term.tracking /\ SameHandlers(u, t)
             /\ u.plat.rawEnabled = t.plat.rawEnabled /\ u.plat.curses = t.plat.curses
             /\ u.plat.forced = t.plat.forced
<1> DEFINE mode == IF t.plat.savedMode THEN "shell" ELSE t.term.mode
           u    == [t EXCEPT !.term.mode = mode, !.plat.savedMode = FALSE]
<1>1. RestoreMode(t) = u
  BY DEF RestoreMode
<1>2. mode \in {"shell", "raw", "curses", "editor"} /\ mode \in {"shell", t.term.mode}
  BY DEF Taken, TermStates, PlatStates
<1> HIDE DEF mode
<1>3. u \in Taken
  BY <1>2 DEF Taken, TermStates, PlatStates
<1>4. u.term.mode = mode /\ u.term.tracking = t.term.tracking /\ SameHandlers(u, t)
  BY DEF SameHandlers, Taken, TermStates, PlatStates
<1>5. u.plat.rawEnabled = t.plat.rawEnabled /\ u.plat.curses = t.plat.curses
  BY DEF Taken, TermStates, PlatStates
<1>6. u.plat.forced = t.plat.forced
  BY DEF Taken, TermStates, PlatStates
<1> HIDE DEF u
<1> QED  BY <1>1, <1>2, <1>3, <1>4, <1>5, <1>6

LEMMA CursesOff ==
  ASSUME NEW t \in Taken
  PROVE  LET u == EndCurses(t)
         IN  /\ u \in Taken
             /\ u.plat.curses = FALSE
             /\ u.term.mode \in {"shell", t.term.mode}
             /\ t.plat.curses => u.term.mode = "shell"
             /\ u.term.tracking = t.term.tracking /\ SameHandlers(u, t)
             /\ u.plat.rawEnabled = t.plat.rawEnabled /\ u.plat.forced = t.plat.forced
<1> DEFINE mode == IF t.plat.curses THEN "shell" ELSE t.term.mode
           v    == [t EXCEPT !.term.mode = mode, !.plat.curses = FALSE]
<1>1. EndCurses(t) = RestoreMode(v)
  BY DEF EndCurses
<1>2. mode \in {"shell", "raw", "curses", "editor"}
  BY DEF Taken, TermStates, PlatStates
<1>3. mode \in {"shell", t.term.mode} /\ (t.plat.curses => mode = "shell")
  OBVIOUS
<1> HIDE DEF mode
<1>4. v \in Taken
  BY <1>2 DEF Taken, TermStates, PlatStates
<1>5. v.term.mode = mode /\ v.term.tracking = t.term.tracking /\ SameHandlers(v, t)
  BY DEF SameHandlers, Taken, TermStates, PlatStates
<1>6. v.plat.rawEnabled = t.plat.rawEnabled /\ v.plat.curses = FALSE
  BY DEF Taken, TermStates, PlatStates
<1>7. v.plat.forced = t.plat.forced
  BY DEF Taken, TermStates, PlatStates
<1> HIDE DEF v
<1>8. LET u == RestoreMode(v)
      IN  /\ u \in Taken
          /\ u.term.mode \in {"shell", v.term.mode}
          /\ u.term.tracking = v.term.tracking /\ SameHandlers(u, v)
          /\ u.plat.rawEnabled = v.plat.rawEnabled /\ u.plat.curses = v.plat.curses
          /\ u.plat.forced = v.plat.forced
  BY <1>4, ModeRestored
<1> QED  BY <1>1, <1>3, <1>5, <1>6, <1>7, <1>8 DEF SameHandlers

LEMMA HandlersOff ==
  ASSUME NEW t \in Taken,
         IF t.plat.installed THEN t.plat.previous = ShellHandlers
         ELSE t.term.handlers = LeftHandlers(t.plat.previous)
  PROVE  LET u == RestoreHandlers(t)
         IN  /\ u.term.handlers = LeftHandlers(t.plat.previous)
             /\ u.plat.previous = t.plat.previous
             /\ u.term.mode = t.term.mode /\ u.term.tracking = t.term.tracking
             /\ u.term \in TermStates
<1> DEFINE back == PutBack(t.term.handlers, t.plat.previous, Signals)
           u    == [t EXCEPT !.term.handlers = back, !.plat.installed = FALSE]
<1>1. ASSUME t.plat.previous = ShellHandlers PROVE back = ShellHandlers
  <2>1. ShellHandlers \in [Signals -> {"default", "ignored"}]
    BY InputAssumption
  <2>2. \A s \in Signals : ShellHandlers[s] # "error"
    BY <2>1
  <2>3. back = [s \in Signals |-> ShellHandlers[s]]
    BY <1>1, <2>2 DEF PutBack
  <2> HIDE DEF back
  <2> QED  BY <2>1, <2>3
<1> HIDE DEF back
<1>2. CASE t.plat.installed
  <2>1. RestoreHandlers(t) = u
    BY <1>2 DEF RestoreHandlers, back
  <2>2. back = ShellHandlers /\ back \in Handlers
    BY <1>1, <1>2, ShellSignals
  <2>3. LeftHandlers(t.plat.previous) = back
    BY <1>2, <2>2, ShellSignals
  <2>4. u.term.handlers = back /\ u.plat.previous = t.plat.previous
    BY DEF Taken, TermStates, PlatStates
  <2>5. u.term.mode = t.term.mode /\ u.term.tracking = t.term.tracking
    BY DEF Taken, TermStates, PlatStates
  <2>6. u.term \in TermStates
    BY <2>2 DEF Taken, TermStates, PlatStates
  <2> HIDE DEF u
  <2> QED  BY <2>1, <2>3, <2>4, <2>5, <2>6
<1>3. CASE ~t.plat.installed
  <2>1. RestoreHandlers(t) = t
    BY <1>3 DEF RestoreHandlers
  <2> QED  BY <1>3, <2>1 DEF Taken
<1> QED  BY <1>2, <1>3

\* The four together leave the terminal as the shell had it.
LEMMA CloseRestores ==
  ASSUME NEW t \in Taken, Remembered(t)
  PROVE  LET u == CloseTerminal(t)
         IN  u.term = Bare(LeftHandlers(t.plat.previous)) /\ u.plat.previous = t.plat.previous
<1> DEFINE a == DisableTracking(t)
           b == DisableRaw(a)
           c == EndCurses(b)
           d == RestoreHandlers(c)
<1>1. /\ a \in Taken
      /\ a.term.tracking = FALSE
      /\ a.term.mode = t.term.mode /\ SameHandlers(a, t)
      /\ a.plat.rawEnabled = t.plat.rawEnabled /\ a.plat.curses = t.plat.curses
  BY TrackingOff DEF Remembered
<1> HIDE DEF a
<1>2. /\ b \in Taken
      /\ b.term.mode = IF a.plat.rawEnabled THEN "shell" ELSE a.term.mode
      /\ b.term.tracking = a.term.tracking /\ SameHandlers(b, a)
      /\ b.plat.curses = a.plat.curses
  BY <1>1, RawOff
<1> HIDE DEF b
<1>3. /\ c \in Taken
      /\ c.term.mode \in {"shell", b.term.mode}
      /\ b.plat.curses => c.term.mode = "shell"
      /\ c.term.tracking = b.term.tracking /\ SameHandlers(c, b)
  BY <1>2, CursesOff
<1> HIDE DEF c
<1>4. SameHandlers(c, t)
  BY <1>1, <1>2, <1>3 DEF SameHandlers
<1>5. /\ IF c.plat.installed THEN c.plat.previous = ShellHandlers
         ELSE c.term.handlers = LeftHandlers(c.plat.previous)
      /\ c.plat.previous = t.plat.previous
  BY <1>4 DEF SameHandlers, Remembered
<1>6. /\ d.term.handlers = LeftHandlers(c.plat.previous) /\ d.plat.previous = c.plat.previous
      /\ d.term.mode = c.term.mode /\ d.term.tracking = c.term.tracking
      /\ d.term \in TermStates
  BY <1>3, <1>5, HandlersOff
<1> HIDE DEF d
<1>7. d.term.mode = "shell" /\ d.term.tracking = FALSE
  BY <1>1, <1>2, <1>3, <1>6 DEF Remembered
<1>8. LeftHandlers(t.plat.previous) \in Handlers
  BY ShellSignals DEF Taken, PlatStates
<1>9. d.term = Bare(LeftHandlers(t.plat.previous))
  BY <1>5, <1>6, <1>7, <1>8, ShellStates
<1> QED  BY <1>5, <1>6, <1>9 DEF CloseTerminal, a, b, c, d

-----------------------------------------------------------------------------
(***************************************************************************)
(* While the backends take the terminal over, everything they change is    *)
(* remembered, and signals are still handled as before.                    *)
(***************************************************************************)
Safe(t) ==
  /\ t \in Taken /\ Remembered(t)
  /\ t.term.handlers = ShellHandlers
  /\ ~t.plat.installed /\ t.plat.previous = NewPlatform.previous

\* What leaves the handlers alone keeps the terminal so.
LEMMA StaysSafe ==
  ASSUME NEW t, Safe(t), NEW u \in Taken, SameHandlers(u, t),
         u.term.mode # "shell" => u.plat.rawEnabled \/ u.plat.curses,
         u.term.tracking => u.plat.forced
  PROVE  Safe(u)
BY DEF Safe, Remembered, SameHandlers

LEMMA RawSafe ==
  ASSUME NEW t, Safe(t), NEW r \in BOOLEAN
  PROVE  Safe([EnableRaw(t) EXCEPT !.plat.resizes = r])
<1> DEFINE v == EnableRaw(t)
           u == [v EXCEPT !.plat.resizes = r]
<1>1. v \in Taken
  BY DEF Safe, EnableRaw, Taken, TermStates, PlatStates
<1>2. /\ v.plat.rawEnabled = TRUE /\ v.plat.forced = t.plat.forced
      /\ v.term.tracking = t.term.tracking /\ SameHandlers(v, t)
  BY DEF Safe, EnableRaw, SameHandlers, Taken, TermStates, PlatStates
<1> HIDE DEF v
<1>3. u \in Taken
  BY <1>1 DEF Taken, PlatStates
<1>4. /\ u.term = v.term /\ u.plat.rawEnabled = v.plat.rawEnabled
      /\ u.plat.forced = v.plat.forced /\ SameHandlers(u, v)
  BY <1>1 DEF SameHandlers, Taken, PlatStates
<1> HIDE DEF u
<1>5. /\ SameHandlers(u, t) /\ u.plat.rawEnabled
      /\ u.term.tracking => u.plat.forced
  BY <1>2, <1>4 DEF SameHandlers, Safe, Remembered
<1>6. Safe(u)
  BY <1>3, <1>5, StaysSafe
<1> QED  BY <1>6 DEF u, v

LEMMA TrackSafe ==
  ASSUME NEW t, Safe(t), NEW on \in BOOLEAN
  PROVE  Safe(TrackMouse(t, on))
<1> DEFINE mouse == t.plat.mouse \/ on
           u     == [t EXCEPT !.term.tracking = on, !.plat.forced = on, !.plat.mouse = mouse]
<1>1. TrackMouse(t, on) = u
  BY DEF TrackMouse
<1>2. mouse \in BOOLEAN
  OBVIOUS
<1> HIDE DEF mouse
<1>3. u \in Taken
  BY <1>2 DEF Safe, Taken, TermStates, PlatStates
<1>4. u.term.tracking = on /\ u.term.mode = t.term.mode /\ SameHandlers(u, t)
  BY DEF Safe, SameHandlers, Taken, TermStates, PlatStates
<1>5. /\ u.plat.forced = on /\ u.plat.rawEnabled = t.plat.rawEnabled
      /\ u.plat.curses = t.plat.curses
  BY DEF Safe, Taken, TermStates, PlatStates
<1> HIDE DEF u
<1>6. /\ u.term.mode # "shell" => u.plat.rawEnabled \/ u.plat.curses
      /\ u.term.tracking => u.plat.forced
  BY <1>4, <1>5 DEF Safe, Remembered
<1> QED  BY <1>1, <1>3, <1>4, <1>6, StaysSafe

LEMMA ScreenSafe ==
  ASSUME NEW t, Safe(t)
  PROVE  /\ Safe(SaveMode(t))
         /\ Safe(InitScreen(t)) /\ InitScreen(t).plat.curses = TRUE
<1> DEFINE v == SaveMode(t)
           u == InitScreen(t)
<1>1. v \in Taken
  BY DEF Safe, SaveMode, Taken, TermStates, PlatStates
<1>2. /\ v.term = t.term /\ v.plat.rawEnabled = t.plat.rawEnabled
      /\ v.plat.curses = t.plat.curses /\ v.plat.forced = t.plat.forced
      /\ SameHandlers(v, t)
  BY DEF Safe, SaveMode, SameHandlers, Taken, TermStates, PlatStates
<1>3. u \in Taken
  BY DEF Safe, InitScreen, Taken, TermStates, PlatStates
<1>4. /\ u.plat.curses = TRUE /\ u.plat.forced = t.plat.forced
      /\ u.term.tracking = t.term.tracking /\ SameHandlers(u, t)
  BY DEF Safe, InitScreen, SameHandlers, Taken, TermStates, PlatStates
<1> HIDE DEF u, v
<1>5. Safe(v)
  <2>1. /\ v.term.mode # "shell" => v.plat.rawEnabled \/ v.plat.curses
        /\ v.term.tracking => v.plat.forced
    BY <1>2 DEF Safe, Remembered
  <2> QED  BY <1>1, <1>2, <2>1, StaysSafe
<1>6. Safe(u)
  <2>1. u.plat.curses /\ (u.term.tracking => u.plat.forced)
    BY <1>4 DEF Safe, Remembered
  <2> QED  BY <1>3, <1>4, <2>1, StaysSafe
<1> QED  BY <1>4, <1>5, <1>6 DEF u, v

LEMMA KeysSafe ==
  ASSUME NEW t, Safe(t), t.plat.curses = TRUE, NEW r \in BOOLEAN
  PROVE  Safe([EditorKeys(t) EXCEPT !.plat.resizes = r])
<1> DEFINE v == EditorKeys(t)
           u == [v EXCEPT !.plat.resizes = r]
<1>1. v \in Taken
  BY DEF Safe, EditorKeys, Taken, TermStates
<1>2. v.plat = t.plat /\ v.term.tracking = t.term.tracking /\ SameHandlers(v, t)
  BY DEF Safe, EditorKeys, SameHandlers, Taken, TermStates
<1> HIDE DEF v
<1>3. u \in Taken
  BY <1>1 DEF Taken, PlatStates
<1>4. /\ u.term = v.term /\ u.plat.curses = v.plat.curses
      /\ u.plat.forced = v.plat.forced /\ SameHandlers(u, v)
  BY <1>1 DEF SameHandlers, Taken, PlatStates
<1> HIDE DEF u
<1>5. /\ SameHandlers(u, t) /\ u.plat.curses
      /\ u.term.tracking => u.plat.forced
  BY <1>2, <1>4 DEF SameHandlers, Safe, Remembered
<1>6. Safe(u)
  BY <1>3, <1>5, StaysSafe
<1> QED  BY <1>6 DEF u, v

\* platform_init_tty_raw_backend and platform_init_curses_backend, wherever
\* they stop.
LEMMA BackendsSafe ==
  ASSUME NEW t, Safe(t), NEW fails, NEW f \in [mouse : BOOLEAN, resizes : BOOLEAN]
  PROVE  Safe(InitRaw(t, fails, f)) /\ Safe(InitCurses(t, fails, f))
<1>1. f.mouse \in BOOLEAN /\ f.resizes \in BOOLEAN
  OBVIOUS
<1>2. Safe(InitRaw(t, fails, f))
  BY <1>1, RawSafe, TrackSafe DEF InitRaw
<1>3. Safe(SaveMode(t)) /\ Safe(InitScreen(SaveMode(t)))
      /\ InitScreen(SaveMode(t)).plat.curses = TRUE
  BY ScreenSafe
<1>4. Safe(RestoreMode(SaveMode(t)))
  <2> DEFINE v == SaveMode(t)
             u == RestoreMode(v)
  <2> HIDE DEF v
  <2>1. Safe(v)
    BY <1>3 DEF v
  <2>2. /\ u \in Taken /\ u.term.mode \in {"shell", v.term.mode}
        /\ u.term.tracking = v.term.tracking /\ SameHandlers(u, v)
        /\ u.plat.rawEnabled = v.plat.rawEnabled /\ u.plat.curses = v.plat.curses
        /\ u.plat.forced = v.plat.forced
    BY <2>1, ModeRestored DEF Safe
  <2> HIDE DEF u
  <2>3. /\ u.term.mode # "shell" => u.plat.rawEnabled \/ u.plat.curses
        /\ u.term.tracking => u.plat.forced
    BY <2>1, <2>2 DEF Safe, Remembered
  <2>4. Safe(u)
    BY <2>1, <2>2, <2>3, StaysSafe
  <2> QED  BY <2>4 DEF u, v
<1>5. Safe(EndCurses(InitScreen(SaveMode(t))))
  <2> DEFINE v == InitScreen(SaveMode(t))
             u == EndCurses(v)
  <2> HIDE DEF v
  <2>1. Safe(v) /\ v.plat.curses = TRUE
    BY <1>3 DEF v
  <2>2. /\ u \in Taken /\ u.term.mode = "shell"
        /\ u.term.tracking = v.term.tracking /\ SameHandlers(u, v)
        /\ u.plat.forced = v.plat.forced
    BY <2>1, CursesOff DEF Safe
  <2> HIDE DEF u
  <2>3. u.term.tracking => u.plat.forced
    BY <2>1, <2>2 DEF Safe, Remembered
  <2>4. Safe(u)
    BY <2>1, <2>2, <2>3, StaysSafe
  <2> QED  BY <2>4 DEF u, v
<1>6. Safe(TrackMouse([EditorKeys(InitScreen(SaveMode(t))) EXCEPT !.plat.resizes = f.resizes], f.mouse))
  BY <1>1, <1>3, KeysSafe, TrackSafe
<1>7. Safe(InitCurses(t, fails, f))
  BY <1>4, <1>5, <1>6 DEF InitCurses
<1> QED  BY <1>2, <1>7

\* A backend that stops on its own has given the terminal back.
GivenUp(t) == t.term = ShellTerm /\ t.plat.previous = NewPlatform.previous

LEMMA AsFound ==
  ASSUME NEW u \in Taken, u.term.mode = "shell", u.term.tracking = FALSE,
         NEW v, Safe(v), SameHandlers(u, v)
  PROVE  GivenUp(u)
<1>1. /\ u.term \in TermStates /\ u.term.handlers = ShellHandlers
      /\ u.plat.previous = NewPlatform.previous
  BY DEF Taken, Safe, SameHandlers
<1>2. u.term = Bare(ShellHandlers)
  BY <1>1, ShellStates, ShellSignals
<1> QED  BY <1>1, <1>2, ShellStates DEF GivenUp

LEMMA BackendsGiveUp ==
  ASSUME NEW t, Safe(t), t.term = ShellTerm, NEW fails \in {"mode", "screen", "controls"},
         NEW f
  PROVE  /\ fails = "mode" => GivenUp(InitRaw(t, fails, f))
         /\ GivenUp(InitCurses(t, fails, f))
<1>1. /\ fails = "mode" => InitRaw(t, fails, f) = t /\ InitCurses(t, fails, f) = t
      /\ GivenUp(t)
  BY DEF InitRaw, InitCurses, GivenUp, Safe
<1>2. GivenUp(RestoreMode(SaveMode(t)))
  <2> DEFINE v == SaveMode(t)
             u == RestoreMode(v)
  <2>1. Safe(v) /\ v.term = t.term
    BY ScreenSafe DEF SaveMode, Safe, Taken, PlatStates
  <2> HIDE DEF v
  <2>2. /\ u \in Taken /\ u.term.mode \in {"shell", v.term.mode}
        /\ u.term.tracking = v.term.tracking /\ SameHandlers(u, v)
    BY <2>1, ModeRestored DEF Safe
  <2> HIDE DEF u
  <2>3. u.term.mode = "shell" /\ u.term.tracking = FALSE
    BY <2>1, <2>2, ShellStates
  <2>4. GivenUp(u)
    BY <2>1, <2>2, <2>3, AsFound
  <2> QED  BY <2>4 DEF u, v
<1>3. GivenUp(EndCurses(InitScreen(SaveMode(t))))
  <2> DEFINE v == SaveMode(t)
             w == InitScreen(v)
             u == EndCurses(w)
  <2>1. Safe(v) /\ v.term = t.term
    BY ScreenSafe DEF SaveMode, Safe, Taken, PlatStates
  <2> HIDE DEF v
  <2>2. Safe(w) /\ w.plat.curses = TRUE
    BY <2>1, ScreenSafe
  <2>3. w.term.tracking = v.term.tracking
    BY <2>1 DEF InitScreen, Safe, Taken, TermStates, PlatStates
  <2> HIDE DEF w
  <2>4. /\ u \in Taken /\ u.term.mode = "shell"
        /\ u.term.tracking = w.term.tracking /\ SameHandlers(u, w)
    BY <2>2, CursesOff DEF Safe
  <2> HIDE DEF u
  <2>5. GivenUp(u)
    BY <2>1, <2>2, <2>3, <2>4, ShellStates, AsFound
  <2> QED  BY <2>5 DEF u, v, w
<1> QED  BY <1>1, <1>2, <1>3 DEF InitCurses

\* Handlers are either all the program's and those of the shell remembered, or
\* the shell's, but for TERM when INT fails.
LEMMA HandlersRemembered ==
  ASSUME NEW t, Safe(t), NEW fails \in {"none"} \cup Signals
  PROVE  LET u == InstallHandlers(t, fails)
         IN  /\ u \in Taken /\ Remembered(u)
             /\ u.plat.mouse = t.plat.mouse /\ u.plat.resizes = t.plat.resizes
<1> DEFINE taken    == Before(fails)
           ours     == [s \in Signals |-> IF s \in taken THEN "ours" ELSE t.term.handlers[s]]
           previous == [s \in Signals |-> IF s \in taken THEN t.term.handlers[s]
                                          ELSE IF s = fails THEN "error" ELSE t.plat.previous[s]]
           back     == PutBack(ours, previous, {"INT", "TERM"})
           new      == IF fails = "none" THEN ours ELSE back
           done     == fails = "none"
           u == [t EXCEPT !.term.handlers = new, !.plat.previous = previous, !.plat.installed = done]
<1>1. InstallHandlers(t, fails) = u
  BY DEF InstallHandlers
<1>2. /\ t.term.handlers = ShellHandlers
      /\ t.plat.previous = [s \in Signals |-> "default"]
  BY DEF Safe, NewPlatform
<1>3. ShellHandlers \in [Signals -> {"default", "ignored"}]
  BY InputAssumption
<1>4. previous \in Handlers
  <2>1. \A s \in Signals : t.term.handlers[s] \in {"default", "ignored"} /\ t.plat.previous[s] = "default"
    BY <1>2, <1>3
  <2> HIDE DEF taken
  <2> QED  BY <2>1 DEF Handlers
<1>5. new \in Handlers
  <2>1. ours \in Handlers
    <3>1. \A s \in Signals : t.term.handlers[s] \in {"default", "ignored"}
      BY <1>2, <1>3
    <3> HIDE DEF taken
    <3> QED  BY <3>1 DEF Handlers
  <2> HIDE DEF ours, previous
  <2>2. back \in Handlers
    BY <1>4, <2>1 DEF PutBack, Handlers
  <2> HIDE DEF back
  <2> QED  BY <2>1, <2>2
<1>6. IF done THEN previous = ShellHandlers ELSE new = LeftHandlers(previous)
  <2>1. CASE fails = "none"
    <3>1. taken = Signals
      BY <2>1 DEF Before
    <3>2. previous = [s \in Signals |-> ShellHandlers[s]]
      BY <1>2, <3>1
    <3> HIDE DEF previous
    <3> QED  BY <1>3, <2>1, <3>2
  <2>2. ASSUME fails # "none" PROVE back = LeftHandlers(previous)
    <3> DEFINE x == IF previous.INT = "error" THEN "default" ELSE ShellHandlers.TERM
    <3>1. LeftHandlers(previous) = [ShellHandlers EXCEPT !.TERM = x]
      BY DEF LeftHandlers
    <3>2. /\ fails \in Signals
          /\ taken = IF fails = "INT" THEN {} ELSE IF fails = "TERM" THEN {"INT"} ELSE {"INT", "TERM"}
      BY <2>2 DEF Before, Signals
    <3> HIDE DEF taken
    <3>3. \A s \in Signals : ours[s] = IF s \in taken THEN "ours" ELSE ShellHandlers[s]
      BY <1>2
    <3>4. \A s \in Signals : previous[s] = IF s \in taken THEN ShellHandlers[s]
                                            ELSE IF s = fails THEN "error" ELSE "default"
      BY <1>2
    <3>5. \A s \in Signals : ShellHandlers[s] # "error"
      BY <1>3
    <3>6. x = IF fails = "INT" THEN "default" ELSE ShellHandlers["TERM"]
      BY <3>2, <3>4, <3>5 DEF Signals
    <3> HIDE DEF x, ours, previous
    <3>7. /\ DOMAIN back = Signals
          /\ \A s \in Signals :
               back[s] = IF s \in {"INT", "TERM"} /\ previous[s] # "error" THEN previous[s] ELSE ours[s]
      BY DEF PutBack
    <3> HIDE DEF back
    <3>8. back["INT"] = ShellHandlers["INT"] /\ back["HUP"] = ShellHandlers["HUP"]
      BY <3>2, <3>3, <3>4, <3>5, <3>7 DEF Signals
    <3>9. back["TERM"] = x
      BY <3>2, <3>3, <3>4, <3>5, <3>6, <3>7 DEF Signals
    <3>10. back = [s \in Signals |-> back[s]]
      BY <1>5, <2>2 DEF Handlers
    <3>11. [ShellHandlers EXCEPT !.TERM = x] = [s \in Signals |-> IF s = "TERM" THEN x ELSE ShellHandlers[s]]
      BY <1>3
    <3>12. \A s \in Signals : back[s] = IF s = "TERM" THEN x ELSE ShellHandlers[s]
      BY <3>8, <3>9 DEF Signals
    <3> QED  BY <3>1, <3>10, <3>11, <3>12
  <2> HIDE DEF previous, back
  <2> QED  BY <2>1, <2>2
<1> HIDE DEF previous, new, taken, ours, back
<1>7. done \in BOOLEAN
  OBVIOUS
<1> HIDE DEF done
<1>8. u \in Taken
  BY <1>4, <1>5, <1>7 DEF Safe, Taken, TermStates, PlatStates
<1>9. u.term.handlers = new /\ u.term.mode = t.term.mode /\ u.term.tracking = t.term.tracking
  BY DEF Safe, Taken, TermStates, PlatStates
<1>10. /\ u.plat.installed = done /\ u.plat.previous = previous /\ u.plat.forced = t.plat.forced
       /\ u.plat.rawEnabled = t.plat.rawEnabled /\ u.plat.curses = t.plat.curses
  BY DEF Safe, Taken, TermStates, PlatStates
<1>11. u.plat.mouse = t.plat.mouse /\ u.plat.resizes = t.plat.resizes
  BY DEF Safe, Taken, TermStates, PlatStates
<1> HIDE DEF u
<1>12. Remembered(u)
  BY <1>6, <1>9, <1>10 DEF Safe, Remembered
<1> QED  BY <1>1, <1>8, <1>11, <1>12

-----------------------------------------------------------------------------
(***************************************************************************)
(* The inductive invariant: before and after the program has run, the      *)
(* terminal is the shell's (but for TERM, where INT failed); while it      *)
(* runs, every change is remembered.                                       *)
(***************************************************************************)
TerminalInv ==
  /\ TerminalRestored
  /\ phase = "off" => plat = NewPlatform
  /\ phase = "on" => /\ [term |-> term, plat |-> plat] \in Taken
                     /\ Remembered([term |-> term, plat |-> plat])

\* As platform_create finds it.
LEMMA FoundSafe == Safe([term |-> ShellTerm, plat |-> NewPlatform])
<1> DEFINE t == [term |-> ShellTerm, plat |-> NewPlatform]
<1>1. t \in Taken
  BY ShellStates DEF Taken
<1>2. Remembered(t)
  BY ShellStates DEF Remembered
<1> QED  BY <1>1, <1>2, ShellStates DEF Safe

\* The terminal that is given back, as the property says it.
LEMMA GivenIsLeft ==
  /\ \A h : [ShellTerm EXCEPT !.handlers = h] = Bare(h)
  /\ TerminalRestored <=> (phase # "on" => term = Bare(LeftHandlers(plat.previous)))
<1>1. ASSUME NEW h PROVE [ShellTerm EXCEPT !.handlers = h] = Bare(h)
  <2>1. ShellTerm \in [mode : {"shell"}, tracking : {FALSE}, handlers : {ShellHandlers}]
    BY DEF ShellTerm
  <2>2. ASSUME NEW s \in [mode : {"shell"}, tracking : {FALSE}, handlers : {ShellHandlers}]
        PROVE  [s EXCEPT !.handlers = h] \in [mode : {"shell"}, tracking : {FALSE}, handlers : {h}]
    OBVIOUS
  <2>3. ASSUME NEW s \in [mode : {"shell"}, tracking : {FALSE}, handlers : {h}] PROVE s = Bare(h)
    BY DEF Bare
  <2> QED  BY <2>1, <2>2, <2>3
<1> QED  BY <1>1 DEF TerminalRestored

LEMMA CreateKeeps ==
  ASSUME TerminalInv, Create
  PROVE  TerminalInv'
<1> DEFINE t0 == [term |-> term, plat |-> plat]
<1>1. PICK fails \in {"none", "mode", "screen", "controls"} \cup Signals, f \in Features :
        /\ \E t1 \in {IF backend = "raw" THEN InitRaw(t0, fails, f) ELSE InitCurses(t0, fails, f)} :
           \E t2 \in {IF fails \in {"none"} \cup Signals THEN InstallHandlers(t1, fails) ELSE t1} :
           \E t3 \in {IF fails \in Signals THEN CloseTerminal(t2) ELSE t2} :
              term' = t3.term /\ plat' = t3.plat
        /\ backend = "raw" => fails \notin {"screen", "controls"}
        /\ phase' = IF fails = "none" THEN "on" ELSE "done"
  BY DEF Create
<1>2. f \in [mouse : BOOLEAN, resizes : BOOLEAN]
  BY InputAssumption
<1>3. t0.term = ShellTerm /\ t0.plat = NewPlatform
  BY GivenIsLeft, ShellStates DEF Create, TerminalInv
<1>4. Safe(t0)
  BY FoundSafe, <1>3
<1> DEFINE t1 == IF backend = "raw" THEN InitRaw(t0, fails, f) ELSE InitCurses(t0, fails, f)
           t2 == IF fails \in {"none"} \cup Signals THEN InstallHandlers(t1, fails) ELSE t1
           t3 == IF fails \in Signals THEN CloseTerminal(t2) ELSE t2
<1>5. term' = t3.term /\ plat' = t3.plat
  BY <1>1
<1> HIDE DEF t0
<1>6. Safe(t1)
  BY <1>2, <1>4, BackendsSafe
<1>7. fails \in {"mode", "screen", "controls"} => GivenUp(t1)
  BY <1>1, <1>3, <1>4, BackendsGiveUp
<1> HIDE DEF t1
<1>8. t2 \in Taken /\ Remembered(t2)
  BY <1>6, HandlersRemembered DEF Safe
<1>11. term' = Bare(LeftHandlers(plat'.previous)) => TerminalRestored'
  BY GivenIsLeft DEF TerminalRestored
<1>9. CASE fails = "none"
  <2>1. t3 = t2
    BY <1>9 DEF Signals
  <2> HIDE DEF t2, t3
  <2>2. [term |-> t2.term, plat |-> t2.plat] = t2
    BY <1>8 DEF Taken
  <2> QED
    BY <1>1, <1>5, <1>8, <1>9, <2>1, <2>2 DEF TerminalInv, TerminalRestored
<1>10. CASE fails # "none"
  <2>1. CASE fails \in Signals
    <3> HIDE DEF t2
    <3>1. t3.term = Bare(LeftHandlers(t2.plat.previous)) /\ t3.plat.previous = t2.plat.previous
      BY <1>8, <2>1, CloseRestores
    <3> HIDE DEF t3
    <3>2. TerminalRestored'
      BY <1>5, <1>11, <3>1
    <3> QED  BY <1>1, <1>10, <3>2 DEF TerminalInv
  <2>2. CASE fails \notin Signals
    <3>1. t3 = t1 /\ GivenUp(t1)
      BY <1>7, <1>10, <2>2
    <3> HIDE DEF t3
    <3>2. TerminalRestored'
      <4>1. term' = ShellTerm /\ plat'.previous = NewPlatform.previous
        BY <1>5, <3>1 DEF GivenUp
      <4> QED  BY <1>11, <4>1, ShellStates
    <3> QED  BY <1>1, <1>10, <3>2 DEF TerminalInv
  <2> QED  BY <2>1, <2>2
<1> QED  BY <1>9, <1>10

LEMMA TerminalStays ==
  ASSUME TerminalInv, [Next]_vars
  PROVE  TerminalInv'
<1>1. CASE Create
  BY <1>1, CreateKeeps
<1>2. CASE Destroy
  <2> DEFINE t == [term |-> term, plat |-> plat]
             u == CloseTerminal(t)
  <2>1. t \in Taken /\ Remembered(t)
    BY <1>2 DEF Destroy, TerminalInv
  <2>2. term' = u.term /\ plat' = u.plat /\ phase' = "done"
    BY <1>2 DEF Destroy
  <2>3. t.plat = plat
    OBVIOUS
  <2> HIDE DEF t
  <2>4. u.term = Bare(LeftHandlers(t.plat.previous)) /\ u.plat.previous = t.plat.previous
    BY <2>1, CloseRestores
  <2> HIDE DEF u
  <2>5. term' = Bare(LeftHandlers(plat'.previous))
    BY <2>2, <2>3, <2>4
  <2>6. TerminalRestored'
    BY <2>5, GivenIsLeft DEF TerminalRestored
  <2> QED  BY <2>2, <2>6 DEF TerminalInv
<1>3. CASE UNCHANGED device
  BY <1>3 DEF device, TerminalInv, TerminalRestored
<1>4. CASE User
  <2>1. UNCHANGED device
    BY <1>4 DEF User, Type, Push, Move, LetGo, Tap, Other, Point, Send, Resize,
                Signal, HangUp, Dealt
  <2> QED  BY <1>3, <2>1
<1>5. CASE Poll
  BY <1>3, <1>5 DEF Poll
<1>6. CASE UNCHANGED vars
  BY <1>3, <1>6 DEF vars, device
<1> QED  BY <1>1, <1>2, <1>4, <1>5, <1>6 DEF Next

(***************************************************************************)
(* Whatever call fails on the way in, whenever the program stops and       *)
(* whatever handlers it found, the terminal is left as the shell had it,   *)
(* but for the handler of TERM when that of INT could not be set.          *)
(***************************************************************************)
THEOREM TerminalGivenBack == Spec => []TerminalRestored
<1>1. Init => TerminalInv
  BY GivenIsLeft, ShellStates DEF Init, TerminalInv
<1>2. TerminalInv /\ [Next]_vars => TerminalInv'
  BY TerminalStays
<1>3. TerminalInv => TerminalRestored
  BY DEF TerminalInv
<1> QED  BY <1>1, <1>2, <1>3, PTL DEF Spec

-----------------------------------------------------------------------------
(***************************************************************************)
(* What is sent, what it means, and what the receiver has to remember of   *)
(* it, put together from steps that each do a part: a stream <<s, e, a, b>>*)
(* is what takes the receiver from a to b when s is sent and e meant.      *)
(***************************************************************************)
Moves(Sy, Ev, St) == Seq(Sy) \X Seq(Ev) \X St \X St

Closed(R, Steps, St) ==
  /\ \A a \in St : <<<<>>, <<>>, a, a>> \in R
  /\ \A s, e, a, b, t, f, c :
        <<s, e, a, b>> \in Steps /\ <<t, f, b, c>> \in R => <<s \o t, e \o f, a, c>> \in R

Streams(Steps, Sy, Ev, St) ==
  {m \in Moves(Sy, Ev, St) :
     \A R \in SUBSET Moves(Sy, Ev, St) : Closed(R, Steps, St) => m \in R}

\* The parts of a step have the types of its set.
LEMMA MoveParts ==
  ASSUME NEW Sy, NEW Ev, NEW St, NEW s, NEW e, NEW a, NEW b
  PROVE  <<s, e, a, b>> \in Moves(Sy, Ev, St) <=>
           s \in Seq(Sy) /\ e \in Seq(Ev) /\ a \in St /\ b \in St
BY DEF Moves

\* The streams are closed themselves.
LEMMA StreamsClosed ==
  ASSUME NEW Sy, NEW Ev, NEW St, NEW Steps \in SUBSET Moves(Sy, Ev, St)
  PROVE  /\ Streams(Steps, Sy, Ev, St) \subseteq Moves(Sy, Ev, St)
         /\ Closed(Streams(Steps, Sy, Ev, St), Steps, St)
<1> DEFINE U == Moves(Sy, Ev, St)
           P == Streams(Steps, Sy, Ev, St)
<1>1. P \subseteq U
  BY DEF Streams
<1>2. ASSUME NEW m \in U, \A R \in SUBSET U : Closed(R, Steps, St) => m \in R
      PROVE  m \in P
  BY <1>2 DEF Streams
<1>3. ASSUME NEW m \in P, NEW R \in SUBSET U, Closed(R, Steps, St) PROVE m \in R
  BY <1>3 DEF Streams
<1> HIDE DEF P, U
<1>4. ASSUME NEW a \in St PROVE <<<<>>, <<>>, a, a>> \in P
  <2>1. <<<<>>, <<>>, a, a>> \in U
    BY MoveParts, EmptySeq DEF U
  <2>2. \A R \in SUBSET U : Closed(R, Steps, St) => <<<<>>, <<>>, a, a>> \in R
    BY DEF Closed
  <2> QED BY <1>2, <2>1, <2>2
<1>5. ASSUME NEW s, NEW e, NEW a, NEW b, NEW t, NEW f, NEW c,
             <<s, e, a, b>> \in Steps, <<t, f, b, c>> \in P
      PROVE  <<s \o t, e \o f, a, c>> \in P
  <2>1. <<s, e, a, b>> \in U /\ <<t, f, b, c>> \in U
    BY <1>1, <1>5 DEF U
  <2>2. /\ s \in Seq(Sy) /\ e \in Seq(Ev) /\ a \in St
        /\ t \in Seq(Sy) /\ f \in Seq(Ev) /\ c \in St
    BY <2>1, MoveParts DEF U
  <2>3. s \o t \in Seq(Sy) /\ e \o f \in Seq(Ev)
    BY <2>2
  <2>4. <<s \o t, e \o f, a, c>> \in U
    BY <2>2, <2>3, MoveParts DEF U
  <2>5. ASSUME NEW R \in SUBSET U, Closed(R, Steps, St) PROVE <<s \o t, e \o f, a, c>> \in R
    <3>1. <<t, f, b, c>> \in R
      BY <1>3, <1>5, <2>5
    <3> QED BY <1>5, <2>5, <3>1 DEF Closed
  <2> QED BY <1>2, <2>4, <2>5
<1>6. Closed(P, Steps, St)
  BY <1>4, <1>5 DEF Closed
<1> QED BY <1>1, <1>6 DEF P, U

\* They are the least such set.
LEMMA StreamsLeast ==
  ASSUME NEW Sy, NEW Ev, NEW St, NEW Steps, NEW R \in SUBSET Moves(Sy, Ev, St),
         Closed(R, Steps, St)
  PROVE  Streams(Steps, Sy, Ev, St) \subseteq R
BY DEF Streams

\* A stream is empty or has a first step.
Begins(s, e, a, c, Steps, P) ==
  \/ s = <<>> /\ e = <<>> /\ a = c
  \/ \E s1, e1, b, t, f : /\ <<s1, e1, a, b>> \in Steps /\ <<t, f, b, c>> \in P
                          /\ s = s1 \o t /\ e = e1 \o f

LEMMA StreamFirst ==
  ASSUME NEW Sy, NEW Ev, NEW St, NEW Steps \in SUBSET Moves(Sy, Ev, St),
         NEW s, NEW e, NEW a, NEW c, <<s, e, a, c>> \in Streams(Steps, Sy, Ev, St)
  PROVE  Begins(s, e, a, c, Steps, Streams(Steps, Sy, Ev, St))
<1> DEFINE U == Moves(Sy, Ev, St)
           P == Streams(Steps, Sy, Ev, St)
           R == {m \in P : Begins(m[1], m[2], m[3], m[4], Steps, P)}
<1>1. P \subseteq U /\ Closed(P, Steps, St)
  BY StreamsClosed
<1> HIDE DEF P
<1>2. ASSUME NEW x \in St PROVE <<<<>>, <<>>, x, x>> \in R
  <2>1. <<<<>>, <<>>, x, x>> \in P
    BY <1>1 DEF Closed
  <2>2. Begins(<<>>, <<>>, x, x, Steps, P)
    BY DEF Begins
  <2> QED BY <2>1, <2>2
<1>3. ASSUME NEW s1, NEW e1, NEW x, NEW b, NEW t, NEW f, NEW z,
             <<s1, e1, x, b>> \in Steps, <<t, f, b, z>> \in R
      PROVE  <<s1 \o t, e1 \o f, x, z>> \in R
  <2>1. <<t, f, b, z>> \in P
    BY <1>3
  <2>2. <<s1 \o t, e1 \o f, x, z>> \in P
    BY <1>1, <1>3, <2>1 DEF Closed
  <2>3. Begins(s1 \o t, e1 \o f, x, z, Steps, P)
    BY <1>3, <2>1 DEF Begins
  <2> QED BY <2>2, <2>3
<1>4. R \in SUBSET U
  BY <1>1
<1>5. Closed(R, Steps, St)
  <2> HIDE DEF R
  <2> QED BY <1>2, <1>3 DEF Closed
<1>6. P \subseteq R
  <2> HIDE DEF R
  <2> QED BY <1>4, <1>5, StreamsLeast DEF P
<1>7. <<s, e, a, c>> \in R
  <2> HIDE DEF R
  <2> QED BY <1>6 DEF P
<1>8. Begins(s, e, a, c, Steps, P)
  BY <1>7
<1> QED BY <1>8 DEF P

\* Where the parentheses are makes no difference.
Regroups(s, t, u) == s \o (t \o u) = (s \o t) \o u

LEMMA Regrouped ==
  ASSUME NEW S
  PROVE  \A s, t, u \in Seq(S) : Regroups(s, t, u)
<1> SUFFICES ASSUME NEW s \in Seq(S), NEW t \in Seq(S), NEW u \in Seq(S)
             PROVE  Regroups(s, t, u)
  OBVIOUS
<1>1. (s \o t) \o u = s \o (t \o u)
  BY ConcatAssociative, SMTT(20)
<1> QED BY <1>1 DEF Regroups

\* Streams that follow one another are one stream.
LEMMA StreamsJoin ==
  ASSUME NEW Sy, NEW Ev, NEW St, NEW Steps \in SUBSET Moves(Sy, Ev, St),
         NEW s, NEW e, NEW a, NEW b, NEW t, NEW f, NEW c,
         <<s, e, a, b>> \in Streams(Steps, Sy, Ev, St),
         <<t, f, b, c>> \in Streams(Steps, Sy, Ev, St)
  PROVE  <<s \o t, e \o f, a, c>> \in Streams(Steps, Sy, Ev, St)
<1> DEFINE U == Moves(Sy, Ev, St)
           P == Streams(Steps, Sy, Ev, St)
           R == {m \in P : m[4] = b => <<m[1] \o t, m[2] \o f, m[3], c>> \in P}
<1>1. P \subseteq U /\ Closed(P, Steps, St)
  BY StreamsClosed
<1>2. <<s, e, a, b>> \in P /\ <<t, f, b, c>> \in P
  OBVIOUS
<1> HIDE DEF P
<1>3. t \in Seq(Sy) /\ f \in Seq(Ev) /\ b \in St
  <2>1. <<t, f, b, c>> \in U
    BY <1>1, <1>2
  <2> QED BY <2>1, MoveParts
<1>4. ASSUME NEW x \in St PROVE <<<<>>, <<>>, x, x>> \in R
  <2>1. <<<<>>, <<>>, x, x>> \in P
    BY <1>1 DEF Closed
  <2>2. <<>> \o t = t /\ <<>> \o f = f
    BY <1>3
  <2> QED BY <1>2, <2>1, <2>2
<1>5. ASSUME NEW s1, NEW e1, NEW x, NEW y, NEW u, NEW g, NEW z,
             <<s1, e1, x, y>> \in Steps, <<u, g, y, z>> \in R
      PROVE  <<s1 \o u, e1 \o g, x, z>> \in R
  <2>1. <<u, g, y, z>> \in P
    BY <1>5
  <2>2. <<s1 \o u, e1 \o g, x, z>> \in P
    BY <1>1, <1>5, <2>1 DEF Closed
  <2>3. s1 \in Seq(Sy) /\ e1 \in Seq(Ev) /\ u \in Seq(Sy) /\ g \in Seq(Ev)
    <3>1. <<s1, e1, x, y>> \in U /\ <<u, g, y, z>> \in U
      BY <1>1, <1>5, <2>1
    <3> QED BY <3>1, MoveParts
  <2>4. ASSUME z = b PROVE <<(s1 \o u) \o t, (e1 \o g) \o f, x, c>> \in P
    <3>1. <<u \o t, g \o f, y, c>> \in P
      BY <1>5, <2>4
    <3>2. <<s1 \o (u \o t), e1 \o (g \o f), x, c>> \in P
      BY <1>1, <1>5, <3>1 DEF Closed
    <3>3. s1 \o (u \o t) = (s1 \o u) \o t /\ e1 \o (g \o f) = (e1 \o g) \o f
      <4>1. Regroups(s1, u, t) /\ Regroups(e1, g, f)
        BY <1>3, <2>3, Regrouped
      <4> QED BY <4>1 DEF Regroups
    <3> QED BY <3>2, <3>3
  <2> QED BY <2>2, <2>4
<1>6. R \in SUBSET U
  BY <1>1
<1>7. Closed(R, Steps, St)
  <2> HIDE DEF R
  <2> QED BY <1>4, <1>5 DEF Closed
<1>8. P \subseteq R
  <2> HIDE DEF R
  <2> QED BY <1>6, <1>7, StreamsLeast DEF P
<1>9. <<s, e, a, b>> \in R
  <2> HIDE DEF R
  <2> QED BY <1>2, <1>8
<1>10. <<s \o t, e \o f, a, c>> \in P
  BY <1>9
<1> QED BY <1>10 DEF P

\* A step is a stream, and so is nothing.
LEMMA StepStreams ==
  ASSUME NEW Sy, NEW Ev, NEW St, NEW Steps \in SUBSET Moves(Sy, Ev, St)
  PROVE  /\ Steps \subseteq Streams(Steps, Sy, Ev, St)
         /\ \A a \in St : <<<<>>, <<>>, a, a>> \in Streams(Steps, Sy, Ev, St)
<1> DEFINE P == Streams(Steps, Sy, Ev, St)
<1>1. Closed(P, Steps, St)
  BY StreamsClosed
<1> HIDE DEF P
<1>2. ASSUME NEW x \in Steps PROVE x \in P
  <2>1. PICK s \in Seq(Sy), e \in Seq(Ev), a \in St, b \in St : x = <<s, e, a, b>>
    BY DEF Moves
  <2>2. <<<<>>, <<>>, b, b>> \in P
    BY <1>1 DEF Closed
  <2>3. <<s \o <<>>, e \o <<>>, a, b>> \in P
    BY <1>1, <2>1, <2>2 DEF Closed
  <2>4. s \o <<>> = s /\ e \o <<>> = e
    OBVIOUS
  <2> QED BY <2>1, <2>3, <2>4
<1> QED BY <1>1, <1>2 DEF Closed, P

-----------------------------------------------------------------------------
(***************************************************************************)
(* What the decoder looks for in the bytes it has.                         *)
(***************************************************************************)
Decoders == [pending : Seq(Int), last : Int]

\* Of some numbers one is the least.
LEMMA LeastExists ==
  ASSUME NEW S \in SUBSET Nat, S # {}
  PROVE  \E x \in S : \A y \in S : x <= y
<1> DEFINE R == OpToRel(<, Nat)
<1>1. \A x, y \in Nat : x < y => <<x, y>> \in R
  BY DEF OpToRel
<1>2. IsWellFoundedOn(R, Nat)
  BY NatLessThanWellFounded, Zenon
<1> HIDE DEF R
<1>3. PICK x \in S : \A y \in S : ~(<<y, x>> \in R)
  BY <1>2, WFMin
<1>4. ASSUME NEW y \in S PROVE x <= y
  <2>1. x \in Nat /\ y \in Nat /\ ~(y < x)
    BY <1>1, <1>3
  <2> QED BY <2>1
<1> QED BY <1>4

\* The first place is one, and there is none before it.
LEMMA FirstFound ==
  ASSUME NEW s \in Seq(Int), NEW S
  PROVE  /\ First(s, S) \in 0..Len(s)
         /\ First(s, S) = 0 => \A i \in 1..Len(s) : s[i] \notin S
         /\ First(s, S) # 0 => /\ s[First(s, S)] \in S
                               /\ \A i \in 1..Len(s) : s[i] \in S => First(s, S) <= i
<1> DEFINE T == {i \in DOMAIN s : s[i] \in S}
<1>1. DOMAIN s = 1..Len(s) /\ Len(s) \in Nat
  BY LenProperties
<1>2. CASE T = {}
  <2>1. First(s, S) = 0
    BY <1>2 DEF First
  <2> QED BY <1>1, <1>2, <2>1
<1>3. CASE T # {}
  <2>1. T \in SUBSET Nat
    BY <1>1
  <2>2. \E x \in T : \A y \in T : x <= y
    BY <1>3, <2>1, LeastExists
  <2>3. First(s, S) = CHOOSE i \in T : \A j \in T : i <= j
    BY <1>3 DEF First
  <2>4. First(s, S) \in T /\ \A j \in T : First(s, S) <= j
    BY <2>2, <2>3
  <2> QED BY <1>1, <2>4
<1> QED BY <1>2, <1>3

\* The place that has none before it is the first.
LEMMA FirstIs ==
  ASSUME NEW s \in Seq(Int), NEW S, NEW n \in 1..Len(s), s[n] \in S,
         \A i \in 1..Len(s) : i < n => s[i] \notin S
  PROVE  First(s, S) = n
<1>1. Len(s) \in Nat
  BY LenProperties
<1>2. /\ First(s, S) \in 0..Len(s)
      /\ First(s, S) = 0 => \A i \in 1..Len(s) : s[i] \notin S
      /\ First(s, S) # 0 => /\ s[First(s, S)] \in S
                            /\ \A i \in 1..Len(s) : s[i] \in S => First(s, S) <= i
  BY FirstFound
<1>3. First(s, S) \in 1..Len(s) /\ First(s, S) <= n /\ s[First(s, S)] \in S
  BY <1>1, <1>2
<1> QED BY <1>1, <1>3

LEMMA FirstNone ==
  ASSUME NEW s \in Seq(Int), NEW S, \A i \in 1..Len(s) : s[i] \notin S
  PROVE  First(s, S) = 0
BY FirstFound

\* Sequences of the same numbers are the same.
LEMMA SameNumbers ==
  ASSUME NEW s \in Seq(Int), NEW t \in Seq(Int), Len(s) = Len(t),
         \A i \in 1..Len(s) : s[i] = t[i]
  PROVE  s = t
BY SeqEqual

IsPair(t, x, y) == t = <<x, y>> <=> t[1] = x /\ t[2] = y

IsTriple(t, x, y, z) == t = <<x, y, z>> <=> t[1] = x /\ t[2] = y /\ t[3] = z

LEMMA PairIs ==
  ASSUME NEW t \in Seq(Int), Len(t) = 2, NEW x \in Int, NEW y \in Int
  PROVE  IsPair(t, x, y)
<1> DEFINE u == <<x, y>>
<1>1. u \in Seq(Int) /\ Len(u) = 2
  OBVIOUS
<1>2. u[1] = x /\ u[2] = y
  OBVIOUS
<1> HIDE DEF u
<1>3. ASSUME t[1] = x, t[2] = y PROVE t = u
  <2>1. \A i \in 1..Len(t) : t[i] = u[i]
    BY <1>2, <1>3
  <2> QED BY <1>1, <2>1, SameNumbers
<1>4. t = u <=> t[1] = x /\ t[2] = y
  BY <1>2, <1>3
<1> QED BY <1>4 DEF u, IsPair

LEMMA TripleIs ==
  ASSUME NEW t \in Seq(Int), Len(t) = 3, NEW x \in Int, NEW y \in Int, NEW z \in Int
  PROVE  IsTriple(t, x, y, z)
<1> DEFINE u == <<x, y, z>>
<1>1. u \in Seq(Int) /\ Len(u) = 3
  OBVIOUS
<1>2. u[1] = x /\ u[2] = y /\ u[3] = z
  OBVIOUS
<1> HIDE DEF u
<1>3. ASSUME t[1] = x, t[2] = y, t[3] = z PROVE t = u
  <2>1. \A i \in 1..Len(t) : t[i] = u[i]
    BY <1>2, <1>3
  <2> QED BY <1>1, <2>1, SameNumbers
<1>4. t = u <=> t[1] = x /\ t[2] = y /\ t[3] = z
  BY <1>2, <1>3
<1> QED BY <1>4 DEF u, IsTriple

\* How sequences begin.
LEMMA StartsSequence ==
  ASSUME NEW s \in Seq(Int)
  PROVE  Starts(s, <<Esc, Bracket>>) <=> Len(s) >= 2 /\ s[1] = Esc /\ s[2] = Bracket
<1>1. Len(s) \in Nat /\ \A i \in 1..Len(s) : s[i] \in Int
  BY LenProperties, ElementOfSeq
<1>2. CASE Len(s) >= 2
  <2>1. SubSeq(s, 1, 2) \in Seq(Int) /\ Len(SubSeq(s, 1, 2)) = 2
        /\ SubSeq(s, 1, 2)[1] = s[1] /\ SubSeq(s, 1, 2)[2] = s[2]
    BY <1>1, <1>2
  <2>2. SubSeq(s, 1, 2) = <<Esc, Bracket>> <=> s[1] = Esc /\ s[2] = Bracket
    <3>1. Esc \in Int /\ Bracket \in Int
      BY DEF Esc, Bracket
    <3> DEFINE t == SubSeq(s, 1, 2)
    <3>2. t \in Seq(Int) /\ Len(t) = 2 /\ t[1] = s[1] /\ t[2] = s[2]
      BY <2>1
    <3> HIDE DEF t
    <3>3. IsPair(t, Esc, Bracket)
      BY <3>1, <3>2, PairIs
    <3> QED BY <3>2, <3>3 DEF t, IsPair
  <2> QED BY <1>2, <2>2 DEF Starts
<1>3. CASE ~(Len(s) >= 2)
  BY <1>3 DEF Starts
<1> QED BY <1>2, <1>3

LEMMA StartsReport ==
  ASSUME NEW d \in Decoders
  PROVE  StartsMouse(d) <=> /\ Len(d.pending) >= 3
                            /\ d.pending[1] = Esc /\ d.pending[2] = Bracket /\ d.pending[3] = Less
<1> DEFINE s == d.pending
<1>1. s \in Seq(Int)
  BY DEF Decoders
<1> HIDE DEF s
<1>2. Len(s) \in Nat /\ \A i \in 1..Len(s) : s[i] \in Int
  BY <1>1, LenProperties, ElementOfSeq
<1>3. Starts(s, <<Esc, Bracket, Less>>) <=>
        Len(s) >= 3 /\ s[1] = Esc /\ s[2] = Bracket /\ s[3] = Less
  <2>1. CASE Len(s) >= 3
    <3>1. SubSeq(s, 1, 3) \in Seq(Int) /\ Len(SubSeq(s, 1, 3)) = 3
          /\ SubSeq(s, 1, 3)[1] = s[1] /\ SubSeq(s, 1, 3)[2] = s[2] /\ SubSeq(s, 1, 3)[3] = s[3]
      BY <1>1, <1>2, <2>1
    <3>2. SubSeq(s, 1, 3) = <<Esc, Bracket, Less>> <=> s[1] = Esc /\ s[2] = Bracket /\ s[3] = Less
      <4>1. Esc \in Int /\ Bracket \in Int /\ Less \in Int
        BY DEF Esc, Bracket, Less
      <4> DEFINE t == SubSeq(s, 1, 3)
      <4>2. t \in Seq(Int) /\ Len(t) = 3 /\ t[1] = s[1] /\ t[2] = s[2] /\ t[3] = s[3]
        BY <3>1
      <4> HIDE DEF t
      <4>3. IsTriple(t, Esc, Bracket, Less)
        BY <4>1, <4>2, TripleIs
      <4> QED BY <4>2, <4>3 DEF t, IsTriple
    <3> QED BY <2>1, <3>2 DEF Starts
  <2>2. CASE ~(Len(s) >= 3)
    BY <2>2 DEF Starts
  <2> QED BY <2>1, <2>2
<1> QED BY <1>3 DEF StartsMouse, s

\* What is left when the first of the bytes are consumed.
LEMMA ConsumeIs ==
  ASSUME NEW d \in Decoders, NEW s \in Seq(Int), NEW p \in Seq(Int), d.pending = s \o p
  PROVE  /\ Consume(d, Len(s)) = [pending |-> p, last |-> d.last]
         /\ [pending |-> p, last |-> d.last] \in Decoders
<1>1. d = [pending |-> d.pending, last |-> d.last] /\ d.last \in Int
  BY DEF Decoders
<1>2. SubSeq(d.pending, Len(s) + 1, Len(d.pending)) = p
  <2>1. Len(s) \in Nat /\ Len(p) \in Nat /\ Len(s \o p) = Len(s) + Len(p)
    BY ConcatProperties, LenProperties
  <2>2. \A i \in 1..Len(p) : (s \o p)[i + Len(s)] = p[i]
    BY <2>1, ConcatProperties
  <2> DEFINE q == SubSeq(s \o p, Len(s) + 1, Len(s \o p))
  <2>3. q = [i \in 1..Len(p) |-> (s \o p)[i + Len(s)]]
    BY <2>1
  <2>4. q = p
    BY <2>2, <2>3
  <2> QED BY <2>4
<1>3. Consume(d, Len(s)) = [pending |-> SubSeq(d.pending, Len(s) + 1, Len(d.pending)),
                            last |-> d.last]
  <2> DEFINE rest == SubSeq(d.pending, Len(s) + 1, Len(d.pending))
  <2>1. Consume(d, Len(s)) = [d EXCEPT !.pending = rest]
    BY DEF Consume
  <2> HIDE DEF rest
  <2>2. [d EXCEPT !.pending = rest] = [pending |-> rest, last |-> d.last]
    BY <1>1
  <2> QED BY <2>1, <2>2 DEF rest
<1> QED BY <1>1, <1>2, <1>3 DEF Decoders

\* Consuming leaves a decoder.
LEMMA ConsumeType ==
  ASSUME NEW d \in Decoders, NEW n \in Nat
  PROVE  Consume(d, n) \in Decoders
<1>1. Len(d.pending) \in Nat /\ \A i \in 1..Len(d.pending) : d.pending[i] \in Int
  BY LenProperties, ElementOfSeq DEF Decoders
<1>2. SubSeq(d.pending, n + 1, Len(d.pending)) \in Seq(Int)
  BY <1>1, SubSeqProperties
<1> QED BY <1>2 DEF Consume, Decoders

-----------------------------------------------------------------------------
(***************************************************************************)
(* Whole keys and reports at the beginning of what is pending.             *)
(***************************************************************************)
\* What is not a report is a sequence or a byte.
LEMMA DecodeOther ==
  ASSUME NEW d \in Decoders, ~StartsMouse(d)
  PROVE  Decode(d) =
           IF d.pending = <<>> THEN Incomplete(d)
           ELSE IF Starts(d.pending, <<Esc, Bracket>>) THEN DecodeCsiKey(d)
           ELSE [event |-> ByteKey(Head(d.pending)), dec |-> Consume(d, 1)]
<1>1. DecodeMouse(d) = Incomplete(d)
  BY DEF DecodeMouse
<1>2. Incomplete(d).event = NoEvent /\ Incomplete(d).dec = d
  BY DEF Incomplete
<1> QED BY <1>1, <1>2 DEF Decode

\* A report of which a part is missing waits for the rest.
LEMMA DecodePartReport ==
  ASSUME NEW d \in Decoders, StartsMouse(d), Len(d.pending) < Capacity,
         First(d.pending, {Press, Release}) = 0
  PROVE  Decode(d) = Incomplete(d)
<1>1. Len(d.pending) \in Nat
  BY LenProperties DEF Decoders
<1>2. DecodeMouse(d) = Incomplete(d)
  BY <1>1, CapacityAssumption DEF DecodeMouse
<1>3. Incomplete(d).event = NoEvent /\ Incomplete(d).dec = d
  BY DEF Incomplete
<1> QED BY <1>2, <1>3 DEF Decode

\* A byte that begins no sequence is a key.
LEMMA WholeByte ==
  ASSUME NEW d \in Decoders, NEW b \in Int, NEW p \in Seq(Int), d.pending = <<b>> \o p,
         b = Esc => p = <<>> \/ p[1] # Bracket
  PROVE  Decode(d) = [event |-> ByteKey(b), dec |-> [pending |-> p, last |-> d.last]]
<1>1. <<b>> \in Seq(Int) /\ Len(<<b>>) = 1 /\ <<b>>[1] = b
  OBVIOUS
<1> DEFINE s == d.pending
<1>2. s \in Seq(Int)
  BY DEF Decoders
<1>3. Len(s) = 1 + Len(p) /\ s[1] = b /\ Len(p) \in Nat /\ (Len(p) > 0 => s[2] = p[1])
  BY <1>1, ConcatProperties, LenProperties
<1>4. Consume(d, 1) = [pending |-> p, last |-> d.last]
  BY <1>1, ConsumeIs
<1>5. ~Starts(s, <<Esc, Bracket>>)
  <2>1. p # <<>> <=> Len(p) > 0
    BY <1>3, EmptySeq
  <2>2. Starts(s, <<Esc, Bracket>>) <=> Len(s) >= 2 /\ s[1] = Esc /\ s[2] = Bracket
    BY <1>2, StartsSequence
  <2> QED BY <1>3, <2>1, <2>2
<1>6. ~StartsMouse(d)
  <2>1. StartsMouse(d) => Len(s) >= 3 /\ s[1] = Esc /\ s[2] = Bracket
    BY StartsReport
  <2>2. Starts(s, <<Esc, Bracket>>) <=> Len(s) >= 2 /\ s[1] = Esc /\ s[2] = Bracket
    BY <1>2, StartsSequence
  <2> QED BY <1>3, <1>5, <2>1, <2>2
<1>7. s # <<>> /\ Head(s) = b
  BY <1>2, <1>3, HeadTailProperties
<1> QED BY <1>4, <1>5, <1>6, <1>7, DecodeOther

\* A control sequence.
IsSequence(s) ==
  /\ s \in Seq(Int) /\ Len(s) >= 3
  /\ s[1] = Esc /\ s[2] = Bracket /\ s[3] # Less
  /\ s[Len(s)] \in Finals /\ \A i \in 3 .. Len(s) - 1 : s[i] \notin Finals

\* What the decoder makes of its parameters and its last byte.
Mods(params) ==
  IF Len(Numbers(params)) >= 2 THEN Modifiers(Numbers(params)[Len(Numbers(params))]) ELSE {}

IsKnown(params, b) ==
  /\ b \in DOMAIN ArrowKeys
  /\ \/ params = <<>>
     \/ Numbers(params) = <<1>>
     \/ Len(Numbers(params)) >= 2 /\ Mods(params) # {}

SequenceMeans(params, b) ==
  IF IsKnown(params, b) THEN Key(ArrowKeys[b], Mods(params)) ELSE NoEvent

\* The decoder, when it has looked for the end.
SequenceUpTo(d, end) ==
  IF end = 2
    THEN IF Len(d.pending) = Capacity THEN Reject(d, Capacity) ELSE Incomplete(d)
  ELSE IF ~IsKnown(SubSeq(d.pending, 3, end - 1), d.pending[end]) THEN Reject(d, end)
  ELSE [event |-> Key(ArrowKeys[d.pending[end]], Mods(SubSeq(d.pending, 3, end - 1))),
        dec   |-> Consume(d, end)]

LEMMA SequenceEnds ==
  ASSUME NEW d
  PROVE  DecodeCsiKey(d) =
           SequenceUpTo(d, First(SubSeq(d.pending, 3, Len(d.pending)), Finals) + 2)
BY DEF DecodeCsiKey, SequenceUpTo, IsKnown, Mods

\* What follows the first two bytes.
LEMMA PastTwo ==
  ASSUME NEW q \in Seq(Int), Len(q) >= 2
  PROVE  LET u == SubSeq(q, 3, Len(q))
         IN  u \in Seq(Int) /\ Len(u) = Len(q) - 2 /\ \A i \in 1..Len(u) : u[i] = q[i + 2]
<1> DEFINE u == SubSeq(q, 3, Len(q))
<1>1. Len(q) \in Nat /\ \A i \in 3..Len(q) : q[i] \in Int
  BY ElementOfSeq, LenProperties
<1>2. \A i \in 1 .. Len(q) - 3 + 1 : SubSeq(q, 3, Len(q))[i] = q[3 + i - 1]
  BY <1>1, SubSeqProperties
<1>3. u \in Seq(Int) /\ Len(u) = IF 3 <= Len(q) THEN Len(q) - 3 + 1 ELSE 0
  BY <1>1, SubSeqProperties
<1> HIDE DEF u
<1>4. Len(u) = Len(q) - 2
  <2> DEFINE m == Len(q)
             k == Len(u)
  <2>1. m \in Nat /\ m >= 2 /\ k = IF 3 <= m THEN m - 3 + 1 ELSE 0
    BY <1>1, <1>3
  <2> HIDE DEF m, k
  <2>2. k = m - 2
    BY <2>1
  <2> QED BY <2>2 DEF m, k
<1>5. ASSUME NEW i \in 1..Len(u) PROVE u[i] = q[i + 2]
  <2> DEFINE m == Len(q)
  <2>1. m \in Nat /\ i \in 1 .. m - 2
    BY <1>1, <1>4
  <2> HIDE DEF m
  <2>2. i \in 1 .. m - 3 + 1 /\ 3 + i - 1 = i + 2
    BY <2>1
  <2>3. u[i] = q[3 + i - 1]
    BY <1>2, <2>2 DEF m, u
  <2> QED BY <2>2, <2>3
<1> QED BY <1>3, <1>4, <1>5 DEF u

\* A whole sequence is consumed, and is a key or nothing.
LEMMA WholeSequence ==
  ASSUME NEW d \in Decoders, NEW s, IsSequence(s), NEW p \in Seq(Int), d.pending = s \o p
  PROVE  Decode(d) = [event |-> SequenceMeans(SubSeq(s, 3, Len(s) - 1), s[Len(s)]),
                      dec |-> [pending |-> p, last |-> d.last]]
<1> DEFINE q == d.pending
           n == Len(s)
<1>1. /\ s \in Seq(Int) /\ n \in Nat /\ n >= 3 /\ q \in Seq(Int)
      /\ s[1] = Esc /\ s[2] = Bracket /\ s[3] # Less
      /\ s[n] \in Finals /\ \A i \in 3 .. n - 1 : s[i] \notin Finals
  BY LenProperties DEF IsSequence, Decoders
<1>2. Len(q) = n + Len(p) /\ Len(p) \in Nat /\ \A i \in 1..n : q[i] = s[i]
  BY <1>1, ConcatProperties, LenProperties
<1>3. Consume(d, n) = [pending |-> p, last |-> d.last]
  BY <1>1, ConsumeIs
<1>4. q[1] = Esc /\ q[2] = Bracket /\ q[3] # Less /\ q[n] = s[n]
  BY <1>1, <1>2
<1> HIDE DEF q, n
<1>5. Starts(q, <<Esc, Bracket>>) /\ ~StartsMouse(d) /\ q # <<>>
  <2>1. Len(q) >= 3 /\ Len(q) \in Nat
    BY <1>1, <1>2
  <2>2. Starts(q, <<Esc, Bracket>>)
    <3>1. Starts(q, <<Esc, Bracket>>) <=> Len(q) >= 2 /\ q[1] = Esc /\ q[2] = Bracket
      BY <1>1, StartsSequence
    <3> QED BY <1>4, <2>1, <3>1
  <2>3. ~StartsMouse(d)
    BY <1>4, StartsReport DEF q
  <2> QED BY <2>1, <2>2, <2>3
<1>6. Decode(d) = DecodeCsiKey(d)
  BY <1>5, DecodeOther DEF q
<1> DEFINE u == SubSeq(q, 3, Len(q))
<1>7. u \in Seq(Int) /\ Len(u) = Len(q) - 2 /\ \A i \in 1..Len(u) : u[i] = q[i + 2]
  <2> DEFINE m == Len(q)
             l == Len(p)
  <2>1. m = n + l /\ l \in Nat /\ n \in Nat /\ n >= 3
    BY <1>1, <1>2
  <2> HIDE DEF m, l
  <2>2. m >= 2
    BY <2>1
  <2> QED BY <1>1, <2>2, PastTwo DEF m
<1> HIDE DEF u
<1>8. First(u, Finals) = n - 2
  <2>1. n - 2 \in 1..Len(u) /\ u[n - 2] = s[n]
    <3>1. n - 2 \in 1..Len(u) /\ n - 2 + 2 = n
      <4> DEFINE m == Len(u)
                 l == Len(p)
      <4>1. n \in Nat /\ n >= 3 /\ l \in Nat /\ m = n + l - 2
        BY <1>1, <1>2, <1>7
      <4> HIDE DEF m, l
      <4>2. n - 2 \in 1..m /\ n - 2 + 2 = n
        BY <4>1
      <4> QED BY <4>2 DEF m
    <3>2. u[n - 2] = q[n - 2 + 2]
      BY <1>7, <3>1
    <3> QED BY <1>4, <3>1, <3>2
  <2>2. ASSUME NEW i \in 1..Len(u), i < n - 2 PROVE u[i] \notin Finals
    <3>1. i + 2 \in 3..n - 1 /\ i + 2 \in 1..n /\ u[i] = q[i + 2]
      BY <1>1, <1>7, <2>2
    <3> QED BY <1>1, <1>2, <3>1
  <2> QED BY <1>1, <1>7, <2>1, <2>2, FirstIs
<1>9. SubSeq(q, 3, n - 1) = SubSeq(s, 3, n - 1)
  BY <1>1, <1>2
<1>10. First(u, Finals) + 2 = n /\ n # 2
  BY <1>1, <1>8
<1>11. DecodeCsiKey(d) = SequenceUpTo(d, n)
  BY <1>10, SequenceEnds DEF q, u
<1>12. SequenceUpTo(d, n) = [event |-> SequenceMeans(SubSeq(s, 3, n - 1), s[n]),
                              dec   |-> Consume(d, n)]
  <2>1. d.pending[n] = s[n] /\ SubSeq(d.pending, 3, n - 1) = SubSeq(s, 3, n - 1)
    BY <1>4, <1>9 DEF q
  <2>2. Reject(d, n) = [event |-> NoEvent, dec |-> Consume(d, n)]
    BY DEF Reject
  <2> QED BY <1>10, <2>1, <2>2 DEF SequenceUpTo, SequenceMeans
<1> QED BY <1>3, <1>6, <1>11, <1>12 DEF n

\* The numbers of a modified arrow.
LEMMA TwoNumbers ==
  ASSUME NEW m \in Nat
  PROVE  Numbers(<<Num(1), Semicolon, Num(m)>>) = <<1, m>>
<1> DEFINE s == <<Num(1), Semicolon, Num(m)>>
           r == [i \in 1 .. (Len(s) + 1) \div 2 |-> s[2 * i - 1] - Num(0)]
<1>1. Len(s) = 3 /\ s[1] = 257 /\ s[2] = Semicolon /\ s[3] = 256 + m /\ DOMAIN s = 1..3
  BY DEF Num
<1>2. Num(0) = 256
  BY DEF Num
<1> HIDE DEF s
<1>3. Len(s) % 2 = 1 /\ (Len(s) + 1) \div 2 = 2
  BY <1>1
<1>4. \A i \in DOMAIN s : IF i % 2 = 0 THEN s[i] = Semicolon ELSE s[i] >= Num(0)
  <2>1. ASSUME NEW i \in 1..3 PROVE IF i % 2 = 0 THEN s[i] = Semicolon ELSE s[i] >= 256
    <3>1. CASE i = 1
      BY <1>1, <3>1
    <3>2. CASE i = 2
      BY <1>1, <3>2
    <3>3. CASE i = 3
      BY <1>1, <3>3
    <3> QED BY <3>1, <3>2, <3>3
  <2> QED BY <1>1, <1>2, <2>1
<1>5. Numbers(s) = r
  BY <1>3, <1>4 DEF Numbers
<1>6. r = [i \in 1..2 |-> s[2 * i - 1] - 256]
  BY <1>2, <1>3
<1> HIDE DEF r
<1>7. r[1] = 1 /\ r[2] = m
  <2>1. r[1] = s[2 * 1 - 1] - 256 /\ r[2] = s[2 * 2 - 1] - 256
    BY <1>6
  <2>2. 2 * 1 - 1 = 1 /\ 2 * 2 - 1 = 3
    OBVIOUS
  <2>3. r[1] = s[1] - 256 /\ r[2] = s[3] - 256
    BY <2>1, <2>2
  <2> QED BY <1>1, <2>3
<1>8. r \in Seq(Int) /\ Len(r) = 2
  <2>1. ASSUME NEW i \in 1..2 PROVE s[2 * i - 1] - 256 \in Int
    <3>1. CASE i = 1
      BY <1>1, <3>1
    <3>2. CASE i = 2
      BY <1>1, <3>2
    <3> QED BY <3>1, <3>2
  <2> DEFINE e == [i \in 1..2 |-> s[2 * i - 1] - 256]
  <2>2. e \in Seq(Int) /\ Len(e) = 2
    BY <2>1
  <2> HIDE DEF e
  <2> QED BY <1>6, <2>2 DEF e
<1>9. IsPair(r, 1, m)
  BY <1>8, PairIs
<1>10. r = <<1, m>>
  BY <1>7, <1>9 DEF IsPair
<1> QED BY <1>5, <1>10 DEF s

\* Each of the seven numbers names a modifier.
LEMMA ModifiersNamed ==
  ASSUME NEW n \in 2..8
  PROVE  Modifiers(n) # {}
<1> DEFINE Weight(m) == CASE m = "shift" -> 1 [] m = "alt" -> 2 [] m = "ctrl" -> 4
<1>1. Weight("shift") = 1 /\ Weight("alt") = 2 /\ Weight("ctrl") = 4
  OBVIOUS
<1>2. Modifiers(n) = {m \in {"shift", "alt", "ctrl"} : Bit(n - 1, Weight(m))}
  BY DEF Modifiers
<1> HIDE DEF Weight
<1>3. Bit(n - 1, 1) \/ Bit(n - 1, 2) \/ Bit(n - 1, 4)
  <2>1. CASE n \in {2, 4, 6, 8}
    BY <2>1 DEF Bit
  <2>2. CASE n \in {3, 7}
    BY <2>2 DEF Bit
  <2>3. CASE n = 5
    BY <2>3 DEF Bit
  <2> QED BY <2>1, <2>2, <2>3
<1> QED BY <1>1, <1>2, <1>3

\* What the parameters of the keys mean.
LEMMA NoParameters ==
  ASSUME NEW b \in DOMAIN ArrowKeys
  PROVE  SequenceMeans(<<>>, b) = Key(ArrowKeys[b], {})
<1>1. Len(<<>>) = 0 /\ 0 % 2 # 1
  OBVIOUS
<1>2. Numbers(<<>>) = <<>>
  BY <1>1 DEF Numbers
<1>3. Mods(<<>>) = {}
  BY <1>1, <1>2 DEF Mods
<1>4. IsKnown(<<>>, b)
  BY DEF IsKnown
<1> QED BY <1>3, <1>4 DEF SequenceMeans

LEMMA ModifierMeans ==
  ASSUME NEW m \in Nat, NEW b \in DOMAIN ArrowKeys
  PROVE  SequenceMeans(<<Num(1), Semicolon, Num(m)>>, b) =
           IF m \in 2..8 THEN Key(ArrowKeys[b], Modifiers(m)) ELSE NoEvent
<1> DEFINE s == <<Num(1), Semicolon, Num(m)>>
           nums == Numbers(s)
<1>1. nums = <<1, m>>
  BY TwoNumbers
<1>2. Len(<<1, m>>) = 2 /\ <<1, m>>[2] = m /\ <<1, m>> # <<1>> /\ s # <<>>
  OBVIOUS
<1> HIDE DEF s
<1>3. Mods(s) = Modifiers(m)
  BY <1>1, <1>2 DEF Mods
<1>4. IsKnown(s, b) <=> Modifiers(m) # {}
  BY <1>1, <1>2, <1>3 DEF IsKnown
<1>5. Modifiers(m) # {} <=> m \in 2..8
  BY ModifiersNamed DEF Modifiers
<1> QED BY <1>3, <1>4, <1>5 DEF SequenceMeans, s

LEMMA UnknownMeans ==
  ASSUME NEW s, NEW b, b \notin DOMAIN ArrowKeys
  PROVE  SequenceMeans(s, b) = NoEvent
BY DEF SequenceMeans, IsKnown

-----------------------------------------------------------------------------
\* Reports of the pointer, and what their numbers mean.
Reports ==
  { <<0, Press, {"pressed"}>>, <<32, Press, {"pressed"}>>,
    <<0, Release, {"released", "clicked"}>>, <<65, Press, {"scroll_down"}>>,
    <<2, Press, {"right_pressed", "right_clicked"}>> }

LEMMA ReportFlags ==
  ASSUME NEW r \in Reports
  PROVE  /\ r[1] \in Nat /\ r[2] \in {Press, Release}
         /\ MouseFlags(r[1], r[2] = Release) = r[3]
<1>1. Press # Release
  BY DEF Press, Release
<1>2. \/ r[1] = 0 /\ r[2] = Press /\ r[3] = {"pressed"}
      \/ r[1] = 32 /\ r[2] = Press /\ r[3] = {"pressed"}
      \/ r[1] = 0 /\ r[2] = Release /\ r[3] = {"released", "clicked"}
      \/ r[1] = 65 /\ r[2] = Press /\ r[3] = {"scroll_down"}
      \/ r[1] = 2 /\ r[2] = Press /\ r[3] = {"right_pressed", "right_clicked"}
  BY DEF Reports
<1>3. CASE r[1] = 0 /\ r[2] = Press /\ r[3] = {"pressed"}
  <2>1. MouseFlags(0, r[2] = Release) = {"pressed"}
    BY <1>1, <1>3 DEF MouseFlags, Bit
  <2> QED BY <1>3, <2>1
<1>4. CASE r[1] = 32 /\ r[2] = Press /\ r[3] = {"pressed"}
  <2>1. MouseFlags(32, r[2] = Release) = {"pressed"}
    BY <1>1, <1>4 DEF MouseFlags, Bit
  <2> QED BY <1>4, <2>1
<1>5. CASE r[1] = 0 /\ r[2] = Release /\ r[3] = {"released", "clicked"}
  <2>1. MouseFlags(0, r[2] = Release) = {"released", "clicked"}
    BY <1>1, <1>5 DEF MouseFlags, Bit
  <2> QED BY <1>5, <2>1
<1>6. CASE r[1] = 65 /\ r[2] = Press /\ r[3] = {"scroll_down"}
  <2>1. MouseFlags(65, r[2] = Release) = {"scroll_down"}
    BY <1>1, <1>6 DEF MouseFlags, Bit
  <2> QED BY <1>6, <2>1
<1>7. CASE r[1] = 2 /\ r[2] = Press /\ r[3] = {"right_pressed", "right_clicked"}
  <2>1. MouseFlags(2, r[2] = Release) = {"right_pressed", "right_clicked"}
    BY <1>1, <1>7 DEF MouseFlags, Bit
  <2> QED BY <1>7, <2>1
<1> QED BY <1>2, <1>3, <1>4, <1>5, <1>6, <1>7

\* The parts of a report.
LEMMA ReportBytes ==
  ASSUME NEW n \in Nat, NEW col \in Nat, NEW final \in {Press, Release}
  PROVE  LET s == RawReport(n, col, final)
         IN  /\ s \in Seq(Int) /\ Len(s) = 9
             /\ s[1] = Esc /\ s[2] = Bracket /\ s[3] = Less
             /\ s[4] = Num(n) /\ s[5] = Semicolon /\ s[6] = Num(col + 1)
             /\ s[7] = Semicolon /\ s[8] = Num(1) /\ s[9] = final
BY DEF RawReport, Esc, Bracket, Less, Num, Semicolon, Press, Release

LEMMA ReportLength ==
  ASSUME NEW r \in Reports, NEW col \in Nat
  PROVE  Len(RawReport(r[1], col, r[2])) = 9
<1>1. r[1] \in Nat /\ r[2] \in {Press, Release}
  BY ReportFlags
<1> QED BY <1>1, ReportBytes

\* Only the last byte of a report ends it.
LEMMA ReportEnds ==
  ASSUME NEW n \in Nat, NEW col \in Nat, NEW final \in {Press, Release}, NEW i \in 1..8
  PROVE  RawReport(n, col, final)[i] \notin {Press, Release}
<1> DEFINE s == RawReport(n, col, final)
<1>1. /\ s[1] = Esc /\ s[2] = Bracket /\ s[3] = Less
      /\ s[4] = Num(n) /\ s[5] = Semicolon /\ s[6] = Num(col + 1)
      /\ s[7] = Semicolon /\ s[8] = Num(1)
  BY DEF RawReport
<1> HIDE DEF s
<1>2. s[i] \in {Esc, Bracket, Less, Semicolon} \/ s[i] >= 256
  <2>1. Num(n) >= 256 /\ Num(col + 1) >= 256 /\ Num(1) >= 256
    BY DEF Num
  <2>2. i = 1 \/ i = 2 \/ i = 3 \/ i = 4 \/ i = 5 \/ i = 6 \/ i = 7 \/ i = 8
    OBVIOUS
  <2> QED BY <1>1, <2>1, <2>2
<1>3. s[i] \notin {Press, Release}
  BY <1>2 DEF Esc, Bracket, Less, Semicolon, Press, Release
<1> QED BY <1>3 DEF s

\* The three numbers of a report.
LEMMA ReportNumbers ==
  ASSUME NEW n \in Nat, NEW col \in Nat, NEW s \in Seq(Int), Len(s) = 5,
         s[1] = Num(n), s[2] = Semicolon, s[3] = Num(col + 1), s[4] = Semicolon, s[5] = Num(1)
  PROVE  /\ Len(Numbers(s)) = 3
         /\ Numbers(s)[1] = n /\ Numbers(s)[2] = col + 1
<1> DEFINE r == [i \in 1 .. (Len(s) + 1) \div 2 |-> s[2 * i - 1] - Num(0)]
<1>1. DOMAIN s = 1..5 /\ Len(s) % 2 = 1 /\ (Len(s) + 1) \div 2 = 3
  BY LenProperties
<1>2. \A i \in DOMAIN s : IF i % 2 = 0 THEN s[i] = Semicolon ELSE s[i] >= Num(0)
  <2>1. Num(n) >= Num(0) /\ Num(col + 1) >= Num(0) /\ Num(1) >= Num(0)
    BY DEF Num
  <2>2. ASSUME NEW i \in 1..5 PROVE IF i % 2 = 0 THEN s[i] = Semicolon ELSE s[i] >= Num(0)
    <3>1. CASE i = 1
      BY <2>1, <3>1
    <3>2. CASE i = 2
      BY <3>2
    <3>3. CASE i = 3
      BY <2>1, <3>3
    <3>4. CASE i = 4
      BY <3>4
    <3>5. CASE i = 5
      BY <2>1, <3>5
    <3> QED BY <3>1, <3>2, <3>3, <3>4, <3>5
  <2> QED BY <1>1, <2>2
<1>3. Numbers(s) = r
  BY <1>1, <1>2 DEF Numbers
<1>4. r = [i \in 1..3 |-> s[2 * i - 1] - 256]
  BY <1>1 DEF Num
<1>5. Len(r) = 3 /\ r[1] = s[1] - 256 /\ r[2] = s[3] - 256
  BY <1>4
<1> HIDE DEF r
<1>6. s[1] - 256 = n /\ s[3] - 256 = col + 1
  BY DEF Num
<1> QED BY <1>3, <1>5, <1>6

\* What is in front of others.
LEMMA SpliceParts ==
  ASSUME NEW s \in Seq(Int), NEW p \in Seq(Int)
  PROVE  /\ Len(s \o p) = Len(s) + Len(p) /\ Len(s) \in Nat /\ Len(p) \in Nat
         /\ \A i \in 1..Len(s) : (s \o p)[i] = s[i]
         /\ \A i \in 1..Len(p) : (s \o p)[Len(s) + i] = p[i]
BY ConcatProperties, LenProperties

\* What report r means at col, and what is left of it.
PointerMeans(r, col, last) ==
  Pointer(r[3] \cup (IF col # last THEN {"moved"} ELSE {}), col)

ReportDecoded(d, r, col, p) ==
  Decode(d) = [event |-> PointerMeans(r, col, d.last), dec |-> [pending |-> p, last |-> col]]

\* A whole report is consumed, and says what has happened and where.
LEMMA WholeReport ==
  ASSUME NEW d \in Decoders, NEW r \in Reports, NEW col \in Nat, NEW p \in Seq(Int),
         d.pending = RawReport(r[1], col, r[2]) \o p
  PROVE  ReportDecoded(d, r, col, p)
<1> DEFINE s == RawReport(r[1], col, r[2])
           q == d.pending
<1>1. r[1] \in Nat /\ r[2] \in {Press, Release} /\ MouseFlags(r[1], r[2] = Release) = r[3]
  BY ReportFlags
<1>2. /\ s \in Seq(Int) /\ Len(s) = 9
      /\ s[1] = Esc /\ s[2] = Bracket /\ s[3] = Less
      /\ s[4] = Num(r[1]) /\ s[5] = Semicolon /\ s[6] = Num(col + 1)
      /\ s[7] = Semicolon /\ s[8] = Num(1) /\ s[9] = r[2]
  BY <1>1, ReportBytes
<1>3. \A i \in 1..8 : s[i] \notin {Press, Release}
  BY <1>1, ReportEnds
<1>4. q = s \o p
  OBVIOUS
<1> HIDE DEF s
<1>5. Consume(d, 9) = [pending |-> p, last |-> d.last]
  BY <1>2, <1>4, ConsumeIs
<1>6. /\ q \in Seq(Int) /\ Len(q) = 9 + Len(p) /\ Len(p) \in Nat
      /\ \A i \in 1..9 : q[i] = s[i]
      /\ q[1] = s[1] /\ q[2] = s[2] /\ q[3] = s[3] /\ q[4] = s[4] /\ q[5] = s[5]
      /\ q[6] = s[6] /\ q[7] = s[7] /\ q[8] = s[8] /\ q[9] = s[9]
  <2>1. q \in Seq(Int)
    BY DEF Decoders
  <2>2. /\ Len(s \o p) = Len(s) + Len(p) /\ Len(p) \in Nat
        /\ \A i \in 1..Len(s) : (s \o p)[i] = s[i]
    BY <1>2, SpliceParts
  <2> HIDE DEF q
  <2>3. \A i \in 1..9 : q[i] = s[i]
    BY <1>2, <1>4, <2>2
  <2>4. /\ 1 \in 1..9 /\ 2 \in 1..9 /\ 3 \in 1..9 /\ 4 \in 1..9 /\ 5 \in 1..9
        /\ 6 \in 1..9 /\ 7 \in 1..9 /\ 8 \in 1..9 /\ 9 \in 1..9
    OBVIOUS
  <2> QED BY <1>2, <1>4, <2>1, <2>2, <2>3, <2>4
<1>7. StartsMouse(d)
  <2>1. q[1] = Esc /\ q[2] = Bracket /\ q[3] = Less /\ Len(q) >= 3
    <3> HIDE DEF q
    <3> QED BY <1>2, <1>6
  <2> QED BY <2>1, StartsReport
<1>8. First(q, {Press, Release}) = 9
  <2>1. 9 \in 1..Len(q) /\ q[9] \in {Press, Release}
    <3> HIDE DEF q
    <3> QED BY <1>1, <1>2, <1>6
  <2>2. ASSUME NEW i \in 1..Len(q), i < 9 PROVE q[i] \notin {Press, Release}
    <3>1. i \in 1..8 /\ i \in 1..9
      BY <2>2
    <3> QED BY <1>3, <1>6, <3>1
  <2> QED BY <1>6, <2>1, <2>2, FirstIs
<1> DEFINE u    == SubSeq(q, 4, 8)
           nums == Numbers(u)
<1>9. Len(nums) = 3 /\ nums[1] = r[1] /\ nums[2] = col + 1
  <2>1. u \in Seq(Int) /\ Len(u) = 5
        /\ u[1] = q[4] /\ u[2] = q[5] /\ u[3] = q[6] /\ u[4] = q[7] /\ u[5] = q[8]
    <3>1. ASSUME NEW i \in 4..8 PROVE q[i] \in Int
      <4> HIDE DEF q
      <4> DEFINE k == Len(q)
      <4>1. q \in Seq(Int) /\ k \in Nat /\ k >= 9
        BY <1>6
      <4> HIDE DEF k
      <4>2. i \in 1..k
        BY <4>1
      <4> QED BY <4>1, <4>2, ElementOfSeq DEF k
    <3> QED BY <1>6, <3>1
  <2> HIDE DEF u
  <2>2. /\ u[1] = Num(r[1]) /\ u[2] = Semicolon /\ u[3] = Num(col + 1)
        /\ u[4] = Semicolon /\ u[5] = Num(1)
    <3> HIDE DEF q
    <3> QED BY <1>2, <1>6, <2>1
  <2> QED BY <1>1, <2>1, <2>2, ReportNumbers
<1>10. (IF nums[2] > 0 THEN nums[2] - 1 ELSE 0) = col
  BY <1>9
<1>11. q[9] = r[2]
  <2> HIDE DEF q
  <2> QED BY <1>2, <1>6
<1> DEFINE flags == r[3] \cup (IF col # d.last THEN {"moved"} ELSE {})
<1> HIDE DEF q, nums, u
<1>12. DecodeMouse(d) = [event |-> Pointer(flags, col), dec |-> [Consume(d, 9) EXCEPT !.last = col]]
  <2>1. ~(~StartsMouse(d) \/ Len(d.pending) < 6)
    BY <1>6, <1>7 DEF q
  <2>2. First(d.pending, {Press, Release}) = 9 /\ 9 # 0 /\ 9 - 1 = 8
    BY <1>8 DEF q
  <2>3. Numbers(SubSeq(d.pending, 4, 8)) = nums
    BY DEF nums, u, q
  <2>4. d.pending[9] = r[2]
    BY <1>11 DEF q
  <2> HIDE DEF flags
  <2>5. MouseFlags(nums[1], d.pending[9] = Release) = r[3]
    BY <1>1, <1>9, <2>4
  <2> QED BY <1>9, <1>10, <2>1, <2>2, <2>3, <2>5 DEF DecodeMouse, flags
<1>13. [Consume(d, 9) EXCEPT !.last = col] = [pending |-> p, last |-> col]
  BY <1>5
<1>14. Pointer(flags, col) # NoEvent
  BY DEF Pointer, NoEvent
<1> HIDE DEF flags
<1>15. Decode(d) = DecodeMouse(d)
  BY <1>12, <1>14 DEF Decode
<1>16. PointerMeans(r, col, d.last) = Pointer(flags, col)
  BY DEF PointerMeans, flags
<1> QED BY <1>12, <1>13, <1>15, <1>16 DEF ReportDecoded

-----------------------------------------------------------------------------
(***************************************************************************)
(* Keys and reports of which the rest, t, has not been read: the decoder   *)
(* waits, but for an Escape with nothing behind it.                        *)
(***************************************************************************)
Waits(d, t) ==
  \/ Decode(d) = Incomplete(d)
  \/ /\ t[1] = Bracket
     /\ Decode(d) = [event |-> ByteKey(Esc), dec |-> [pending |-> <<>>, last |-> d.last]]

LEMMA PartEscape ==
  ASSUME NEW d \in Decoders, Len(d.pending) = 1, d.pending[1] = Esc, NEW t, t[1] = Bracket
  PROVE  Waits(d, t)
<1> DEFINE q == d.pending
<1>1. q \in Seq(Int)
  BY DEF Decoders
<1>4. q = <<Esc>> \o <<>>
  <2>1. <<Esc>> \in Seq(Int) /\ Len(<<Esc>>) = 1 /\ <<Esc>>[1] = Esc
    BY DEF Esc
  <2>2. <<Esc>> \o <<>> = <<Esc>>
    BY <2>1, ConcatEmptySeq
  <2> DEFINE u == <<Esc>>
  <2> HIDE DEF q, u
  <2>3. \A i \in 1..Len(q) : q[i] = u[i]
    BY <2>1 DEF q, u
  <2>4. q = u
    BY <1>1, <2>1, <2>3, SameNumbers DEF q, u
  <2> QED BY <2>2, <2>4 DEF u
<1>5. <<>> \in Seq(Int) /\ Esc \in Int
  BY EmptySeq DEF Esc
<1>6. Decode(d) = [event |-> ByteKey(Esc), dec |-> [pending |-> <<>>, last |-> d.last]]
  BY <1>4, <1>5, WholeByte
<1> QED BY <1>6 DEF Waits

\* The bytes of the part are those of the whole.
LEMMA PartBytes ==
  ASSUME NEW d \in Decoders, NEW s \in Seq(Int), NEW t \in Seq(Int), s = d.pending \o t, t # <<>>
  PROVE  /\ d.pending \in Seq(Int) /\ Len(d.pending) \in Nat /\ Len(d.pending) < Len(s)
         /\ Len(s) \in Nat /\ \A i \in 1..Len(d.pending) : d.pending[i] = s[i]
         /\ s[Len(d.pending) + 1] = t[1]
<1> DEFINE q == d.pending
<1>1. q \in Seq(Int)
  BY DEF Decoders
<1>2. /\ Len(q \o t) = Len(q) + Len(t) /\ Len(q) \in Nat /\ Len(t) \in Nat
      /\ \A i \in 1..Len(q) : (q \o t)[i] = q[i]
      /\ \A i \in 1..Len(t) : (q \o t)[Len(q) + i] = t[i]
  <2> HIDE DEF q
  <2> QED BY <1>1, SpliceParts
<1>3. Len(t) # 0
  BY EmptySeq
<1>4. 1 \in 1..Len(t)
  BY <1>2, <1>3
<1> QED BY <1>1, <1>2, <1>3, <1>4, LenProperties

LEMMA PartSequence ==
  ASSUME NEW d \in Decoders, NEW s, IsSequence(s), Len(s) <= Capacity,
         NEW t \in Seq(Int), s = d.pending \o t, t # <<>>, d.pending # <<>>
  PROVE  Waits(d, t)
<1> DEFINE q == d.pending
<1>1. /\ s \in Seq(Int) /\ Len(s) >= 3
      /\ s[1] = Esc /\ s[2] = Bracket /\ s[3] # Less
      /\ \A i \in 3 .. Len(s) - 1 : s[i] \notin Finals
  BY DEF IsSequence
<1>2. /\ q \in Seq(Int) /\ Len(q) \in Nat /\ Len(q) < Len(s) /\ Len(s) \in Nat
      /\ \A i \in 1..Len(q) : q[i] = s[i]
  BY <1>1, PartBytes
<1>3. Len(q) # 0
  BY <1>2, EmptySeq
<1>4. CASE Len(q) = 1
  <2>1. 1 \in 1..Len(q) /\ s[Len(q) + 1] = t[1] /\ Len(q) + 1 = 2
    <3>1. s[Len(q) + 1] = t[1]
      BY <1>1, PartBytes
    <3> HIDE DEF q
    <3>2. 1 \in 1..Len(q) /\ Len(q) + 1 = 2
      BY <1>4
    <3> QED BY <3>1, <3>2
  <2>2. q[1] = Esc /\ t[1] = Bracket
    BY <1>1, <1>2, <2>1
  <2> QED BY <1>4, <2>2, PartEscape
<1>5. CASE Len(q) >= 2
  <2> HIDE DEF q
  <2>1. 1 \in 1..Len(q) /\ 2 \in 1..Len(q) /\ (Len(q) >= 3 => 3 \in 1..Len(q))
    BY <1>2, <1>5
  <2>2. q[1] = Esc /\ q[2] = Bracket /\ (Len(q) >= 3 => q[3] # Less)
    BY <1>1, <1>2, <2>1
  <2>3. ~StartsMouse(d)
    BY <2>2, StartsReport DEF q
  <2>4. Starts(q, <<Esc, Bracket>>) <=> Len(q) >= 2 /\ q[1] = Esc /\ q[2] = Bracket
    BY <1>2, StartsSequence
  <2>5. Starts(q, <<Esc, Bracket>>)
    BY <1>5, <2>2, <2>4
  <2>6. q # <<>>
    BY DEF q
  <2>7. Decode(d) = DecodeCsiKey(d)
    BY <2>3, <2>5, <2>6, DecodeOther DEF q
  <2> DEFINE u == SubSeq(q, 3, Len(q))
  <2>8. u \in Seq(Int) /\ Len(u) = Len(q) - 2 /\ \A i \in 1..Len(u) : u[i] = q[i + 2]
    BY <1>2, <1>5, PastTwo
  <2> HIDE DEF u
  <2>9. ASSUME NEW i \in 1..Len(u) PROVE u[i] \notin Finals
    <3>1. i + 2 \in 3 .. Len(s) - 1 /\ i + 2 \in 1..Len(q)
      <4> DEFINE k == Len(u)
                 l == Len(s)
                 m == Len(q)
      <4>1. k = m - 2 /\ l \in Nat /\ m \in Nat /\ m < l /\ i \in 1..k
        BY <1>2, <2>8
      <4> HIDE DEF k, l, m
      <4>2. i + 2 \in 3 .. l - 1 /\ i + 2 \in 1..m
        BY <4>1
      <4> QED BY <4>2 DEF l, m
    <3>2. u[i] = q[i + 2] /\ q[i + 2] = s[i + 2]
      BY <1>2, <2>8, <3>1
    <3> QED BY <1>1, <3>1, <3>2
  <2>10. First(u, Finals) + 2 = 2
    <3>1. First(u, Finals) = 0
      BY <2>8, <2>9, FirstNone
    <3> QED BY <3>1
  <2>11. SequenceUpTo(d, 2) = Incomplete(d)
    <3>1. Len(d.pending) # Capacity
      BY <1>2, CapacityAssumption DEF q
    <3> QED BY <3>1 DEF SequenceUpTo
  <2>12. DecodeCsiKey(d) = SequenceUpTo(d, First(u, Finals) + 2)
    BY SequenceEnds DEF u, q
  <2>13. Decode(d) = Incomplete(d)
    BY <2>7, <2>10, <2>11, <2>12
  <2> QED BY <2>13 DEF Waits
<1>6. Len(q) = 1 \/ Len(q) >= 2
  <2> DEFINE m == Len(q)
  <2>1. m \in Nat /\ m # 0
    BY <1>2, <1>3
  <2> HIDE DEF m
  <2>2. m = 1 \/ m >= 2
    BY <2>1
  <2> QED BY <2>2 DEF m
<1> QED BY <1>4, <1>5, <1>6, Zenon

LEMMA PartReport ==
  ASSUME NEW d \in Decoders, NEW n \in Nat, NEW col \in Nat, NEW final \in {Press, Release},
         NEW t \in Seq(Int), RawReport(n, col, final) = d.pending \o t, t # <<>>, d.pending # <<>>
  PROVE  Waits(d, t)
<1> DEFINE q == d.pending
           s == RawReport(n, col, final)
<1>1. /\ s \in Seq(Int) /\ Len(s) = 9
      /\ s[1] = Esc /\ s[2] = Bracket /\ s[3] = Less
  BY ReportBytes
<1>2. \A i \in 1..8 : s[i] \notin {Press, Release}
  BY ReportEnds
<1>3. s = d.pending \o t
  OBVIOUS
<1> HIDE DEF s
<1>4. /\ q \in Seq(Int) /\ Len(q) \in Nat /\ Len(q) < Len(s)
      /\ \A i \in 1..Len(q) : q[i] = s[i]
  BY <1>1, <1>3, PartBytes
<1>5. Len(q) # 0
  BY <1>4, EmptySeq
<1>6. CASE Len(q) = 1
  <2>1. 1 \in 1..Len(q) /\ s[Len(q) + 1] = t[1] /\ Len(q) + 1 = 2
    <3>1. q \in Seq(Int) /\ s = q \o t
      BY <1>3, <1>4
    <3>2. s[Len(q) + 1] = t[1]
      BY <1>1, <3>1, PartBytes, Zenon
    <3> HIDE DEF q
    <3>3. 1 \in 1..Len(q) /\ Len(q) + 1 = 2
      BY <1>6
    <3> QED BY <3>2, <3>3
  <2>2. q[1] = Esc /\ t[1] = Bracket
    BY <1>1, <1>4, <2>1
  <2> QED BY <1>6, <2>2, PartEscape
<1>7. CASE Len(q) >= 2
  <2> HIDE DEF q
  <2>1. 1 \in 1..Len(q) /\ 2 \in 1..Len(q) /\ (Len(q) >= 3 => 3 \in 1..Len(q))
    BY <1>4, <1>7
  <2>2. q[1] = Esc /\ q[2] = Bracket /\ (Len(q) >= 3 => q[3] = Less)
    BY <1>1, <1>4, <2>1
  <2>3. Len(q) < Capacity /\ Len(q) # Capacity
    BY <1>1, <1>4, InputAssumption, CapacityAssumption
  <2>4. CASE Len(q) = 2
    <3>1. ~StartsMouse(d)
      <4>1. StartsMouse(d) => Len(q) >= 3
        BY StartsReport DEF q
      <4> QED BY <2>4, <4>1
    <3>2. Starts(q, <<Esc, Bracket>>) <=> Len(q) >= 2 /\ q[1] = Esc /\ q[2] = Bracket
      BY <1>4, StartsSequence
    <3>3. Starts(q, <<Esc, Bracket>>)
      BY <1>7, <2>2, <3>2
    <3>4. q # <<>>
      BY DEF q
    <3>5. Decode(d) = DecodeCsiKey(d)
      BY <3>1, <3>3, <3>4, DecodeOther DEF q
    <3> DEFINE u == SubSeq(q, 3, Len(q))
    <3>6. u = <<>>
      BY <2>4, SubSeqEmpty
    <3> HIDE DEF u
    <3>7. First(u, Finals) + 2 = 2
      <4>1. u \in Seq(Int) /\ Len(u) = 0
        BY <3>6, EmptySeq
      <4>2. \A i \in 1..Len(u) : u[i] \notin Finals
        BY <4>1
      <4>3. First(u, Finals) = 0
        BY <4>1, <4>2, FirstNone
      <4> QED BY <4>3
    <3>8. SequenceUpTo(d, 2) = Incomplete(d)
      BY <2>3 DEF SequenceUpTo, q
    <3>9. DecodeCsiKey(d) = SequenceUpTo(d, First(u, Finals) + 2)
      BY SequenceEnds DEF u, q
    <3>10. Decode(d) = Incomplete(d)
      BY <3>5, <3>7, <3>8, <3>9
    <3> QED BY <3>10 DEF Waits
  <2>5. CASE Len(q) >= 3
    <3>1. StartsMouse(d)
      BY <2>2, <2>5, StartsReport DEF q
    <3>2. ASSUME NEW i \in 1..Len(q) PROVE q[i] \notin {Press, Release}
      <4>1. Len(q) < 9 /\ q[i] = s[i]
        BY <1>1, <1>4
      <4>2. i \in 1..8
        BY <1>4, <4>1
      <4> QED BY <1>2, <4>1, <4>2
    <3>3. First(q, {Press, Release}) = 0
      BY <1>4, <3>2, FirstNone
    <3>4. Decode(d) = Incomplete(d)
      BY <2>3, <3>1, <3>3, DecodePartReport DEF q
    <3> QED BY <3>4 DEF Waits
  <2>6. Len(q) = 2 \/ Len(q) >= 3
    <3> DEFINE m == Len(q)
    <3>1. m \in Nat /\ m >= 2
      BY <1>4, <1>7
    <3> HIDE DEF m
    <3>2. m = 2 \/ m >= 3
      BY <3>1
    <3> QED BY <3>2 DEF m
  <2> QED BY <2>4, <2>5, <2>6, Zenon
<1>8. Len(q) = 1 \/ Len(q) >= 2
  <2> DEFINE m == Len(q)
  <2>1. m \in Nat /\ m # 0
    BY <1>4, <1>5
  <2> HIDE DEF m
  <2>2. m = 1 \/ m >= 2
    BY <2>1
  <2> QED BY <2>2 DEF m
<1> QED BY <1>6, <1>7, <1>8, Zenon

-----------------------------------------------------------------------------
(***************************************************************************)
(* What is typed and pointed on a raw terminal, as steps of streams.       *)
(***************************************************************************)
KeyEvents ==
  {ByteKey(b) : b \in Int} \cup
  {Key(ArrowKeys[b], mods) : b \in DOMAIN ArrowKeys, mods \in SUBSET {"shift", "alt", "ctrl"}}

RawEvents == KeyEvents \cup {PointerMeans(r, col, last) : r \in Reports, col \in Nat, last \in Int}

KeyStep(m, bytes) == m[3] = m[4] /\ RawKey(KeySends(m[1], m[2]), bytes)

ReportStep(m) ==
  \E r \in Reports, col \in Nat :
    m = <<RawReport(r[1], col, r[2]), <<PointerMeans(r, col, m[3])>>, m[3], col>>

RawSteps(bytes) ==
  {m \in Moves(Int, RawEvents, Int) : KeyStep(m, bytes) \/ ReportStep(m)}

\* A sequence, and the event it means if it means one.
Meant(ev) == IF ev = NoEvent THEN <<>> ELSE <<ev>>

SequenceKey(s, e) ==
  /\ IsSequence(s) /\ Len(s) <= Capacity
  /\ e = Meant(SequenceMeans(SubSeq(s, 3, Len(s) - 1), s[Len(s)]))

LEMMA KeyMeans ==
  ASSUME NEW b \in DOMAIN ArrowKeys, NEW mods \in SUBSET {"shift", "alt", "ctrl"}
  PROVE  /\ Meant(Key(ArrowKeys[b], mods)) = <<Key(ArrowKeys[b], mods)>>
         /\ <<Key(ArrowKeys[b], mods)>> \in Seq(RawEvents)
<1> DEFINE ev == Key(ArrowKeys[b], mods)
<1>1. ev # NoEvent
  BY DEF Key, NoEvent
<1>2. ev \in RawEvents
  BY DEF RawEvents, KeyEvents
<1> HIDE DEF ev
<1>3. Meant(ev) = <<ev>> /\ <<ev>> \in Seq(RawEvents)
  BY <1>1, <1>2 DEF Meant
<1> QED BY <1>3 DEF ev

LEMMA ArrowForm ==
  ASSUME NEW b \in DOMAIN ArrowKeys
  PROVE  SequenceKey(<<Esc, Bracket, b>>, <<Key(ArrowKeys[b], {})>>)
<1> DEFINE s == <<Esc, Bracket, b>>
<1>1. b \in 65..68
  BY DEF ArrowKeys
<1>2. s \in Seq(Int) /\ Len(s) = 3 /\ s[1] = Esc /\ s[2] = Bracket /\ s[3] = b
  BY <1>1 DEF Esc, Bracket
<1>3. b \in Finals /\ b # Less
  BY <1>1 DEF Finals, Less
<1> HIDE DEF s
<1>4. IsSequence(s)
  BY <1>2, <1>3 DEF IsSequence
<1>5. Len(s) <= Capacity
  BY <1>2, InputAssumption, CapacityAssumption
<1>6. SubSeq(s, 3, 2) = <<>>
  BY SubSeqEmpty
<1>7. SubSeq(s, 3, Len(s) - 1) = <<>> /\ s[Len(s)] = b
  BY <1>2, <1>6
<1>8. SequenceMeans(SubSeq(s, 3, Len(s) - 1), s[Len(s)]) = Key(ArrowKeys[b], {})
  BY <1>7, NoParameters
<1>9. Meant(Key(ArrowKeys[b], {})) = <<Key(ArrowKeys[b], {})>>
  BY KeyMeans
<1>10. SequenceKey(s, <<Key(ArrowKeys[b], {})>>)
  BY <1>4, <1>5, <1>8, <1>9 DEF SequenceKey
<1> QED BY <1>10 DEF s

LEMMA ModifiedForm ==
  ASSUME NEW n \in Nat, NEW b \in DOMAIN ArrowKeys
  PROVE  SequenceKey(ModifiedArrow(n, b), IF n \in 2..8 THEN <<Key(ArrowKeys[b], Modifiers(n))>> ELSE <<>>)
<1> DEFINE s == ModifiedArrow(n, b)
<1>1. b \in 65..68
  BY DEF ArrowKeys
<1>2. /\ s \in Seq(Int) /\ Len(s) = 6
      /\ s[1] = Esc /\ s[2] = Bracket /\ s[3] = Num(1) /\ s[4] = Semicolon
      /\ s[5] = Num(n) /\ s[6] = b
  BY <1>1 DEF ModifiedArrow, Esc, Bracket, Num, Semicolon
<1>3. b \in Finals /\ Num(1) # Less
  BY <1>1 DEF Finals, Less, Num
<1>4. Num(1) \notin Finals /\ Semicolon \notin Finals /\ Num(n) \notin Finals
  BY DEF Finals, Num, Semicolon
<1> HIDE DEF s
<1>5. IsSequence(s)
  <2>1. ASSUME NEW i \in 3..5 PROVE s[i] \notin Finals
    <3>1. i = 3 \/ i = 4 \/ i = 5
      OBVIOUS
    <3> QED BY <1>2, <1>4, <3>1
  <2>2. s[3] # Less /\ s[6] \in Finals
    BY <1>2, <1>3
  <2>3. Len(s) - 1 = 5 /\ Len(s) >= 3 /\ s[Len(s)] = s[6]
    BY <1>2
  <2>4. \A i \in 3 .. Len(s) - 1 : s[i] \notin Finals
    BY <2>1, <2>3
  <2> QED BY <1>2, <2>2, <2>3, <2>4 DEF IsSequence
<1>6. Len(s) <= Capacity
  BY <1>2, InputAssumption, CapacityAssumption
<1>7. SubSeq(s, 3, 5) = <<Num(1), Semicolon, Num(n)>>
  <2> DEFINE u == SubSeq(s, 3, 5)
  <2>1. ASSUME NEW i \in 3..5 PROVE s[i] \in Int
    <3>1. i \in 1..Len(s)
      BY <1>2
    <3> QED BY <1>2, <3>1, ElementOfSeq
  <2>2. /\ u \in Seq(Int) /\ Len(u) = 3
        /\ u[1] = s[3] /\ u[2] = s[4] /\ u[3] = s[5]
    BY <1>2, <2>1
  <2> HIDE DEF u
  <2>3. u[1] = Num(1) /\ u[2] = Semicolon /\ u[3] = Num(n)
    BY <1>2, <2>2
  <2>4. IsTriple(u, Num(1), Semicolon, Num(n))
    BY <2>2, TripleIs DEF Num, Semicolon
  <2>5. u = <<Num(1), Semicolon, Num(n)>>
    BY <2>3, <2>4 DEF IsTriple
  <2> QED BY <2>5 DEF u
<1>8. SubSeq(s, 3, Len(s) - 1) = <<Num(1), Semicolon, Num(n)>> /\ s[Len(s)] = b
  BY <1>2, <1>7
<1>9. SequenceMeans(SubSeq(s, 3, Len(s) - 1), s[Len(s)])
        = IF n \in 2..8 THEN Key(ArrowKeys[b], Modifiers(n)) ELSE NoEvent
  <2>1. SequenceMeans(<<Num(1), Semicolon, Num(n)>>, b)
          = IF n \in 2..8 THEN Key(ArrowKeys[b], Modifiers(n)) ELSE NoEvent
    BY ModifierMeans
  <2> QED BY <1>8, <2>1
<1>10. Meant(Key(ArrowKeys[b], Modifiers(n))) = <<Key(ArrowKeys[b], Modifiers(n))>>
  <2>1. Modifiers(n) \in SUBSET {"shift", "alt", "ctrl"}
    BY DEF Modifiers
  <2> QED BY <2>1, KeyMeans
<1>11. Meant(NoEvent) = <<>>
  BY DEF Meant
<1>12. SequenceKey(s, IF n \in 2..8 THEN <<Key(ArrowKeys[b], Modifiers(n))>> ELSE <<>>)
  BY <1>5, <1>6, <1>9, <1>10, <1>11 DEF SequenceKey
<1> QED BY <1>12 DEF s

LEMMA UnknownForm ==
  ASSUME NEW s, NEW e, UnknownKey(KeySends(s, e))
  PROVE  SequenceKey(s, e) /\ e = <<>>
<1>1. KeySends(s, e).sends = s /\ KeySends(s, e).means = e
  BY DEF KeySends
<1>2. /\ e = <<>>
      /\ s \in Seq(Nat) /\ Len(s) \in 3..Capacity
      /\ s[1] = Esc /\ s[2] = Bracket /\ s[3] # Less
      /\ s[Len(s)] \in Finals /\ \A i \in 3 .. Len(s) - 1 : s[i] \notin Finals
      /\ \/ s[Len(s)] \notin DOMAIN ArrowKeys
         \/ Len(s) = 6 /\ s[5] - Num(0) \in Nat \ 2..8 /\ s = ModifiedArrow(s[5] - Num(0), s[6])
  BY <1>1 DEF UnknownKey
<1>3. s \in Seq(Int)
  BY <1>2
<1>4. IsSequence(s) /\ Len(s) <= Capacity
  BY <1>2, <1>3, CapacityAssumption DEF IsSequence
<1>5. CASE s[Len(s)] \notin DOMAIN ArrowKeys
  <2>1. SequenceMeans(SubSeq(s, 3, Len(s) - 1), s[Len(s)]) = NoEvent
    BY <1>5, UnknownMeans
  <2>2. Meant(NoEvent) = <<>>
    BY DEF Meant
  <2> QED BY <1>2, <1>4, <2>1, <2>2 DEF SequenceKey
<1>6. CASE s[Len(s)] \in DOMAIN ArrowKeys
  <2> DEFINE n == s[5] - Num(0)
             b == s[6]
  <2>1. n \in Nat /\ n \notin 2..8 /\ s = ModifiedArrow(n, b) /\ b \in DOMAIN ArrowKeys
    BY <1>2, <1>6
  <2> HIDE DEF n, b
  <2>2. SequenceKey(ModifiedArrow(n, b), <<>>)
    BY <2>1, ModifiedForm
  <2> QED BY <1>2, <2>1, <2>2
<1> QED BY <1>5, <1>6

\* A key is a byte or a sequence.
LEMMA KeyForms ==
  ASSUME NEW s, NEW e, NEW bytes \in SUBSET (0..255), RawKey(KeySends(s, e), bytes)
  PROVE  /\ s \in Seq(Int) /\ e \in Seq(RawEvents)
         /\ \/ \E b \in bytes : s = <<b>> /\ e = <<ByteKey(b)>>
            \/ SequenceKey(s, e)
<1>1. \A t, f : KeySends(s, e) = KeySends(t, f) => s = t /\ e = f
  BY DEF KeySends
<1>2. CASE KeySends(s, e) \in ByteKeys(bytes)
  <2>1. PICK b \in bytes : KeySends(s, e) = KeySends(<<b>>, <<ByteKey(b)>>)
    BY <1>2 DEF ByteKeys
  <2>2. s = <<b>> /\ e = <<ByteKey(b)>>
    BY <1>1, <2>1
  <2>3. b \in Int /\ ByteKey(b) \in RawEvents
    BY DEF RawEvents, KeyEvents
  <2>4. <<b>> \in Seq(Int)
    BY <2>3
  <2>5. <<ByteKey(b)>> \in Seq(RawEvents)
    <3> DEFINE ev == ByteKey(b)
    <3>1. ev \in RawEvents
      BY <2>3
    <3> HIDE DEF ev
    <3>2. <<ev>> \in Seq(RawEvents)
      BY <3>1
    <3> QED BY <3>2 DEF ev
  <2> QED BY <2>2, <2>4, <2>5
<1>3. CASE KeySends(s, e) \in RawArrows
  <2>1. PICK b \in DOMAIN ArrowKeys :
          KeySends(s, e) = KeySends(<<Esc, Bracket, b>>, <<Key(ArrowKeys[b], {})>>)
    BY <1>3 DEF RawArrows
  <2>2. s = <<Esc, Bracket, b>> /\ e = <<Key(ArrowKeys[b], {})>>
    BY <1>1, <2>1
  <2>3. SequenceKey(s, e)
    BY <2>2, ArrowForm
  <2>4. e \in Seq(RawEvents)
    BY <2>2, KeyMeans
  <2> QED BY <2>3, <2>4 DEF SequenceKey, IsSequence
<1>4. CASE KeySends(s, e) \in ModifiedArrows
  <2>1. PICK n \in 2..8, b \in DOMAIN ArrowKeys :
          KeySends(s, e) = KeySends(ModifiedArrow(n, b), <<Key(ArrowKeys[b], Modifiers(n))>>)
    BY <1>4 DEF ModifiedArrows
  <2>2. s = ModifiedArrow(n, b) /\ e = <<Key(ArrowKeys[b], Modifiers(n))>>
    BY <1>1, <2>1
  <2>3. n \in Nat
    OBVIOUS
  <2>4. SequenceKey(ModifiedArrow(n, b), IF n \in 2..8 THEN <<Key(ArrowKeys[b], Modifiers(n))>> ELSE <<>>)
    BY <2>3, ModifiedForm
  <2>5. SequenceKey(s, e)
    BY <2>2, <2>4
  <2>6. Modifiers(n) \in SUBSET {"shift", "alt", "ctrl"}
    BY DEF Modifiers
  <2>7. e \in Seq(RawEvents)
    BY <2>2, <2>6, KeyMeans
  <2> QED BY <2>5, <2>7 DEF SequenceKey, IsSequence
<1>5. CASE UnknownKey(KeySends(s, e))
  <2>1. SequenceKey(s, e) /\ e = <<>>
    BY <1>5, UnknownForm
  <2>2. e \in Seq(RawEvents)
    BY <2>1, EmptySeq
  <2> QED BY <2>1, <2>2 DEF SequenceKey, IsSequence
<1> QED BY <1>2, <1>3, <1>4, <1>5 DEF RawKey

\* Of two ways to cut the same bytes, <<s, t>> is not the later one.
CutFirst(s, t, q, a) == \E p \in Seq(Int) : q = s \o p /\ p \o a = t
CutInside(s, t, q, a) == \E u \in Seq(Int) : u # <<>> /\ s = q \o u /\ u \o t = a

LEMMA CutFurther ==
  ASSUME NEW q \in Seq(Int), NEW a \in Seq(Int), NEW s \in Seq(Int), NEW t \in Seq(Int),
         q \o a = s \o t, Len(s) <= Len(q)
  PROVE  CutFirst(s, t, q, a)
<1> DEFINE p == SubSeq(q, Len(s) + 1, Len(q))
           h == SubSeq(q, 1, Len(s))
<1>1. Len(q) \in Nat /\ Len(s) \in Nat
  BY LenProperties
<1>2. h \o p = SubSeq(q, 1, Len(q))
  <2>1. 1 \in 1 .. Len(q) + 1 /\ Len(s) \in 1 - 1 .. Len(q) /\ Len(q) \in Len(s) .. Len(q)
    BY <1>1
  <2> QED BY <2>1, ConcatAdjacentSubSeq
<1>3. SubSeq(q, 1, Len(q)) = q
  BY SubSeqFull
<1>4. \A i \in 1..Len(q) : q[i] \in Int
  BY ElementOfSeq
<1>5. p \in Seq(Int)
  <2>1. ASSUME NEW i \in Len(s) + 1 .. Len(q) PROVE q[i] \in Int
    <3>1. i \in 1..Len(q)
      BY <1>1
    <3> QED BY <1>4, <3>1
  <2> QED BY <1>1, <2>1, SubSeqProperties
<1>6. h \in Seq(Int) /\ Len(h) = Len(s) /\ \A i \in 1..Len(s) : h[i] = q[i]
  <2>1. ASSUME NEW i \in 1..Len(s) PROVE q[i] \in Int
    <3>1. i \in 1..Len(q)
      BY <1>1
    <3> QED BY <1>4, <3>1
  <2>2. /\ h \in Seq(Int) /\ Len(h) = IF 1 <= Len(s) THEN Len(s) - 1 + 1 ELSE 0
        /\ \A i \in 1 .. Len(s) - 1 + 1 : h[i] = q[1 + i - 1]
    BY <1>1, <2>1, SubSeqProperties
  <2> HIDE DEF h
  <2>3. Len(h) = Len(s)
    BY <1>1, <2>2
  <2>4. ASSUME NEW i \in 1..Len(s) PROVE h[i] = q[i]
    <3>1. i \in 1 .. Len(s) - 1 + 1 /\ 1 + i - 1 = i
      BY <1>1
    <3> QED BY <2>2, <3>1
  <2> QED BY <2>2, <2>3, <2>4
<1> HIDE DEF h, p
<1>7. h = s
  <2>1. ASSUME NEW i \in 1..Len(s) PROVE h[i] = s[i]
    <3>1. i \in 1..Len(q)
      BY <1>1
    <3>2. (q \o a)[i] = q[i]
      BY <3>1, SpliceParts
    <3>3. (s \o t)[i] = s[i]
      BY SpliceParts
    <3> QED BY <1>6, <3>2, <3>3
  <2> QED BY <1>6, <2>1, SameNumbers
<1>8. q = s \o p
  BY <1>2, <1>3, <1>7
<1>9. s \o (p \o a) = s \o t
  <2>1. Regroups(s, p, a)
    BY <1>5, Regrouped
  <2> QED BY <1>8, <2>1 DEF Regroups
<1>10. p \o a \in Seq(Int)
  BY <1>5, ConcatProperties
<1>11. p \o a = t
  <2>1. \A x, y, v \in Seq(Int) : x \o y = x \o v => y = v
    BY ConcatSimplifications, Zenon
  <2> QED BY <1>9, <1>10, <2>1
<1> QED BY <1>5, <1>8, <1>11 DEF CutFirst

\* What has been received ends behind the first step or in the middle of it.
LEMMA FirstCut ==
  ASSUME NEW q \in Seq(Int), NEW a \in Seq(Int), NEW s \in Seq(Int), NEW t \in Seq(Int),
         q \o a = s \o t
  PROVE  CutFirst(s, t, q, a) \/ CutInside(s, t, q, a)
<1>1. Len(q) \in Nat /\ Len(s) \in Nat
  BY LenProperties
<1>2. CASE Len(s) <= Len(q)
  BY <1>2, CutFurther
<1>3. CASE ~(Len(s) <= Len(q))
  <2>1. Len(q) <= Len(s)
    BY <1>1, <1>3
  <2>2. PICK u \in Seq(Int) : s = q \o u /\ u \o t = a
    <3>1. CutFirst(q, a, s, t)
      BY <2>1, CutFurther
    <3> QED BY <3>1 DEF CutFirst
  <2>3. u # <<>>
    <3>1. u = <<>> => s = q
      BY <2>2, ConcatEmptySeq
    <3> DEFINE k == Len(s)
               n == Len(q)
    <3>2. k \in Nat /\ ~(k <= n) /\ (u = <<>> => k = n)
      BY <1>1, <1>3, <3>1
    <3> HIDE DEF k, n
    <3> QED BY <3>2
  <2> QED BY <2>2, <2>3 DEF CutInside
<1> QED BY <1>2, <1>3

StepForm(s, e, a, b, bytes) ==
  \/ a = b /\ \E c \in bytes : s = <<c>> /\ e = <<ByteKey(c)>>
  \/ a = b /\ SequenceKey(s, e)
  \/ \E r \in Reports : /\ b \in Nat /\ s = RawReport(r[1], b, r[2])
                        /\ e = <<PointerMeans(r, b, a)>>

\* How a step of the raw terminal begins, and what it is.
LEMMA RawStepForms ==
  ASSUME NEW bytes \in SUBSET (0..255), NEW s, NEW e, NEW a, NEW b,
         <<s, e, a, b>> \in RawSteps(bytes)
  PROVE  /\ s \in Seq(Int) /\ s # <<>> /\ (s[1] = Esc \/ s[1] \in bytes)
         /\ a \in Int /\ b \in Int
         /\ StepForm(s, e, a, b, bytes)
<1> DEFINE m == <<s, e, a, b>>
<1>1. m[1] = s /\ m[2] = e /\ m[3] = a /\ m[4] = b
  OBVIOUS
<1>2. m \in Moves(Int, RawEvents, Int) /\ (KeyStep(m, bytes) \/ ReportStep(m))
  BY DEF RawSteps
<1>3. s \in Seq(Int) /\ a \in Int /\ b \in Int
  BY <1>2, MoveParts
<1>4. CASE KeyStep(m, bytes)
  <2>1. a = b /\ RawKey(KeySends(s, e), bytes)
    BY <1>1, <1>4 DEF KeyStep
  <2>2. (\E c \in bytes : s = <<c>> /\ e = <<ByteKey(c)>>) \/ SequenceKey(s, e)
    BY <2>1, KeyForms
  <2>3. CASE \E c \in bytes : s = <<c>> /\ e = <<ByteKey(c)>>
    <3>1. PICK c \in bytes : s = <<c>> /\ e = <<ByteKey(c)>>
      BY <2>3
    <3>2. s # <<>> /\ s[1] = c
      BY <3>1
    <3> QED BY <1>3, <2>1, <3>1, <3>2 DEF StepForm
  <2>4. CASE SequenceKey(s, e)
    <3>1. s[1] = Esc /\ Len(s) >= 3
      BY <2>4 DEF SequenceKey, IsSequence
    <3>2. s # <<>>
      BY <3>1, EmptySeq
    <3> QED BY <1>3, <2>1, <2>4, <3>1, <3>2 DEF StepForm
  <2> QED BY <2>2, <2>3, <2>4
<1>5. CASE ReportStep(m)
  <2>1. PICK r \in Reports, col \in Nat :
          m = <<RawReport(r[1], col, r[2]), <<PointerMeans(r, col, m[3])>>, m[3], col>>
    BY <1>5 DEF ReportStep
  <2>2. s = RawReport(r[1], col, r[2]) /\ e = <<PointerMeans(r, col, a)>> /\ b = col
    BY <1>1, <2>1
  <2>3. r[1] \in Nat /\ r[2] \in {Press, Release}
    BY ReportFlags
  <2>4. s[1] = Esc /\ Len(s) = 9
    BY <2>2, <2>3, ReportBytes
  <2>5. s # <<>>
    <3>1. Len(s) # 0
      BY <2>4
    <3> QED BY <1>3, <3>1, EmptySeq, Zenon
  <2> QED BY <1>3, <2>2, <2>4, <2>5 DEF StepForm
<1> QED BY <1>2, <1>4, <1>5

\* A whole step is decoded to what it means.
StepDone(d, e, p, b) ==
  \E ev : e = Meant(ev) /\ Decode(d) = [event |-> ev, dec |-> [pending |-> p, last |-> b]]

LEMMA StepDecoded ==
  ASSUME NEW bytes \in SUBSET (0..255), NEW s, NEW e, NEW a, NEW b,
         <<s, e, a, b>> \in RawSteps(bytes),
         NEW d \in Decoders, NEW p \in Seq(Int), d.pending = s \o p, d.last = a,
         s = <<Esc>> => p = <<>> \/ p[1] # Bracket
  PROVE  StepDone(d, e, p, b)
<1>1. s \in Seq(Int) /\ a \in Int /\ b \in Int /\ StepForm(s, e, a, b, bytes)
  BY RawStepForms
<1>2. CASE a = b /\ \E c \in bytes : s = <<c>> /\ e = <<ByteKey(c)>>
  <2>1. PICK c \in bytes : s = <<c>> /\ e = <<ByteKey(c)>>
    BY <1>2
  <2>2. c \in Int
    OBVIOUS
  <2>3. d.pending = <<c>> \o p /\ (c = Esc => p = <<>> \/ p[1] # Bracket)
    BY <2>1
  <2>4. Decode(d) = [event |-> ByteKey(c), dec |-> [pending |-> p, last |-> d.last]]
    BY <2>2, <2>3, WholeByte
  <2>5. Meant(ByteKey(c)) = <<ByteKey(c)>>
    BY DEF Meant, ByteKey, Char, NoEvent
  <2> QED BY <1>2, <2>1, <2>4, <2>5 DEF StepDone
<1>3. CASE a = b /\ SequenceKey(s, e)
  <2> DEFINE ev == SequenceMeans(SubSeq(s, 3, Len(s) - 1), s[Len(s)])
  <2>1. IsSequence(s) /\ e = Meant(ev)
    BY <1>3 DEF SequenceKey
  <2>2. Decode(d) = [event |-> ev, dec |-> [pending |-> p, last |-> d.last]]
    BY <2>1, WholeSequence
  <2> HIDE DEF ev
  <2> QED BY <1>3, <2>1, <2>2 DEF StepDone
<1>4. CASE \E r \in Reports : /\ b \in Nat /\ s = RawReport(r[1], b, r[2])
                              /\ e = <<PointerMeans(r, b, a)>>
  <2>1. PICK r \in Reports : /\ b \in Nat /\ s = RawReport(r[1], b, r[2])
                             /\ e = <<PointerMeans(r, b, a)>>
    BY <1>4
  <2>2. d.pending = RawReport(r[1], b, r[2]) \o p
    BY <2>1
  <2>3. ReportDecoded(d, r, b, p)
    BY <2>1, <2>2, WholeReport
  <2>4. Decode(d) = [event |-> PointerMeans(r, b, a), dec |-> [pending |-> p, last |-> b]]
    BY <2>3 DEF ReportDecoded
  <2>5. Meant(PointerMeans(r, b, a)) = <<PointerMeans(r, b, a)>>
    BY DEF Meant, PointerMeans, Pointer, NoEvent
  <2> QED BY <2>1, <2>4, <2>5 DEF StepDone
<1> QED BY <1>1, <1>2, <1>3, <1>4 DEF StepForm

\* Part of a step is waited for.
LEMMA StepWaits ==
  ASSUME NEW bytes \in SUBSET (0..255), NEW s, NEW e, NEW a, NEW b,
         <<s, e, a, b>> \in RawSteps(bytes),
         NEW d \in Decoders, NEW u \in Seq(Int), u # <<>>, s = d.pending \o u, d.pending # <<>>
  PROVE  Waits(d, u)
<1>1. StepForm(s, e, a, b, bytes)
  BY RawStepForms
<1>2. s \in Seq(Int)
  BY RawStepForms
<1>3. CASE \E c \in bytes : s = <<c>> /\ e = <<ByteKey(c)>>
  <2>1. Len(s) = 1
    BY <1>3
  <2> DEFINE q == d.pending
             n == Len(q)
             k == Len(s)
  <2>2. n \in Nat /\ n < k
    BY <1>2, PartBytes
  <2>3. n # 0
    BY <1>2, PartBytes, EmptySeq
  <2>4. k = 1
    BY <2>1
  <2> HIDE DEF n, k
  <2>5. FALSE
    BY <2>2, <2>3, <2>4
  <2> QED BY <2>5
<1>4. CASE SequenceKey(s, e)
  BY <1>4, PartSequence DEF SequenceKey
<1>5. CASE \E r \in Reports : /\ b \in Nat /\ s = RawReport(r[1], b, r[2])
                              /\ e = <<PointerMeans(r, b, a)>>
  <2>1. PICK r \in Reports : b \in Nat /\ s = RawReport(r[1], b, r[2])
    BY <1>5
  <2>2. r[1] \in Nat /\ r[2] \in {Press, Release}
    BY ReportFlags
  <2>3. RawReport(r[1], b, r[2]) = d.pending \o u
    BY <2>1
  <2> QED BY <2>1, <2>2, <2>3, PartReport
<1> QED BY <1>1, <1>3, <1>4, <1>5 DEF StepForm

-----------------------------------------------------------------------------
(***************************************************************************)
(* What the decoder leaves of what it had, whatever that was.              *)
(***************************************************************************)
LEMMA PartOf ==
  ASSUME NEW s \in Seq(Int), NEW m \in Nat, NEW n \in Int, m >= 1, n <= Len(s)
  PROVE  SubSeq(s, m, n) \in Seq(Int)
<1>1. ASSUME NEW i \in m..n PROVE s[i] \in Int
  <2>1. i \in 1..Len(s)
    BY LenProperties
  <2> QED BY <2>1, ElementOfSeq
<1> QED BY <1>1, SubSeqProperties

LEMMA NumbersType ==
  ASSUME NEW s \in Seq(Int)
  PROVE  Numbers(s) \in Seq(Int)
<1>1. CASE Numbers(s) = <<>>
  BY <1>1, EmptySeq
<1>2. CASE Numbers(s) # <<>>
  <2> DEFINE k == (Len(s) + 1) \div 2
  <2>1. Numbers(s) = [i \in 1..k |-> s[2 * i - 1] - Num(0)] /\ Len(s) % 2 = 1
    BY <1>2 DEF Numbers
  <2>2. Len(s) \in Nat /\ k \in Nat
    BY LenProperties
  <2>3. ASSUME NEW i \in 1..k PROVE s[2 * i - 1] - Num(0) \in Int
    <3>1. 2 * i - 1 \in 1..Len(s)
      BY <2>2
    <3>2. s[2 * i - 1] \in Int
      BY <3>1, ElementOfSeq
    <3> QED BY <3>2 DEF Num
  <2> HIDE DEF k
  <2>4. [i \in 1..k |-> s[2 * i - 1] - Num(0)] \in Seq(Int)
    BY <2>2, <2>3, IsASeq
  <2> QED BY <2>1, <2>4
<1> QED BY <1>1, <1>2

LEMMA MouseType ==
  ASSUME NEW d \in Decoders
  PROVE  DecodeMouse(d).dec \in Decoders
<1> DEFINE q    == d.pending
           end  == First(q, {Press, Release})
           nums == Numbers(SubSeq(q, 4, end - 1))
           col  == IF nums[2] > 0 THEN nums[2] - 1 ELSE 0
           ev   == Pointer(MouseFlags(nums[1], q[end] = Release)
                              \cup (IF col # d.last THEN {"moved"} ELSE {}), col)
<1>1. q \in Seq(Int) /\ Len(q) \in Nat
  BY LenProperties DEF Decoders
<1>2. end \in 0..Len(q)
  BY <1>1, FirstFound
<1>3. end \in Nat /\ end - 1 \in Int /\ end - 1 <= Len(q)
  <2> DEFINE n == Len(q)
  <2> HIDE DEF end, n
  <2>1. n \in Nat /\ end \in 0..n
    BY <1>1, <1>2 DEF n
  <2> QED BY <2>1 DEF n
<1>4. SubSeq(q, 4, end - 1) \in Seq(Int)
  <2> HIDE DEF end, q
  <2>1. 4 \in Nat /\ 4 >= 1
    OBVIOUS
  <2> QED BY <1>1, <1>3, <2>1, PartOf
<1>5. nums \in Seq(Int)
  BY <1>4, NumbersType
<1>6. \A n \in Nat : Consume(d, n) \in Decoders
  BY ConsumeType
<1>7. Consume(d, end) \in Decoders /\ Consume(d, 1) \in Decoders
  BY <1>3, <1>6
<1>8. CASE ~StartsMouse(d) \/ Len(q) < 6
  BY <1>8 DEF DecodeMouse, Incomplete
<1>9. CASE ~(~StartsMouse(d) \/ Len(q) < 6) /\ end = 0
  BY <1>7, <1>9 DEF DecodeMouse, Incomplete, Reject
<1>10. CASE ~(~StartsMouse(d) \/ Len(q) < 6) /\ end # 0 /\ Len(nums) # 3
  BY <1>7, <1>10 DEF DecodeMouse, Reject
<1>11. CASE ~(~StartsMouse(d) \/ Len(q) < 6) /\ end # 0 /\ Len(nums) = 3
  <2>1. col \in Int
    <3> HIDE DEF nums
    <3>1. 2 \in 1..Len(nums)
      BY <1>11
    <3>2. nums[2] \in Int
      BY <1>5, <3>1, ElementOfSeq
    <3> QED BY <3>2
  <2>2. DecodeMouse(d) = [event |-> ev, dec |-> [Consume(d, end) EXCEPT !.last = col]]
    <3>1. ~(~StartsMouse(d) \/ Len(d.pending) < 6)
      BY <1>11
    <3> QED BY <1>11, <3>1 DEF DecodeMouse
  <2> HIDE DEF col, end, ev
  <2>3. [Consume(d, end) EXCEPT !.last = col] \in Decoders
    BY <1>7, <2>1 DEF Decoders
  <2> QED BY <2>2, <2>3
<1> QED BY <1>8, <1>9, <1>10, <1>11

LEMMA SequenceType ==
  ASSUME NEW d \in Decoders
  PROVE  DecodeCsiKey(d).dec \in Decoders
<1> DEFINE q   == d.pending
           u   == SubSeq(q, 3, Len(q))
           end == First(u, Finals) + 2
<1>1. q \in Seq(Int) /\ Len(q) \in Nat
  BY LenProperties DEF Decoders
<1>2. u \in Seq(Int)
  <2> HIDE DEF q
  <2>1. 3 \in Nat /\ 3 >= 1 /\ Len(q) \in Int /\ Len(q) <= Len(q)
    BY <1>1
  <2> QED BY <1>1, <2>1, PartOf
<1>3. end \in Nat
  <2> HIDE DEF u
  <2>1. First(u, Finals) \in 0..Len(u) /\ Len(u) \in Nat
    BY <1>2, FirstFound, LenProperties
  <2> QED BY <2>1
<1>4. DecodeCsiKey(d) = SequenceUpTo(d, end)
  BY SequenceEnds
<1> HIDE DEF end
<1>5. \A n \in Nat : Consume(d, n) \in Decoders
  BY ConsumeType
<1>6. Consume(d, end) \in Decoders /\ Consume(d, Capacity) \in Decoders
  BY <1>3, <1>5, CapacityAssumption
<1>7. SequenceUpTo(d, end).dec \in Decoders
  BY <1>6 DEF SequenceUpTo, Reject, Incomplete
<1> QED BY <1>4, <1>7

LEMMA DecodeType ==
  ASSUME NEW d \in Decoders
  PROVE  Decode(d).dec \in Decoders
<1> DEFINE mouse == DecodeMouse(d)
           rest  == mouse.dec
<1>1. rest \in Decoders
  BY MouseType
<1>2. DecodeCsiKey(rest).dec \in Decoders
  BY <1>1, SequenceType
<1>3. Consume(rest, 1) \in Decoders
  BY <1>1, ConsumeType
<1>4. Decode(d) = IF mouse.event # NoEvent \/ rest.pending = <<>> \/ StartsMouse(rest) THEN mouse
                  ELSE IF Starts(rest.pending, <<Esc, Bracket>>) THEN DecodeCsiKey(rest)
                  ELSE [event |-> ByteKey(Head(rest.pending)), dec |-> Consume(rest, 1)]
  BY DEF Decode
<1> HIDE DEF mouse
<1>5. CASE mouse.event # NoEvent \/ rest.pending = <<>> \/ StartsMouse(rest)
  BY <1>1, <1>4, <1>5
<1>6. CASE ~(mouse.event # NoEvent \/ rest.pending = <<>> \/ StartsMouse(rest))
  BY <1>2, <1>3, <1>4, <1>6
<1> QED BY <1>5, <1>6

\* Bytes that fit are added.
LEMMA AppendType ==
  ASSUME NEW d \in Decoders, NEW s \in Seq(Int)
  PROVE  /\ AppendBytes(d, s) \in Decoders
         /\ ~(Len(d.pending) + Len(s) > Capacity) =>
              AppendBytes(d, s) = [pending |-> d.pending \o s, last |-> d.last]
<1> DEFINE q     == d.pending
           space == Capacity - Len(q)
           n     == IF Len(s) > space THEN space ELSE Len(s)
           p     == SubSeq(s, 1, n)
<1>1. q \in Seq(Int) /\ Len(q) \in Nat /\ Len(s) \in Nat
  BY LenProperties DEF Decoders
<1>2. n \in Int /\ n <= Len(s) /\ (~(Len(q) + Len(s) > Capacity) => n = Len(s))
  <2> DEFINE k == Len(q)
             j == Len(s)
  <2>1. k \in Nat /\ j \in Nat
    BY <1>1
  <2> HIDE DEF k, j
  <2>2. LET m == IF j > Capacity - k THEN Capacity - k ELSE j
        IN  m \in Int /\ m <= j /\ (~(k + j > Capacity) => m = j)
    BY <2>1, CapacityAssumption
  <2> QED BY <2>2 DEF k, j
<1>3. AppendBytes(d, s) = [d EXCEPT !.pending = q \o p]
  BY DEF AppendBytes
<1>4. p \in Seq(Int)
  <2> HIDE DEF n
  <2>1. 1 \in Nat /\ 1 >= 1
    OBVIOUS
  <2> QED BY <1>2, <2>1, PartOf
<1>5. ~(Len(q) + Len(s) > Capacity) => p = s
  <2> HIDE DEF n
  <2> QED BY <1>2, SubSeqFull
<1> HIDE DEF p
<1>6. q \o p \in Seq(Int)
  BY <1>1, <1>4, ConcatProperties
<1>7. [d EXCEPT !.pending = q \o p] = [pending |-> q \o p, last |-> d.last]
  <2> DEFINE v == q \o p
  <2> HIDE DEF v, q
  <2>1. [d EXCEPT !.pending = v] = [pending |-> v, last |-> d.last]
    BY DEF Decoders
  <2> QED BY <2>1 DEF v
<1>8. d.last \in Int
  BY DEF Decoders
<1>9. [pending |-> q \o p, last |-> d.last] \in Decoders
  BY <1>6, <1>8 DEF Decoders
<1> QED BY <1>3, <1>5, <1>7, <1>9

-----------------------------------------------------------------------------
(***************************************************************************)
(* What the decoder has and what is still to be read, w, are a stream of   *)
(* keys and reports, and decoding keeps that so.                           *)
(***************************************************************************)
Flows(bytes, d, w, evs, z) ==
  <<d.pending \o w, evs, d.last, z>> \in Streams(RawSteps(bytes), Int, RawEvents, Int)

\* The event of one call and what is left.
Decoded(bytes, r, w, evs, z) ==
  \/ r.event = NoEvent /\ Flows(bytes, r.dec, w, evs, z)
  \/ SplitEscape(r.event, r.dec, w)
  \/ /\ evs # <<>> /\ r.event = Head(evs)
     /\ Flows(bytes, r.dec, w, Tail(evs), z)

LEMMA StepsMove ==
  ASSUME NEW bytes
  PROVE  RawSteps(bytes) \in SUBSET Moves(Int, RawEvents, Int)
BY DEF RawSteps

\* A first event and the others.
LEMMA ConsParts ==
  ASSUME NEW S, NEW x \in S, NEW f \in Seq(S)
  PROVE  <<x>> \o f # <<>> /\ Head(<<x>> \o f) = x /\ Tail(<<x>> \o f) = f
OBVIOUS

\* What a part of it begins with.
LEMMA HeadOfWhole ==
  ASSUME NEW s \in Seq(Int), NEW t \in Seq(Int), s # <<>>
  PROVE  s \o t # <<>> /\ (s \o t)[1] = s[1]
<1>1. 1 \in 1..Len(s)
  BY LenProperties, EmptySeq
<1>2. (s \o t)[1] = s[1]
  BY <1>1, SpliceParts
<1>3. s \o t # <<>>
  BY ConcatSimplifications
<1> QED BY <1>2, <1>3

LEMMA StreamBegins ==
  ASSUME NEW bytes \in SUBSET (0..255), NEW t, NEW f, NEW b, NEW z,
         <<t, f, b, z>> \in Streams(RawSteps(bytes), Int, RawEvents, Int), t # <<>>
  PROVE  t[1] = Esc \/ t[1] \in bytes
<1> DEFINE Steps == RawSteps(bytes)
           P == Streams(Steps, Int, RawEvents, Int)
<1>1. Steps \in SUBSET Moves(Int, RawEvents, Int)
  BY StepsMove
<1>2. <<t, f, b, z>> \in P
  OBVIOUS
<1>3. P \subseteq Moves(Int, RawEvents, Int)
  BY <1>1, StreamsClosed
<1>4. Begins(t, f, b, z, Steps, P)
  BY <1>1, StreamFirst
<1> HIDE DEF P, Steps
<1>5. PICK s1, e1, c, t1, f1 : <<s1, e1, b, c>> \in Steps /\ <<t1, f1, c, z>> \in P /\ t = s1 \o t1
  BY <1>4 DEF Begins
<1>6. s1 \in Seq(Int) /\ s1 # <<>> /\ (s1[1] = Esc \/ s1[1] \in bytes)
  BY <1>5, RawStepForms DEF Steps
<1>7. t1 \in Seq(Int)
  <2>1. <<t1, f1, c, z>> \in Moves(Int, RawEvents, Int)
    BY <1>3, <1>5
  <2> QED BY <2>1, MoveParts
<1>8. t[1] = s1[1]
  BY <1>5, <1>6, <1>7, HeadOfWhole
<1> QED BY <1>6, <1>8

LEMMA DecodeFlows ==
  ASSUME NEW other \in {Esc, Bracket}, NEW bytes, bytes = 0..255 \ {other},
         NEW d \in Decoders, NEW w \in Seq(Int), NEW evs, NEW z,
         Flows(bytes, d, w, evs, z)
  PROVE  Decoded(bytes, Decode(d), w, evs, z)
<1> DEFINE Steps == RawSteps(bytes)
           P == Streams(Steps, Int, RawEvents, Int)
           q == d.pending
<1>1. Steps \in SUBSET Moves(Int, RawEvents, Int)
  BY StepsMove
<1>2. <<q \o w, evs, d.last, z>> \in P
  BY DEF Flows
<1>3. P \subseteq Moves(Int, RawEvents, Int)
  BY <1>1, StreamsClosed
<1>4. Begins(q \o w, evs, d.last, z, Steps, P)
  <2> DEFINE s == q \o w
             a == d.last
  <2>1. <<s, evs, a, z>> \in Streams(Steps, Int, RawEvents, Int)
    BY <1>2
  <2> HIDE DEF s, a, Steps
  <2>2. Begins(s, evs, a, z, Steps, Streams(Steps, Int, RawEvents, Int))
    BY <1>1, <2>1, StreamFirst
  <2> QED BY <2>2 DEF s, a
<1>5. q \in Seq(Int) /\ bytes \in SUBSET (0..255)
  BY DEF Decoders
<1> HIDE DEF P, Steps
<1>6. CASE q = <<>>
  <2>1. ~StartsMouse(d)
    <3>1. Len(d.pending) = 0
      BY <1>6, EmptySeq
    <3> QED BY <3>1, StartsReport
  <2>2. Decode(d) = Incomplete(d)
    BY <1>6, <2>1, DecodeOther
  <2>3. Decode(d).event = NoEvent /\ Decode(d).dec = d
    BY <2>2 DEF Incomplete
  <2> QED BY <2>3 DEF Decoded
<1>7. CASE q # <<>>
  <2>1. q \o w # <<>>
    BY <1>5, <1>7, HeadOfWhole
  <2>2. PICK s1, e1, b, t, f :
           /\ <<s1, e1, d.last, b>> \in Steps /\ <<t, f, b, z>> \in P
           /\ q \o w = s1 \o t /\ evs = e1 \o f
    BY <1>4, <2>1 DEF Begins
  <2>3. t \in Seq(Int) /\ f \in Seq(RawEvents)
    <3>1. <<t, f, b, z>> \in Moves(Int, RawEvents, Int)
      BY <1>3, <2>2
    <3> QED BY <3>1, MoveParts
  <2>4. s1 \in Seq(Int) /\ e1 \in Seq(RawEvents) /\ b \in Int
    <3>1. <<s1, e1, d.last, b>> \in Moves(Int, RawEvents, Int)
      BY <1>1, <2>2
    <3> QED BY <3>1, MoveParts
  <2>5. CutFirst(s1, t, q, w) \/ CutInside(s1, t, q, w)
    BY <1>5, <2>2, <2>3, <2>4, FirstCut
  <2>6. CASE CutFirst(s1, t, q, w)
    <3>1. PICK p \in Seq(Int) : q = s1 \o p /\ p \o w = t
      BY <2>6 DEF CutFirst
    <3>2. s1 = <<Esc>> => p = <<>> \/ p[1] # Bracket
      <4> SUFFICES ASSUME s1 = <<Esc>>, p # <<>> PROVE p[1] # Bracket
        OBVIOUS
      <4>1. s1[1] = Esc /\ Len(s1) = 1
        OBVIOUS
      <4>2. StepForm(s1, e1, d.last, b, bytes)
        BY <1>5, <2>2, RawStepForms DEF Steps
      <4>3. Esc \in bytes
        <5>1. CASE \E c \in bytes : s1 = <<c>> /\ e1 = <<ByteKey(c)>>
          BY <4>1, <5>1
        <5>2. CASE SequenceKey(s1, e1)
          <6>1. Len(s1) >= 3
            BY <5>2 DEF SequenceKey, IsSequence
          <6> QED BY <4>1, <6>1
        <5>3. CASE \E r \in Reports : b \in Nat /\ s1 = RawReport(r[1], b, r[2])
          <6>1. PICK r \in Reports : b \in Nat /\ s1 = RawReport(r[1], b, r[2])
            BY <5>3
          <6>2. Len(s1) = 9
            BY <6>1, ReportLength
          <6> QED BY <4>1, <6>2
        <5> QED BY <4>2, <5>1, <5>2, <5>3 DEF StepForm
      <4>4. Bracket \notin bytes /\ Bracket # Esc
        BY <4>3 DEF Esc, Bracket
      <4>5. t # <<>> /\ t[1] = p[1]
        BY <3>1, HeadOfWhole
      <4>6. t[1] = Esc \/ t[1] \in bytes
        BY <1>5, <2>2, <4>5, StreamBegins DEF P, Steps
      <4> QED BY <4>4, <4>5, <4>6
    <3>3. PICK ev : /\ e1 = Meant(ev)
                    /\ Decode(d) = [event |-> ev, dec |-> [pending |-> p, last |-> b]]
      <4>1. StepDone(d, e1, p, b)
        BY <1>5, <2>2, <3>1, <3>2, StepDecoded DEF Steps
      <4> QED BY <4>1 DEF StepDone
    <3> DEFINE r == Decode(d)
    <3>4. r.event = ev /\ r.dec.pending = p /\ r.dec.last = b
      BY <3>3
    <3> HIDE DEF r
    <3>5. Flows(bytes, r.dec, w, f, z)
      BY <2>2, <3>1, <3>4 DEF Flows, P, Steps
    <3>6. CASE ev = NoEvent
      <4>1. e1 = <<>>
        BY <3>3, <3>6 DEF Meant
      <4>2. evs = f
        BY <2>2, <2>3, <4>1, ConcatEmptySeq
      <4>3. Decoded(bytes, r, w, evs, z)
        BY <3>4, <3>5, <3>6, <4>2 DEF Decoded
      <4> QED BY <4>3 DEF r
    <3>7. CASE ev # NoEvent
      <4>1. e1 = <<ev>>
        BY <3>3, <3>7 DEF Meant
      <4>2. ev \in RawEvents
        <5>1. 1 \in 1..Len(e1) /\ e1[1] = ev
          BY <4>1
        <5> QED BY <2>4, <5>1, ElementOfSeq
      <4>3. evs # <<>> /\ Head(evs) = ev /\ Tail(evs) = f
        BY <2>2, <2>3, <4>1, <4>2, ConsParts
      <4>4. Decoded(bytes, r, w, evs, z)
        BY <3>4, <3>5, <4>3 DEF Decoded
      <4> QED BY <4>4 DEF r
    <3> QED BY <3>6, <3>7
  <2>7. CASE CutInside(s1, t, q, w)
    <3>1. PICK u \in Seq(Int) : u # <<>> /\ s1 = q \o u /\ u \o t = w
      BY <2>7 DEF CutInside
    <3>2. Waits(d, u)
      BY <1>5, <1>7, <2>2, <3>1, StepWaits DEF Steps
    <3>3. w # <<>> /\ w[1] = u[1]
      BY <2>3, <3>1, HeadOfWhole
    <3>4. CASE Decode(d) = Incomplete(d)
      <4>1. Decode(d).event = NoEvent /\ Decode(d).dec = d
        BY <3>4 DEF Incomplete
      <4> QED BY <4>1 DEF Decoded
    <3>5. CASE /\ u[1] = Bracket
               /\ Decode(d) = [event |-> ByteKey(Esc), dec |-> [pending |-> <<>>, last |-> d.last]]
      <4> DEFINE r == Decode(d)
      <4>1. r.event = ByteKey(Esc) /\ r.dec.pending = <<>>
        BY <3>5
      <4>2. Head(w) = Bracket
        BY <3>3, <3>5
      <4> HIDE DEF r
      <4>3. SplitEscape(r.event, r.dec, w)
        BY <3>3, <4>1, <4>2 DEF SplitEscape
      <4> QED BY <4>3 DEF Decoded, r
    <3> QED BY <3>2, <3>4, <3>5 DEF Waits
  <2> QED BY <2>5, <2>6, <2>7
<1> QED BY <1>6, <1>7

-----------------------------------------------------------------------------
(***************************************************************************)
(* Keys typed at once, put together.                                       *)
(***************************************************************************)
\* What is true of 0, and of the next number, is true of N.
LEMMA Stepwise ==
  ASSUME NEW N \in Nat, NEW S, 0 \in S,
         \A n \in 0..N : n < N /\ n \in S => n + 1 \in S
  PROVE  N \in S
<1> DEFINE Rest == {n \in 0..N : n \notin S}
<1> SUFFICES ASSUME N \notin S PROVE FALSE
  OBVIOUS
<1>1. Rest \in SUBSET Nat /\ Rest # {}
  OBVIOUS
<1>2. PICK x \in Rest : \A y \in Rest : x <= y
  <2> HIDE DEF Rest
  <2> QED BY <1>1, LeastExists
<1>3. x \in 0..N /\ x # 0
  BY <1>2
<1>4. x - 1 \in 0..N /\ x - 1 < N /\ x - 1 + 1 = x /\ ~(x <= x - 1)
  BY <1>3
<1>5. x - 1 \in S
  BY <1>2, <1>4
<1>6. x \in S
  BY <1>4, <1>5
<1> QED BY <1>2, <1>6

\* g has the first n of the sequences s, put together.
Joins(g, s, n) ==
  \A i \in 1..n : g[i] = IF i = 1 THEN s[1] ELSE g[i - 1] \o s[i]

JoinsOne(g, s, m) == g[m + 1] = IF m = 0 THEN s[1] ELSE g[m] \o s[m + 1]

LEMMA JoinsNext ==
  ASSUME NEW n \in Nat, NEW g, NEW s, Joins(g, s, n), NEW m \in 0..n, m < n
  PROVE  JoinsOne(g, s, m)
<1> DEFINE k == m + 1
<1>1. k \in 1..n /\ k - 1 = m /\ (k = 1 <=> m = 0)
  OBVIOUS
<1> HIDE DEF k
<1>2. g[k] = IF k = 1 THEN s[1] ELSE g[k - 1] \o s[k]
  BY <1>1 DEF Joins
<1>3. g[k] = IF m = 0 THEN s[1] ELSE g[m] \o s[k]
  BY <1>1, <1>2
<1> QED BY <1>3 DEF k, JoinsOne

LEMMA JoinsExist ==
  ASSUME NEW n \in Nat, NEW V, NEW s \in [1..n -> Seq(V)]
  PROVE  \E g \in [1..n -> Seq(V)] : Joins(g, s, n)
<1> DEFINE S == {m \in 0..n : \E g \in [1..m -> Seq(V)] : Joins(g, s, m)}
<1>1. 0 \in S
  <2>1. 0 \in 0..n /\ [i \in 1..0 |-> <<>>] \in [1..0 -> Seq(V)] /\ Joins([i \in 1..0 |-> <<>>], s, 0)
    BY DEF Joins
  <2> QED BY <2>1
<1>2. ASSUME NEW m \in 0..n, m < n, m \in S PROVE m + 1 \in S
  <2>1. PICK g \in [1..m -> Seq(V)] : Joins(g, s, m)
    BY <1>2
  <2> DEFINE k == m + 1
             last == IF m = 0 THEN s[1] ELSE g[m] \o s[k]
             h == [i \in 1..k |-> IF i = k THEN last ELSE g[i]]
  <2>2. m \in Nat /\ k \in 1..n /\ k \in 0..n /\ 1 \in 1..n
    BY <1>2
  <2>3. last \in Seq(V)
    <3>1. s[1] \in Seq(V) /\ s[k] \in Seq(V)
      BY <2>2
    <3>2. CASE m = 0
      BY <3>1, <3>2
    <3>3. CASE m # 0
      <4>1. m \in 1..m
        BY <2>2, <3>3
      <4>2. g[m] \in Seq(V)
        BY <4>1
      <4> QED BY <3>1, <3>3, <4>2, ConcatProperties
    <3> QED BY <3>2, <3>3
  <2>4. h \in [1..k -> Seq(V)]
    <3> HIDE DEF last
    <3> QED BY <2>2, <2>3
  <2>5. ASSUME NEW i \in 1..k PROVE h[i] = IF i = 1 THEN s[1] ELSE h[i - 1] \o s[i]
    <3>1. CASE i = k
      <4>1. h[i] = last
        BY <3>1
      <4>2. i # 1 => m # 0 /\ i - 1 = m /\ m \in 1..k /\ m # k
        BY <2>2, <3>1
      <4>3. i # 1 => h[i - 1] = g[m]
        BY <4>2
      <4>4. i = 1 => m = 0
        BY <2>2, <3>1
      <4> HIDE DEF h
      <4> QED BY <3>1, <4>1, <4>2, <4>3, <4>4
    <3>2. CASE i # k
      <4>1. i \in 1..m
        BY <2>2, <3>2
      <4>2. h[i] = g[i]
        BY <3>2
      <4>3. i # 1 => i - 1 \in 1..k /\ i - 1 # k
        BY <2>2
      <4>4. i # 1 => h[i - 1] = g[i - 1]
        BY <4>3
      <4>5. g[i] = IF i = 1 THEN s[1] ELSE g[i - 1] \o s[i]
        BY <2>1, <4>1 DEF Joins
      <4> HIDE DEF h
      <4> QED BY <4>2, <4>4, <4>5
    <3> QED BY <3>1, <3>2
  <2>6. Joins(h, s, k)
    <3> HIDE DEF h
    <3> QED BY <2>5 DEF Joins
  <2> HIDE DEF h
  <2> QED BY <2>2, <2>4, <2>6
<1>3. n \in S
  <2> HIDE DEF S
  <2> QED BY <1>1, <1>2, Stepwise
<1> QED BY <1>3

\* What FlattenSeq computes.
LEMMA FlattenJoins ==
  ASSUME NEW n \in Nat \ {0}, NEW V, NEW s \in [1..n -> Seq(V)]
  PROVE  \E g \in [1..n -> Seq(V)] : Joins(g, s, n) /\ FlattenSeq(s) = g[n]
<1>1. Len(s) = n
  BY IsASeq, LenProperties
<1>2. PICK g \in [1..n -> Seq(V)] : Joins(g, s, n)
  BY JoinsExist
<1> DEFINE Flat(f) == f = [i \in 1..n |-> IF i = 1 THEN s[i] ELSE f[i - 1] \o s[i]]
           c == CHOOSE f : Flat(f)
<1>3. Flat(g)
  <2>1. \A i \in 1..n : g[i] = IF i = 1 THEN s[i] ELSE g[i - 1] \o s[i]
    BY <1>2 DEF Joins
  <2> QED BY <2>1
<1>4. Flat(c)
  <2> HIDE DEF Flat
  <2> QED BY <1>3
<1>5. FlattenSeq(s) = c[n]
  BY <1>1 DEF FlattenSeq
<1>6. Joins(c, s, n)
  <2> HIDE DEF c
  <2>1. \A i \in 1..n : c[i] = IF i = 1 THEN s[i] ELSE c[i - 1] \o s[i]
    BY <1>4
  <2> QED BY <2>1 DEF Joins
<1> HIDE DEF Flat, c
<1>7. c[n] = g[n]
  <2> DEFINE T == {m \in 0..n : m = 0 \/ c[m] = g[m]}
  <2>1. 0 \in T
    OBVIOUS
  <2>2. ASSUME NEW m \in 0..n, m < n, m \in T PROVE m + 1 \in T
    <3>1. m + 1 \in 1..n /\ m + 1 \in 0..n /\ m + 1 - 1 = m /\ (m + 1 = 1 <=> m = 0)
      BY <2>2
    <3>2. /\ c[m + 1] = IF m = 0 THEN s[1] ELSE c[m] \o s[m + 1]
          /\ g[m + 1] = IF m = 0 THEN s[1] ELSE g[m] \o s[m + 1]
      <4>1. JoinsOne(c, s, m) /\ JoinsOne(g, s, m)
        BY <1>2, <1>6, <2>2, JoinsNext
      <4> QED BY <4>1 DEF JoinsOne
    <3>3. m = 0 \/ c[m] = g[m]
      BY <2>2
    <3> QED BY <3>1, <3>2, <3>3
  <2>3. n \in T
    <3> HIDE DEF T
    <3> QED BY <2>1, <2>2, Stepwise
  <2> QED BY <2>3
<1> QED BY <1>2, <1>5, <1>7

\* Keys that each leave the receiver as it was are a stream.
LEMMA KeysStream ==
  ASSUME NEW Sy, NEW Ev, NEW St, NEW Steps \in SUBSET Moves(Sy, Ev, St), NEW a \in St,
         NEW n \in Nat, NEW s, NEW e, s = [i \in 1..n |-> s[i]], e = [i \in 1..n |-> e[i]],
         \A i \in 1..n : <<s[i], e[i], a, a>> \in Steps
  PROVE  <<FlattenSeq(s), FlattenSeq(e), a, a>> \in Streams(Steps, Sy, Ev, St)
<1> DEFINE P == Streams(Steps, Sy, Ev, St)
<1>1. Steps \subseteq P /\ <<<<>>, <<>>, a, a>> \in P
  BY StepStreams
<1>2. ASSUME NEW i \in 1..n PROVE s[i] \in Seq(Sy) /\ e[i] \in Seq(Ev)
  <2>1. <<s[i], e[i], a, a>> \in Moves(Sy, Ev, St)
    OBVIOUS
  <2> QED BY <2>1, MoveParts
<1>3. s \in [1..n -> Seq(Sy)] /\ e \in [1..n -> Seq(Ev)]
  BY <1>2
<1>4. CASE n = 0
  <2>1. s = <<>> /\ e = <<>>
    BY <1>4
  <2>2. FlattenSeq(<<>>) = <<>>
    BY DEF FlattenSeq
  <2> QED BY <1>1, <2>1, <2>2
<1>5. CASE n # 0
  <2>1. PICK g \in [1..n -> Seq(Sy)] : Joins(g, s, n) /\ FlattenSeq(s) = g[n]
    BY <1>3, <1>5, FlattenJoins
  <2>2. PICK h \in [1..n -> Seq(Ev)] : Joins(h, e, n) /\ FlattenSeq(e) = h[n]
    BY <1>3, <1>5, FlattenJoins
  <2> DEFINE T == {m \in 0..n : m = 0 \/ <<g[m], h[m], a, a>> \in P}
  <2>3. 0 \in T
    OBVIOUS
  <2>4. ASSUME NEW m \in 0..n, m < n, m \in T PROVE m + 1 \in T
    <3>1. m + 1 \in 1..n /\ m + 1 \in 0..n /\ m + 1 - 1 = m /\ (m + 1 = 1 <=> m = 0)
      BY <2>4
    <3>2. /\ g[m + 1] = IF m = 0 THEN s[1] ELSE g[m] \o s[m + 1]
          /\ h[m + 1] = IF m = 0 THEN e[1] ELSE h[m] \o e[m + 1]
      <4>1. JoinsOne(g, s, m) /\ JoinsOne(h, e, m)
        BY <2>1, <2>2, <2>4, JoinsNext
      <4> QED BY <4>1 DEF JoinsOne
    <3>3. <<s[m + 1], e[m + 1], a, a>> \in P
      BY <1>1, <3>1
    <3>4. CASE m = 0
      <4>1. <<g[m + 1], h[m + 1], a, a>> \in P
        BY <3>2, <3>3, <3>4
      <4> QED BY <3>1, <4>1
    <3>5. CASE m # 0
      <4>1. <<g[m], h[m], a, a>> \in P
        BY <2>4, <3>5
      <4> DEFINE gm == g[m]
                 hm == h[m]
                 sm == s[m + 1]
                 em == e[m + 1]
      <4>2. <<gm, hm, a, a>> \in P /\ <<sm, em, a, a>> \in P
        BY <3>3, <4>1
      <4> HIDE DEF gm, hm, sm, em
      <4>3. <<gm \o sm, hm \o em, a, a>> \in P
        BY <4>2, StreamsJoin
      <4>4. <<g[m + 1], h[m + 1], a, a>> \in P
        BY <3>2, <3>5, <4>3 DEF gm, hm, sm, em
      <4> QED BY <3>1, <4>4
    <3> QED BY <3>4, <3>5
  <2>5. n \in T
    <3> HIDE DEF T, P
    <3> QED BY <2>3, <2>4, Stepwise
  <2>6. <<g[n], h[n], a, a>> \in P
    BY <1>5, <2>5
  <2> QED BY <2>1, <2>2, <2>6
<1> QED BY <1>4, <1>5

-----------------------------------------------------------------------------
(***************************************************************************)
(* The raw backend.  Unless something was cut, what has been received and  *)
(* what is on the wire mean what is expected, and lead to the place where  *)
(* the pointer was seen last.                                              *)
(***************************************************************************)
Unused(f) ==
  CHOOSE other \in {Esc, Bracket} :
    \A keys \in Inputs[<<"raw", f>>] :
      /\ Len(keys) \in Nat /\ DOMAIN keys = 1 .. Len(keys)
      /\ \A i \in DOMAIN keys : RawKey(keys[i], 0 .. 255 \ {other})

Typed(f) == 0..255 \ {Unused(f)}

RawStreams(f) == Streams(RawSteps(Typed(f)), Int, RawEvents, Int)

\* The place where the pointer was seen, all that a raw terminal depends on.
Sees(h) == "seen" \in DOMAIN h /\ h.seen \in Int

RawInv ==
  /\ dec \in Decoders /\ wire \in Seq(Int) /\ expected \in Seq(RawEvents)
  /\ Sees(hand) /\ cut \in BOOLEAN
  /\ IF cut THEN expected = <<>> ELSE Flows(Typed(Able), dec, wire, expected, hand.seen)

LEMMA UnusedFound ==
  ASSUME NEW f \in Features
  PROVE  /\ Unused(f) \in {Esc, Bracket} /\ Typed(f) \in SUBSET (0..255)
         /\ \A keys \in Inputs[<<"raw", f>>] :
              /\ Len(keys) \in Nat /\ DOMAIN keys = 1 .. Len(keys)
              /\ \A i \in DOMAIN keys : RawKey(keys[i], Typed(f))
<1> DEFINE Free(other) ==
             \A keys \in Inputs[<<"raw", f>>] :
               /\ Len(keys) \in Nat /\ DOMAIN keys = 1 .. Len(keys)
               /\ \A i \in DOMAIN keys : RawKey(keys[i], 0 .. 255 \ {other})
           c == CHOOSE other \in {Esc, Bracket} : Free(other)
<1>1. \E other \in {Esc, Bracket} : Free(other)
  BY KeyAssumption
<1>2. c \in {Esc, Bracket} /\ Free(c)
  <2> HIDE DEF Free
  <2> QED BY <1>1
<1>3. Unused(f) = c
  BY DEF Unused
<1> HIDE DEF c
<1>4. Typed(f) = 0..255 \ {c}
  BY <1>3 DEF Typed
<1>5. Typed(f) \in SUBSET (0..255)
  BY <1>4
<1>6. ASSUME NEW keys \in Inputs[<<"raw", f>>]
      PROVE  /\ Len(keys) \in Nat /\ DOMAIN keys = 1 .. Len(keys)
             /\ \A i \in DOMAIN keys : RawKey(keys[i], Typed(f))
  <2>1. /\ Len(keys) \in Nat /\ DOMAIN keys = 1 .. Len(keys)
        /\ \A i \in DOMAIN keys : RawKey(keys[i], 0 .. 255 \ {c})
    BY <1>2
  <2> QED BY <1>4, <2>1
<1> HIDE DEF Free
<1> QED BY <1>2, <1>3, <1>5, <1>6

\* A key is what it sends and means.
LEMMA KeyFields ==
  ASSUME NEW k, NEW bytes, RawKey(k, bytes)
  PROVE  RawKey(KeySends(k.sends, k.means), bytes)
<1>1. CASE k \in ByteKeys(bytes) \cup RawArrows \cup ModifiedArrows
  <2>1. k = KeySends(k.sends, k.means)
    BY <1>1 DEF ByteKeys, RawArrows, ModifiedArrows, KeySends
  <2> QED BY <2>1
<1>2. CASE UnknownKey(k)
  <2> DEFINE u == KeySends(k.sends, k.means)
  <2>1. u.sends = k.sends /\ u.means = k.means
    BY DEF KeySends
  <2> HIDE DEF u
  <2>2. UnknownKey(u)
    BY <1>2, <2>1 DEF UnknownKey
  <2> QED BY <2>2 DEF RawKey, u
<1> QED BY <1>1, <1>2 DEF RawKey

\* Keys typed at once.
LEMMA RawTyped ==
  ASSUME NEW f \in Features, NEW keys \in Inputs[<<"raw", f>>], NEW a \in Int
  PROVE  <<FlattenSeq([i \in DOMAIN keys |-> keys[i].sends]),
           FlattenSeq([i \in DOMAIN keys |-> keys[i].means]), a, a>> \in RawStreams(f)
<1> DEFINE n == Len(keys)
           s == [i \in 1..n |-> keys[i].sends]
           e == [i \in 1..n |-> keys[i].means]
           Steps == RawSteps(Typed(f))
<1>1. n \in Nat /\ DOMAIN keys = 1..n /\ \A i \in 1..n : RawKey(keys[i], Typed(f))
  BY UnusedFound
<1> HIDE DEF n
<1>2. ASSUME NEW i \in 1..n PROVE <<s[i], e[i], a, a>> \in Steps
  <2> DEFINE x == keys[i].sends
             y == keys[i].means
  <2>1. RawKey(KeySends(x, y), Typed(f))
    BY <1>1, KeyFields
  <2>2. s[i] = x /\ e[i] = y
    OBVIOUS
  <2> HIDE DEF x, y
  <2>3. x \in Seq(Int) /\ y \in Seq(RawEvents)
    BY <2>1, KeyForms, UnusedFound
  <2>4. <<x, y, a, a>> \in Moves(Int, RawEvents, Int)
    BY <2>3, MoveParts
  <2>5. KeyStep(<<x, y, a, a>>, Typed(f))
    BY <2>1 DEF KeyStep
  <2> QED BY <2>2, <2>4, <2>5 DEF RawSteps
<1>3. s = [i \in 1..n |-> s[i]] /\ e = [i \in 1..n |-> e[i]]
  OBVIOUS
<1>4. Steps \in SUBSET Moves(Int, RawEvents, Int)
  BY StepsMove
<1> HIDE DEF s, e, Steps
<1>5. <<FlattenSeq(s), FlattenSeq(e), a, a>> \in Streams(Steps, Int, RawEvents, Int)
  BY <1>1, <1>2, <1>3, <1>4, KeysStream
<1>6. /\ [i \in DOMAIN keys |-> keys[i].sends] = s
      /\ [i \in DOMAIN keys |-> keys[i].means] = e
  BY <1>1 DEF s, e
<1> QED BY <1>5, <1>6 DEF Steps, RawStreams

\* One report.
LEMMA RawPointed ==
  ASSUME NEW f, NEW r \in Reports, NEW col \in Nat, NEW a \in Int
  PROVE  <<RawReport(r[1], col, r[2]), <<PointerMeans(r, col, a)>>, a, col>> \in RawStreams(f)
<1> DEFINE s == RawReport(r[1], col, r[2])
           ev == PointerMeans(r, col, a)
           e == <<ev>>
           m == <<s, e, a, col>>
<1>1. s \in Seq(Int)
  BY ReportFlags, ReportBytes
<1>2. ev \in RawEvents
  BY DEF RawEvents
<1>3. e \in Seq(RawEvents) /\ col \in Int
  <2> HIDE DEF ev
  <2> QED BY <1>2
<1>4. m \in Moves(Int, RawEvents, Int)
  <2> HIDE DEF s, e
  <2> QED BY <1>1, <1>3, MoveParts
<1>5. ReportStep(m)
  BY DEF ReportStep
<1> HIDE DEF m
<1>6. m \in RawSteps(Typed(f))
  BY <1>4, <1>5 DEF RawSteps
<1>7. m \in RawStreams(f)
  BY <1>6, StepStreams, StepsMove DEF RawStreams
<1> QED BY <1>7 DEF m

\* More is sent.
LEMMA FlowsOn ==
  ASSUME NEW f, NEW d \in Decoders, NEW w \in Seq(Int), NEW evs, NEW y,
         Flows(Typed(f), d, w, evs, y), NEW s, NEW e, NEW z, <<s, e, y, z>> \in RawStreams(f)
  PROVE  /\ s \in Seq(Int) /\ e \in Seq(RawEvents)
         /\ Flows(Typed(f), d, w \o s, evs \o e, z)
<1> DEFINE q == d.pending
<1>1. RawSteps(Typed(f)) \in SUBSET Moves(Int, RawEvents, Int)
  BY StepsMove
<1>2. <<q \o w, evs, d.last, y>> \in RawStreams(f)
  BY DEF Flows, RawStreams
<1>3. <<(q \o w) \o s, evs \o e, d.last, z>> \in RawStreams(f)
  BY <1>1, <1>2, StreamsJoin DEF RawStreams
<1>4. s \in Seq(Int) /\ e \in Seq(RawEvents)
  <2>1. <<s, e, y, z>> \in Moves(Int, RawEvents, Int)
    BY <1>1, StreamsClosed DEF RawStreams
  <2> QED BY <2>1, MoveParts
<1>5. q \in Seq(Int)
  BY DEF Decoders
<1>6. Regroups(q, w, s)
  BY <1>4, <1>5, Regrouped
<1> QED BY <1>3, <1>4, <1>6 DEF Flows, RawStreams, Regroups

\* Nothing is on its way.
LEMMA NothingFlows ==
  ASSUME NEW f, NEW d \in Decoders, d.pending = <<>>
  PROVE  Flows(Typed(f), d, <<>>, <<>>, d.last)
<1>1. d.last \in Int /\ <<>> \o <<>> = <<>>
  BY EmptySeq, ConcatEmptySeq DEF Decoders
<1>2. <<<<>>, <<>>, d.last, d.last>> \in RawStreams(f)
  BY <1>1, StepStreams, StepsMove DEF RawStreams
<1> QED BY <1>1, <1>2 DEF Flows, RawStreams

LEMMA ResyncedSees ==
  ASSUME RawInv
  PROVE  Sees(Resynced) /\ (cut => Resynced.seen = dec.last)
<1> DEFINE still == button.down /\ ~button.dragged
<1>1. Resynced = IF cut THEN [hand EXCEPT !.seen = dec.last, !.at = button.at, !.still = still]
                 ELSE hand
  BY DEF Resynced
<1> HIDE DEF still
<1> QED  BY <1>1 DEF RawInv, Sees, Decoders

LEMMA PassedSees ==
  ASSUME RawInv, NEW col \in Columns
  PROVE  Sees(Passed(col)) /\ Passed(col).seen = col
<1> DEFINE still == Resynced.still /\ col = Resynced.at
<1>1. Passed(col) = [Resynced EXCEPT !.still = still, !.seen = col]
  BY DEF Passed
<1>2. Sees(Resynced) /\ col \in Int
  BY ResyncedSees, InputAssumption
<1> HIDE DEF still
<1> QED  BY <1>1, <1>2 DEF Sees

LEMMA SendKeeps ==
  ASSUME RawInv, NEW s, NEW e, Send(s, e), Sees(hand'),
         <<s, e, Resynced.seen, hand'.seen>> \in RawStreams(Able)
  PROVE  RawInv'
<1>1. /\ dec' = dec /\ wire' = wire \o s /\ cut' = Lost
      /\ expected' = IF Lost THEN expected ELSE expected \o e
      /\ Able' = Able
  BY DEF Send, Dealt, device, Able
<1>2. s \in Seq(Int) /\ e \in Seq(RawEvents)
  <2>1. <<s, e, Resynced.seen, hand'.seen>> \in Moves(Int, RawEvents, Int)
    BY StepsMove, StreamsClosed DEF RawStreams
  <2> QED BY <2>1, MoveParts
<1>3. Lost \in BOOLEAN
  BY DEF Lost, RawInv
<1>4. wire' \in Seq(Int) /\ expected' \in Seq(RawEvents)
  BY <1>1, <1>2 DEF RawInv
<1>5. CASE Lost
  BY <1>1, <1>3, <1>4, <1>5 DEF RawInv, Lost
<1>6. CASE ~Lost /\ ~cut
  <2>1. Resynced.seen = hand.seen
    BY <1>6 DEF Resynced
  <2>2. Flows(Typed(Able), dec, wire \o s, expected \o e, hand'.seen)
    BY <1>6, <2>1, FlowsOn DEF RawInv
  <2> QED BY <1>1, <1>3, <1>4, <1>6, <2>2 DEF RawInv
<1>7. CASE ~Lost /\ cut
  <2>1. Resynced.seen = dec.last
    BY <1>7, ResyncedSees
  <2>2. wire = <<>> /\ dec.pending = <<>> /\ expected = <<>>
    BY <1>7 DEF Lost, RawInv
  <2>3. Flows(Typed(Able), dec, wire, expected, dec.last)
    BY <2>2, NothingFlows DEF RawInv
  <2>4. Flows(Typed(Able), dec, wire \o s, expected \o e, hand'.seen)
    BY <2>1, <2>3, FlowsOn DEF RawInv
  <2> QED BY <1>1, <1>3, <1>4, <1>7, <2>4 DEF RawInv
<1> QED BY <1>3, <1>5, <1>6, <1>7

LEMMA PointKeeps ==
  ASSUME RawInv, NEW r \in Reports, NEW col \in Columns,
         Point(RawReport(r[1], col, r[2]), r[3], col), Sees(hand'), hand'.seen = col
  PROVE  RawInv'
<1> DEFINE s  == RawReport(r[1], col, r[2])
           ev == PointerMeans(r, col, Resynced.seen)
<1>1. col \in Nat
  BY InputAssumption
<1>2. Send(s, <<ev>>)
  BY DEF Point, PointerMeans
<1>3. <<s, <<ev>>, Resynced.seen, col>> \in RawStreams(Able)
  BY <1>1, ResyncedSees, RawPointed DEF Sees
<1> HIDE DEF s, ev
<1> DEFINE e == <<ev>>
<1>4. Send(s, e) /\ <<s, e, Resynced.seen, hand'.seen>> \in RawStreams(Able)
  BY <1>2, <1>3
<1> HIDE DEF e
<1> QED BY <1>4, SendKeeps

\* What the user does on a raw terminal.
LEMMA RawUserKeeps ==
  ASSUME RawInv, backend = "raw", Able \in Features, User
  PROVE  RawInv'
<1>1. CASE Type
  <2>1. PICK keys \in Inputs[<<"raw", Able>>] :
          Send(FlattenSeq([i \in DOMAIN keys |-> keys[i].sends]),
               FlattenSeq([i \in DOMAIN keys |-> keys[i].means]))
    BY <1>1 DEF Type
  <2> DEFINE s == FlattenSeq([i \in DOMAIN keys |-> keys[i].sends])
             e == FlattenSeq([i \in DOMAIN keys |-> keys[i].means])
  <2>2. hand' = Resynced
    BY <1>1 DEF Type
  <2>3. <<s, e, Resynced.seen, Resynced.seen>> \in RawStreams(Able)
    BY ResyncedSees, RawTyped DEF Sees
  <2>4. Send(s, e)
    BY <2>1
  <2> HIDE DEF s, e
  <2> QED BY <2>2, <2>3, <2>4, ResyncedSees, SendKeeps
<1>2. ASSUME NEW col \in Columns, Push(col) PROVE RawInv'
  <2> DEFINE r == <<0, Press, {"pressed"}>>
  <2>1. r \in Reports /\ r[1] = 0 /\ r[2] = Press /\ r[3] = {"pressed"}
    BY DEF Reports
  <2> HIDE DEF r
  <2>2. Point(RawReport(0, col, Press), {"pressed"}, col)
    BY <1>2 DEF Push
  <2>3. Point(RawReport(r[1], col, r[2]), r[3], col)
    BY <2>1, <2>2
  <2>4. Sees(hand') /\ hand'.seen = col
    BY <1>2, InputAssumption DEF Push, Sees
  <2> QED BY <2>1, <2>3, <2>4, PointKeeps
<1>3. ASSUME NEW col \in Columns, Move(col) PROVE RawInv'
  <2> DEFINE r == <<32, Press, {"pressed"}>>
  <2>1. r \in Reports /\ r[1] = 32 /\ r[2] = Press /\ r[3] = {"pressed"}
    BY DEF Reports
  <2> HIDE DEF r
  <2>2. Point(RawReport(32, col, Press), {"pressed"}, col)
    BY <1>3 DEF Move
  <2>3. Point(RawReport(r[1], col, r[2]), r[3], col)
    BY <2>1, <2>2
  <2>4. Sees(hand') /\ hand'.seen = col
    BY <1>3, PassedSees DEF Move
  <2> QED BY <2>1, <2>3, <2>4, PointKeeps
<1>4. ASSUME NEW col \in Columns, LetGo(col) PROVE RawInv'
  <2> DEFINE r == <<0, Release, {"released", "clicked"}>>
  <2>1. r \in Reports /\ r[1] = 0 /\ r[2] = Release /\ r[3] = {"released", "clicked"}
    BY DEF Reports
  <2> HIDE DEF r
  <2>2. Point(RawReport(0, col, Release), {"released", "clicked"}, col)
    BY <1>4 DEF LetGo
  <2>3. Point(RawReport(r[1], col, r[2]), r[3], col)
    BY <2>1, <2>2
  <2>4. Sees(hand') /\ hand'.seen = col
    BY <1>4, InputAssumption DEF LetGo, Sees
  <2> QED BY <2>1, <2>3, <2>4, PointKeeps
<1>5. ASSUME NEW col \in Columns, Other(col) PROVE RawInv'
  <2>1. PICK o \in OtherButtons : Point(RawReport(o.raw, col, Press), o.means, col)
    BY <1>5 DEF Other
  <2> DEFINE r == <<o.raw, Press, o.means>>
  <2>2. r \in Reports
    BY DEF Reports, OtherButtons
  <2>3. r[1] = o.raw /\ r[2] = Press /\ r[3] = o.means
    OBVIOUS
  <2> HIDE DEF r
  <2>4. Point(RawReport(r[1], col, r[2]), r[3], col)
    BY <2>1, <2>3
  <2>5. Sees(hand') /\ hand'.seen = col
    BY <1>5, PassedSees DEF Other
  <2> QED BY <2>2, <2>4, <2>5, PointKeeps
<1>6. CASE UNCHANGED <<dec, wire, expected, hand, cut, plat>>
  <2>1. Able' = Able
    BY <1>6 DEF Able
  <2> QED BY <1>6, <2>1 DEF RawInv, Flows
<1>7. ASSUME NEW z \in Sizes, Resize(z) PROVE RawInv'
  BY <1>6, <1>7 DEF Resize, Dealt, device, user
<1>8. CASE Signal \/ HangUp
  BY <1>6, <1>8 DEF Signal, HangUp, Dealt, device, user
<1> QED BY <1>1, <1>2, <1>3, <1>4, <1>5, <1>7, <1>8 DEF User, Tap

-----------------------------------------------------------------------------
LEMMA RawEventKinds ==
  ASSUME NEW ev \in RawEvents
  PROVE  ev.kind \in {"char", "key", "mouse"}
<1>1. CASE ev \in KeyEvents
  BY <1>1 DEF KeyEvents, ByteKey, Char, Key
<1>2. CASE ev \notin KeyEvents
  BY <1>2 DEF RawEvents, PointerMeans, Pointer
<1> QED BY <1>1, <1>2

\* The events of the raw backend are handed over as they are: a release is
\* a click already.
LEMMA RawHandedOver ==
  ASSUME NEW ev \in RawEvents, NEW split, Deliver(ev, split)
  PROVE  result'.event = ev
<1> DEFINE tracked == Tracked(button, ev)
<1>1. result' = [kind |-> "event", event |-> IF ev.kind = "mouse" THEN Activated(tracked, ev) ELSE ev]
  BY DEF Deliver
<1>2. CASE ev \in KeyEvents
  <2>1. ev.kind # "mouse"
    BY <1>2 DEF KeyEvents, ByteKey, Char, Key
  <2> QED BY <1>1, <2>1
<1>3. CASE ev \notin KeyEvents
  <2>1. PICK r \in Reports, col \in Nat, last \in Int : ev = PointerMeans(r, col, last)
    BY <1>3 DEF RawEvents
  <2> DEFINE flags == r[3] \cup (IF col # last THEN {"moved"} ELSE {})
  <2>2. ev = [kind |-> "mouse", flags |-> flags, x |-> col]
    BY <2>1 DEF PointerMeans, Pointer
  <2>3. "released" \in flags => "clicked" \in flags
    BY DEF Reports
  <2> HIDE DEF flags
  <2>4. "released" \in flags => flags \cup {"clicked"} = flags
    BY <2>3
  <2>5. ev.flags = flags
    BY <2>2
  <2>6. "released" \in flags => [ev EXCEPT !.flags = flags \cup {"clicked"}] = ev
    BY <2>2, <2>4
  <2>7. Activated(tracked, ev) = ev
    BY <2>5, <2>6 DEF Activated
  <2> QED BY <1>1, <2>7
<1> QED BY <1>2, <1>3

LEMMA RawDelivered ==
  ASSUME RawInv, UNCHANGED plat, dec' \in Decoders, wire' \in Seq(Int),
         NEW ev, NEW split \in BOOLEAN, Deliver(ev, split),
         cut => Lost,
         ~cut /\ ~split => /\ expected # <<>> /\ ev = Head(expected)
                           /\ Flows(Typed(Able), dec', wire', Tail(expected), hand.seen)
  PROVE  RawInv' /\ (cut' \/ (expected # <<>> /\ result'.event = Head(expected)))
<1>1. /\ cut' = (Lost \/ split) /\ hand' = hand /\ Able' = Able
      /\ expected' = IF Lost \/ split \/ expected = <<>> THEN <<>> ELSE Tail(expected)
  BY DEF Deliver, Able
<1>2. Lost => cut
  BY DEF Lost
<1>3. CASE cut \/ split
  <2>1. cut' = TRUE /\ expected' = <<>> /\ hand' = hand
    BY <1>1, <1>3
  <2>2. expected' \in Seq(RawEvents) /\ Sees(hand') /\ cut' \in BOOLEAN /\ cut'
    BY <2>1, EmptySeq DEF RawInv
  <2>3. RawInv'
    BY <2>1, <2>2 DEF RawInv
  <2> QED BY <2>2, <2>3
<1>4. CASE ~cut /\ ~split
  <2>1. cut' = FALSE /\ expected' = Tail(expected) /\ expected # <<>>
    BY <1>1, <1>2, <1>4
  <2>2. expected \in Seq(RawEvents)
    BY DEF RawInv
  <2>3. Tail(expected) \in Seq(RawEvents) /\ Head(expected) \in RawEvents
    BY <2>1, <2>2
  <2>4. result'.event = Head(expected)
    BY <1>4, <2>3, RawHandedOver
  <2>5. Flows(Typed(Able), dec', wire', Tail(expected), hand.seen)
    BY <1>4
  <2>6. RawInv'
    BY <1>1, <2>1, <2>3, <2>5 DEF RawInv
  <2> QED BY <2>1, <2>4, <2>6
<1> QED BY <1>3, <1>4

\* A decoder with nothing in it gives nothing.
LEMMA NothingDecoded ==
  ASSUME NEW d \in Decoders, d.pending = <<>>
  PROVE  Decode(d) = Incomplete(d) /\ Decode(d).event = NoEvent
<1>1. Len(d.pending) = 0
  BY EmptySeq
<1>2. ~StartsMouse(d)
  BY <1>1, StartsReport
<1>3. Decode(d) = Incomplete(d)
  BY <1>2, DecodeOther
<1> QED BY <1>3 DEF Incomplete

\* What has been decoded before a read or without one.
LEMMA FirstDecoded ==
  ASSUME RawInv, Able \in Features
  PROVE  /\ Decode(dec).dec \in Decoders
         /\ ~cut => Decoded(Typed(Able), Decode(dec), wire, expected, hand.seen)
<1>1. Decode(dec).dec \in Decoders
  BY DecodeType DEF RawInv
<1>2. ASSUME ~cut PROVE Decoded(Typed(Able), Decode(dec), wire, expected, hand.seen)
  <2>1. Flows(Typed(Able), dec, wire, expected, hand.seen) /\ dec \in Decoders /\ wire \in Seq(Int)
    BY <1>2 DEF RawInv
  <2>2. Unused(Able) \in {Esc, Bracket} /\ Typed(Able) = 0..255 \ {Unused(Able)}
    BY UnusedFound DEF Typed
  <2> QED BY <2>1, <2>2, DecodeFlows
<1> QED BY <1>1, <1>2

LEMMA NothingYet ==
  ASSUME NEW bytes, NEW r, NEW w, NEW evs \in Seq(RawEvents), NEW z,
         Decoded(bytes, r, w, evs, z), r.event = NoEvent
  PROVE  Flows(bytes, r.dec, w, evs, z)
<1>1. ~SplitEscape(r.event, r.dec, w)
  BY DEF SplitEscape, ByteKey, Char, NoEvent
<1>2. ~(evs # <<>> /\ r.event = Head(evs))
  <2>1. evs # <<>> => Head(evs) \in RawEvents
    OBVIOUS
  <2>2. NoEvent \notin RawEvents
    BY RawEventKinds DEF NoEvent
  <2> QED BY <2>1, <2>2
<1> QED BY <1>1, <1>2 DEF Decoded

LEMMA ReadKeeps ==
  ASSUME RawInv, Able \in Features, UNCHANGED plat, Decode(dec).event = NoEvent,
         NEW n \in ReadLengths, ReadRaw(Decode(dec).dec, n)
  PROVE  /\ RawInv'
         /\ \/ result'.event.kind = "none" \/ cut'
            \/ expected # <<>> /\ result'.event = Head(expected)
<1> DEFINE before == Decode(dec).dec
           some   == SubSeq(wire, 1, n)
           ahead  == SubSeq(wire, n + 1, Len(wire))
           drops  == Len(before.pending) + n > Capacity
           full   == AppendBytes(before, some)
           after  == Decode(full)
<1>1. wire \in Seq(Int) /\ Len(wire) \in Nat
  BY LenProperties DEF RawInv
<1>2. n \in 1..Len(wire) /\ n \in Nat
  BY <1>1, InputAssumption DEF ReadLengths
<1>3. /\ some \in Seq(Int) /\ ahead \in Seq(Int)
      /\ some \o ahead = wire /\ Len(some) = n /\ wire # <<>>
  <2> DEFINE k == Len(wire)
  <2> HIDE DEF k
  <2>1. k \in Nat /\ n \in 1..k /\ k = Len(wire)
    BY <1>1, <1>2 DEF k
  <2>2. 1 \in Nat /\ 1 >= 1 /\ n \in Int /\ n <= k /\ n + 1 \in Nat /\ n + 1 >= 1 /\ k \in Int /\ k <= k
    BY <2>1
  <2>3. some \in Seq(Int)
    BY <1>1, <2>1, <2>2, PartOf
  <2>4. ahead \in Seq(Int)
    BY <1>1, <2>1, <2>2, PartOf DEF k
  <2>5. some \o ahead = SubSeq(wire, 1, k)
    <3>1. 1 \in 1..k + 1 /\ n \in 1 - 1 .. k /\ k \in n .. k
      BY <2>1
    <3> QED BY <1>1, <2>1, <3>1, ConcatAdjacentSubSeq
  <2>6. SubSeq(wire, 1, k) = wire
    BY <1>1, <2>1, SubSeqFull
  <2>7. Len(some) = n
    <3>1. ASSUME NEW i \in 1..n PROVE wire[i] \in Int
      <4>1. i \in 1..k
        BY <2>1
      <4> QED BY <1>1, <2>1, <4>1, ElementOfSeq
    <3>2. Len(some) = IF 1 <= n THEN n - 1 + 1 ELSE 0
      BY <2>2, <3>1, SubSeqProperties
    <3> HIDE DEF some
    <3> QED BY <2>1, <3>2
  <2>8. wire # <<>>
    BY <2>1, EmptySeq
  <2> QED BY <2>3, <2>4, <2>5, <2>6, <2>7, <2>8
<1>4. before \in Decoders
  BY FirstDecoded
<1>5. /\ wire' = ahead /\ dec' = after.dec
      /\ IF after.event # NoEvent
           THEN Deliver(after.event, drops \/ SplitEscape(after.event, after.dec, ahead))
           ELSE /\ result' = Outcome("timeout")
                /\ cut' = (Lost \/ drops)
                /\ expected' = IF cut' THEN <<>> ELSE expected
                /\ UNCHANGED <<button, hand>>
  BY DEF ReadRaw
<1> HIDE DEF before, some, ahead
<1>6. full \in Decoders /\ after.dec \in Decoders
  BY <1>3, <1>4, AppendType, DecodeType
<1>7. drops \in BOOLEAN
  OBVIOUS
<1>8. ~drops => full = [pending |-> before.pending \o some, last |-> before.last]
  BY <1>3, <1>4, AppendType
<1> HIDE DEF drops, full, after
<1>9. ASSUME ~cut, ~drops PROVE Decoded(Typed(Able), after, ahead, expected, hand.seen)
  <2>1. Flows(Typed(Able), before, wire, expected, hand.seen)
    <3>1. Decoded(Typed(Able), Decode(dec), wire, expected, hand.seen)
      BY <1>9, FirstDecoded
    <3>2. expected \in Seq(RawEvents)
      BY DEF RawInv
    <3> QED BY <3>1, <3>2, NothingYet DEF before
  <2>2. Flows(Typed(Able), full, ahead, expected, hand.seen)
    <3>1. Regroups(before.pending, some, ahead)
      BY <1>3, <1>4, Regrouped DEF Decoders
    <3>2. full.pending = before.pending \o some /\ full.last = before.last
      BY <1>8, <1>9
    <3>3. full.pending \o ahead = before.pending \o wire
      BY <1>3, <3>1, <3>2 DEF Regroups
    <3> QED BY <2>1, <3>2, <3>3 DEF Flows
  <2>3. Unused(Able) \in {Esc, Bracket} /\ Typed(Able) = 0..255 \ {Unused(Able)}
    BY UnusedFound DEF Typed
  <2>4. Decoded(Typed(Able), Decode(full), ahead, expected, hand.seen)
    BY <1>3, <1>6, <2>2, <2>3, DecodeFlows
  <2> QED BY <2>4 DEF after
<1>10. cut => Lost
  BY <1>3 DEF Lost
<1>11. dec' \in Decoders /\ wire' \in Seq(Int) /\ Able' = Able
  BY <1>3, <1>5, <1>6 DEF Able
<1>12. CASE after.event # NoEvent
  <2> DEFINE split == drops \/ SplitEscape(after.event, after.dec, ahead)
  <2>1. split \in BOOLEAN
    BY <1>7 DEF SplitEscape
  <2>2. Deliver(after.event, split)
    BY <1>5, <1>12
  <2>3. ~cut /\ ~split => /\ expected # <<>> /\ after.event = Head(expected)
                          /\ Flows(Typed(Able), dec', wire', Tail(expected), hand.seen)
    BY <1>5, <1>9, <1>12 DEF Decoded
  <2> HIDE DEF split
  <2> QED BY <1>10, <1>11, <2>1, <2>2, <2>3, RawDelivered
<1>13. CASE after.event = NoEvent
  <2>1. /\ result' = Outcome("timeout") /\ cut' = (Lost \/ drops) /\ hand' = hand
        /\ expected' = IF cut' THEN <<>> ELSE expected
    BY <1>5, <1>13
  <2>2. result'.event.kind = "none"
    BY <2>1 DEF Outcome, NoEvent
  <2>3. cut' \in BOOLEAN
    BY <1>7, <2>1 DEF Lost, RawInv
  <2>4. CASE cut'
    <3>1. expected' = <<>>
      BY <2>1, <2>4
    <3> QED BY <1>11, <2>1, <2>2, <2>3, <2>4, <3>1, EmptySeq DEF RawInv
  <2>5. CASE ~cut'
    <3>1. ~cut /\ ~drops /\ expected' = expected
      BY <1>10, <2>1, <2>5
    <3>2. Decoded(Typed(Able), after, ahead, expected, hand.seen)
      BY <1>9, <3>1
    <3>3. expected \in Seq(RawEvents)
      BY DEF RawInv
    <3>4. Flows(Typed(Able), after.dec, ahead, expected, hand.seen)
      BY <1>13, <3>2, <3>3, NothingYet
    <3>5. RawInv'
      BY <1>5, <1>11, <2>1, <2>3, <2>5, <3>1, <3>4 DEF RawInv
    <3> QED BY <2>2, <3>5
  <2> QED BY <2>4, <2>5
<1> QED BY <1>12, <1>13

\* platform_poll_event_tty_raw.
LEMMA RawPollKeeps ==
  ASSUME RawInv, Able \in Features, UNCHANGED plat, PollRaw
  PROVE  /\ RawInv'
         /\ \/ result'.event.kind \in {"none", "resize"} \/ cut'
            \/ expected # <<>> /\ result'.event = Head(expected)
<1> DEFINE first == Decode(dec)
<1>1. first.dec \in Decoders /\ wire \in Seq(Int) /\ dec \in Decoders /\ expected \in Seq(RawEvents)
  BY FirstDecoded DEF RawInv
<1>2. ~cut => Decoded(Typed(Able), first, wire, expected, hand.seen)
  BY FirstDecoded
<1>3. cut /\ first.event # NoEvent => Lost
  <2>1. first.event # NoEvent => dec.pending # <<>>
    BY <1>1, NothingDecoded
  <2> QED BY <2>1 DEF Lost
<1>4. Able' = Able
  BY DEF Able
<1>5. first.event = NoEvent /\ ~cut => Flows(Typed(Able), first.dec, wire, expected, hand.seen)
  BY <1>1, <1>2, NothingYet
<1>6. ASSUME first.event = NoEvent, dec' = first.dec, UNCHANGED <<wire, user>> PROVE RawInv'
  <2>1. wire' = wire /\ hand' = hand /\ expected' = expected /\ cut' = cut
    BY <1>6 DEF user
  <2>2. dec' \in Decoders /\ (~cut => Flows(Typed(Able), dec', wire, expected, hand.seen))
    BY <1>1, <1>5, <1>6
  <2> HIDE DEF first
  <2> QED BY <1>4, <2>1, <2>2 DEF RawInv
<1>7. CASE /\ first.event # NoEvent
           /\ dec' = first.dec
           /\ Deliver(first.event, SplitEscape(first.event, first.dec, wire))
           /\ UNCHANGED <<wire, known>>
  <2> DEFINE split == SplitEscape(first.event, first.dec, wire)
  <2>1. split \in BOOLEAN
    BY DEF SplitEscape
  <2>2. Deliver(first.event, split) /\ dec' \in Decoders /\ wire' \in Seq(Int) /\ wire' = wire
    BY <1>1, <1>7
  <2>3. cut => Lost
    BY <1>3, <1>7
  <2>4. ~cut /\ ~split => /\ expected # <<>> /\ first.event = Head(expected)
                          /\ Flows(Typed(Able), dec', wire', Tail(expected), hand.seen)
    BY <1>2, <1>7 DEF Decoded
  <2> HIDE DEF split, first
  <2>5. RawInv' /\ (cut' \/ (expected # <<>> /\ result'.event = Head(expected)))
    BY <2>1, <2>2, <2>3, <2>4, RawDelivered
  <2> QED BY <2>5
<1>8. CASE /\ first.event = NoEvent
           /\ dec' = first.dec
           /\ EmitResize
           /\ UNCHANGED wire
  <2>1. RawInv'
    BY <1>6, <1>8 DEF EmitResize
  <2>2. result'.event.kind = "resize"
    BY <1>8 DEF EmitResize
  <2> QED BY <2>1, <2>2
<1>9. CASE /\ first.event = NoEvent
           /\ dec' = first.dec
           /\ \E kind \in {"closed", "timeout", "error"} : Returns(kind)
           /\ UNCHANGED <<wire, known>>
  <2>1. RawInv'
    BY <1>6, <1>9 DEF Returns
  <2>2. result'.event.kind = "none"
    BY <1>9 DEF Returns, Outcome, NoEvent
  <2> QED BY <2>1, <2>2
<1>10. CASE /\ first.event = NoEvent
            /\ \E n \in ReadLengths : ReadRaw(first.dec, n)
  <2>1. PICK n \in ReadLengths : ReadRaw(Decode(dec).dec, n)
    BY <1>10
  <2> QED BY <1>10, <2>1, ReadKeeps
<1>11. \/ /\ first.event # NoEvent
          /\ dec' = first.dec
          /\ Deliver(first.event, SplitEscape(first.event, first.dec, wire))
          /\ UNCHANGED <<wire, known>>
       \/ first.event = NoEvent /\ dec' = first.dec /\ EmitResize /\ UNCHANGED wire
       \/ /\ first.event = NoEvent
          /\ dec' = first.dec
          /\ \E kind \in {"closed", "timeout", "error"} : Returns(kind)
          /\ UNCHANGED <<wire, known>>
       \/ first.event = NoEvent /\ \E n \in ReadLengths : ReadRaw(first.dec, n)
  <2> HIDE DEF first
  <2> QED BY DEF PollRaw, first
<1> HIDE DEF first
<1> QED BY <1>7, <1>8, <1>9, <1>10, <1>11

-----------------------------------------------------------------------------
(***************************************************************************)
(* The curses backend.  What is on the wire is a stream for a program that *)
(* remembers the last column and the button, and leaves it with what the   *)
(* user knows of them.                                                     *)
(***************************************************************************)
Hands == [down : BOOLEAN, still : BOOLEAN, at : Int, seen : Int]

Buttons == [down : BOOLEAN, dragged : BOOLEAN, at : Int]

\* A button that rests is where the last report was.
CursesStates ==
  {z \in [last : Int, button : Buttons] :
     z.button.down /\ ~z.button.dragged => z.last = z.button.at}

PointerFlags == {"pressed", "released", "clicked", "dblclick", "moved", "scroll_down",
                 "right_pressed", "right_clicked"}

\* What curses reports of the buttons says nothing of motion.
Bstates == SUBSET (PointerFlags \ {"moved"})

CursesReports == {[bstate |-> state, x |-> col] : state \in Bstates, col \in Int}

CursesSymbols ==
  {[char |-> byte] : byte \in 0..255} \cup {[key |-> name] : name \in STRING} \cup
  CursesReports \cup {[resize |-> TRUE]}

CursesPointers == {Pointer(flags, col) : flags \in SUBSET PointerFlags, col \in Int}

CursesEvents ==
  {Char(byte) : byte \in 0..255} \cup {CursesKey(name) : name \in STRING} \cup CursesPointers

\* A report as it is handed over in state a, and the state it leaves.
Reported(a, state, col) == CursesMouse([bstate |-> state, x |-> col], a.last)

HandedOver(a, state, col) ==
  Activated(Tracked(a.button, Reported(a, state, col)), Reported(a, state, col))

After(a, state, col) ==
  [last |-> col,
   button |-> Settled(Tracked(a.button, Reported(a, state, col)), HandedOver(a, state, col))]

CursesKeyStep(m) ==
  /\ m[3] = m[4]
  /\ \/ \E byte \in 0..255 : m[1] = <<[char |-> byte]>> /\ m[2] = <<Char(byte)>>
     \/ \E name \in STRING : m[1] = <<[key |-> name]>> /\ m[2] = <<CursesKey(name)>>
     \/ m[1] = <<[resize |-> TRUE]>> /\ m[2] = <<>>

CursesReportStep(m) ==
  \E state \in Bstates, col \in Int :
    /\ m[1] = <<[bstate |-> state, x |-> col]>> /\ m[2] = <<HandedOver(m[3], state, col)>>
    /\ m[4] = After(m[3], state, col)

CursesSteps ==
  {m \in Moves(CursesSymbols, CursesEvents, CursesStates) : CursesKeyStep(m) \/ CursesReportStep(m)}

CursesStreams == Streams(CursesSteps, CursesSymbols, CursesEvents, CursesStates)

Moved(col, last) == IF col # last THEN {"moved"} ELSE {}

\* The click that a release makes of a press.
ClickOf(a, state, col) ==
  /\ "released" \in state
  /\ \/ "pressed" \in state
     \/ a.button.down /\ ~a.button.dragged /\ col = a.last /\ col = a.button.at

\* The button after a report that does not let it go.
ButtonLeft(a, state, col, b) ==
  IF "pressed" \in state THEN b = [down |-> TRUE, dragged |-> FALSE, at |-> col]
  ELSE /\ b.down = a.button.down /\ b.at = a.button.at
       /\ b.dragged <=> a.button.dragged \/ (a.button.down /\ (col # a.last \/ col # a.button.at))

LEMMA ReportHandedOver ==
  ASSUME NEW a \in CursesStates, NEW state \in Bstates, NEW col \in Int
  PROVE  /\ HandedOver(a, state, col) =
              Pointer(state \cup Moved(col, a.last)
                        \cup (IF ClickOf(a, state, col) THEN {"clicked"} ELSE {}), col)
         /\ After(a, state, col) \in CursesStates
         /\ After(a, state, col).last = col
         /\ {"released", "clicked", "dblclick"} \cap state # {} =>
              After(a, state, col).button.down = FALSE
         /\ {"released", "clicked", "dblclick"} \cap state = {} =>
              ButtonLeft(a, state, col, After(a, state, col).button)
<1> DEFINE flags == state \cup Moved(col, a.last)
           ev    == Pointer(flags, col)
           b0    == a.button
           b1    == Tracked(b0, ev)
           click == "released" \in state /\ b1.down /\ ~b1.dragged
           out   == Pointer(flags \cup (IF click THEN {"clicked"} ELSE {}), col)
           b2    == Settled(b1, out)
<1>1. Reported(a, state, col) = ev
  BY DEF Reported, CursesMouse, Moved
<1>2. /\ ev.flags = flags /\ ev.x = col
      /\ ev = [kind |-> "mouse", flags |-> flags, x |-> col]
  <2> HIDE DEF flags
  <2> QED BY DEF Pointer
<1>3. /\ "pressed" \in flags <=> "pressed" \in state
      /\ "released" \in flags <=> "released" \in state
      /\ "clicked" \in flags <=> "clicked" \in state
      /\ "dblclick" \in flags <=> "dblclick" \in state
      /\ "moved" \in flags <=> col # a.last
  BY DEF Moved, Bstates
<1>4. b0 \in Buttons
  BY DEF CursesStates
<1> HIDE DEF b0, flags, ev
<1>5. /\ b1 \in Buttons
      /\ "pressed" \in state => b1 = [down |-> TRUE, dragged |-> FALSE, at |-> col]
      /\ "pressed" \notin state =>
           /\ b1.down = b0.down /\ b1.at = b0.at
           /\ b1.dragged <=> b0.dragged \/ (b0.down /\ (col # a.last \/ col # b0.at))
  <2>1. CASE "pressed" \in state
    <3>1. b1 = [b0 EXCEPT !.down = TRUE, !.dragged = FALSE, !.at = col]
      BY <1>2, <1>3, <2>1 DEF Tracked
    <3>2. b1 = [down |-> TRUE, dragged |-> FALSE, at |-> col]
      BY <1>4, <3>1 DEF Buttons
    <3> HIDE DEF b1
    <3> QED BY <2>1, <3>2 DEF Buttons
  <2>2. CASE "pressed" \notin state
    <3> DEFINE drag == b0.dragged \/ (b0.down /\ ("moved" \in flags \/ col # b0.at))
    <3>1. b1 = [b0 EXCEPT !.dragged = drag]
      BY <1>2, <1>3, <2>2 DEF Tracked
    <3>2. drag \in BOOLEAN /\ (drag <=> b0.dragged \/ (b0.down /\ (col # a.last \/ col # b0.at)))
      BY <1>3, <1>4 DEF Buttons
    <3> HIDE DEF drag, b1
    <3>3. b1 \in Buttons /\ b1.down = b0.down /\ b1.at = b0.at /\ b1.dragged = drag
      BY <1>4, <3>1, <3>2 DEF Buttons
    <3> QED BY <2>2, <3>2, <3>3
  <2> QED BY <2>1, <2>2
<1>6. click <=> ClickOf(a, state, col)
  <2> HIDE DEF b1
  <2>1. CASE "pressed" \in state
    <3>1. b1.down /\ ~b1.dragged
      BY <1>5, <2>1
    <3> QED BY <2>1, <3>1 DEF ClickOf
  <2>2. CASE "pressed" \notin state
    BY <1>5, <2>2 DEF ClickOf, b0
  <2> QED BY <2>1, <2>2
<1>7. HandedOver(a, state, col) = out
  <2> HIDE DEF b1
  <2>1. Activated(b1, ev) = IF click THEN [ev EXCEPT !.flags = flags \cup {"clicked"}] ELSE ev
    BY <1>2, <1>3 DEF Activated
  <2> DEFINE more == flags \cup {"clicked"}
  <2> HIDE DEF more
  <2>2. [ev EXCEPT !.flags = more] = [kind |-> "mouse", flags |-> more, x |-> col]
    BY <1>2
  <2>3. Activated(b1, ev) = out
    <3>1. CASE click
      BY <1>2, <2>1, <2>2, <3>1 DEF Pointer, more
    <3>2. CASE ~click
      <4>1. flags \cup {} = flags
        OBVIOUS
      <4> QED BY <1>2, <2>1, <3>2, <4>1 DEF Pointer
    <3> QED BY <3>1, <3>2
  <2> HIDE DEF out, click
  <2> QED BY <1>1, <2>3 DEF HandedOver, b1, b0
<1>8. After(a, state, col) = [last |-> col, button |-> b2]
  <2> HIDE DEF out
  <2> QED BY <1>1, <1>7 DEF After, b0
<1> DEFINE ends == {"released", "clicked", "dblclick"} \cap state # {}
<1>9. b2 = IF ends THEN [b1 EXCEPT !.down = FALSE, !.dragged = FALSE] ELSE b1
  <2>1. out.flags = flags \cup (IF click THEN {"clicked"} ELSE {})
    BY DEF Pointer
  <2>2. click => "released" \in state
    OBVIOUS
  <2> HIDE DEF click
  <2>3. {"released", "clicked", "dblclick"} \cap out.flags # {} <=> ends
    <3> HIDE DEF out
    <3>1. /\ "released" \in out.flags <=> "released" \in state
          /\ "dblclick" \in out.flags <=> "dblclick" \in state
          /\ "clicked" \in out.flags <=> "clicked" \in state \/ click
      BY <1>3, <2>1
    <3> QED BY <2>2, <3>1
  <2> HIDE DEF out, b1, ends
  <2> QED BY <2>3 DEF Settled
<1> HIDE DEF b1, b2
<1>10. /\ b2 \in Buttons
       /\ ends => b2.down = FALSE
       /\ ~ends => b2 = b1
  <2> HIDE DEF ends
  <2> QED BY <1>5, <1>9 DEF Buttons
<1>16. b2.down /\ ~b2.dragged => col = b2.at
  <2> HIDE DEF ends
  <2>1. b2.down => b2 = b1
    BY <1>10
  <2>2. CASE "pressed" \in state
    BY <1>5, <2>1, <2>2
  <2>3. CASE "pressed" \notin state
    <3>1. /\ b1.down => b0.down
          /\ b0.down /\ ~b1.dragged => col = b0.at
          /\ b1.at = b0.at
      BY <1>5, <2>3
    <3> QED BY <2>1, <3>1
  <2> QED BY <2>2, <2>3
<1> DEFINE b == After(a, state, col).button
<1>11. /\ After(a, state, col) \in CursesStates
       /\ After(a, state, col).last = col /\ b = b2
  <2> DEFINE y == [last |-> col, button |-> b2]
  <2>1. y.last = col /\ y.button = b2 /\ y \in [last : Int, button : Buttons]
    BY <1>10
  <2> HIDE DEF y
  <2>2. y \in CursesStates
    BY <1>16, <2>1 DEF CursesStates
  <2>3. After(a, state, col) = y
    BY <1>8 DEF y
  <2> HIDE DEF ends
  <2> QED BY <2>1, <2>2, <2>3
<1>12. HandedOver(a, state, col) =
         Pointer(state \cup Moved(col, a.last)
                   \cup (IF ClickOf(a, state, col) THEN {"clicked"} ELSE {}), col)
  BY <1>6, <1>7 DEF flags
<1> HIDE DEF b
<1>13. ends => b.down = FALSE
  BY <1>10, <1>11
<1>14. ASSUME ~ends PROVE ButtonLeft(a, state, col, b)
  <2> HIDE DEF ends
  <2>1. IF "pressed" \in state THEN b = [down |-> TRUE, dragged |-> FALSE, at |-> col]
        ELSE /\ b.down = b0.down /\ b.at = b0.at
             /\ b.dragged <=> b0.dragged \/ (b0.down /\ (col # a.last \/ col # b0.at))
    BY <1>5, <1>10, <1>11, <1>14
  <2> QED BY <2>1 DEF ButtonLeft, b0
<1>15. {"released", "clicked", "dblclick"} \cap state = {} => ButtonLeft(a, state, col, b)
  BY <1>14
<1> QED BY <1>11, <1>12, <1>13, <1>15 DEF b

\* The program will know where the pointer is and, while a button is down,
\* whether it has rested since that was pressed.
Knows(z, h) ==
  /\ z.last = h.seen
  /\ h.down => /\ h.still <=> z.button.down /\ ~z.button.dragged
               /\ h.still => z.button.at = h.at /\ h.seen = h.at

CursesFlows(w, evs, last, b, h) ==
  \E z \in CursesStates :
    Knows(z, h) /\ <<w, evs, [last |-> last, button |-> b], z>> \in CursesStreams

CursesInv ==
  /\ dec \in Decoders /\ wire \in Seq(CursesSymbols) /\ expected \in Seq(CursesEvents)
  /\ hand \in Hands /\ cut \in BOOLEAN
  /\ [last |-> dec.last, button |-> button] \in CursesStates
  /\ IF cut THEN expected = <<>> ELSE CursesFlows(wire, expected, dec.last, button, hand)

\* What is sent and meant takes what the user knows from h to k.
Leads(s, e, h, k) ==
  \A z \in CursesStates :
    Knows(z, h) => \E y \in CursesStates : Knows(y, k) /\ <<s, e, z, y>> \in CursesStreams

LEMMA CursesStepsMove ==
  CursesSteps \in SUBSET Moves(CursesSymbols, CursesEvents, CursesStates)
BY DEF CursesSteps

LEMMA CursesFlowsOn ==
  ASSUME NEW w, NEW evs, NEW last, NEW b, NEW h, NEW s, NEW e, NEW k,
         CursesFlows(w, evs, last, b, h), Leads(s, e, h, k)
  PROVE  CursesFlows(w \o s, evs \o e, last, b, k)
<1>1. PICK z \in CursesStates :
        Knows(z, h) /\ <<w, evs, [last |-> last, button |-> b], z>> \in CursesStreams
  BY DEF CursesFlows
<1>2. PICK y \in CursesStates : Knows(y, k) /\ <<s, e, z, y>> \in CursesStreams
  BY <1>1 DEF Leads
<1> DEFINE a == [last |-> last, button |-> b]
<1>3. <<w, evs, a, z>> \in CursesStreams
  BY <1>1
<1> HIDE DEF a
<1>4. <<w \o s, evs \o e, a, y>> \in CursesStreams
  BY <1>2, <1>3, CursesStepsMove, StreamsJoin DEF CursesStreams
<1> QED BY <1>2, <1>4 DEF a, CursesFlows

\* What is known of the hand, after lost reports from the program.
LEMMA ResyncedHand ==
  ASSUME CursesInv
  PROVE  /\ Resynced \in Hands /\ Resynced.down = hand.down
         /\ cut => Knows([last |-> dec.last, button |-> button], Resynced)
         /\ ~cut => Resynced = hand
<1> DEFINE z == [last |-> dec.last, button |-> button]
           still == button.down /\ ~button.dragged
<1>1. Resynced = IF cut THEN [hand EXCEPT !.seen = dec.last, !.at = button.at, !.still = still]
                 ELSE hand
  BY DEF Resynced
<1>2. z.last = dec.last /\ z.button = button /\ z \in CursesStates
  BY DEF CursesInv
<1> HIDE DEF z
<1>3. /\ dec.last \in Int /\ button \in Buttons
      /\ button.down /\ ~button.dragged => dec.last = button.at
  BY <1>2 DEF CursesStates
<1>4. button.at \in Int /\ still \in BOOLEAN
  BY <1>3 DEF Buttons
<1>5. hand \in Hands
  BY DEF CursesInv
<1>6. CASE cut
  <2> DEFINE h == Resynced
  <2>1. still <=> button.down /\ ~button.dragged
    OBVIOUS
  <2>2. h = [hand EXCEPT !.seen = dec.last, !.at = button.at, !.still = still]
    BY <1>1, <1>6
  <2> HIDE DEF h, still
  <2>3. h \in Hands /\ h.down = hand.down /\ h.seen = dec.last /\ h.at = button.at /\ h.still = still
    BY <1>3, <1>4, <1>5, <2>2 DEF Hands
  <2>4. Knows(z, h)
    BY <1>2, <1>3, <2>1, <2>3 DEF Knows
  <2> QED BY <1>6, <2>3, <2>4 DEF h, z
<1>7. CASE ~cut
  BY <1>1, <1>5, <1>7
<1> QED BY <1>6, <1>7

LEMMA CursesSent ==
  ASSUME CursesInv, NEW s \in Seq(CursesSymbols), NEW e \in Seq(CursesEvents), Send(s, e),
         hand' \in Hands, Leads(s, e, Resynced, hand')
  PROVE  CursesInv'
<1>1. /\ dec' = dec /\ button' = button /\ wire' = wire \o s /\ cut' = Lost
      /\ expected' = IF Lost THEN expected ELSE expected \o e
  BY DEF Send
<1>2. wire \o s \in Seq(CursesSymbols) /\ expected \o e \in Seq(CursesEvents)
  BY DEF CursesInv
<1>3. CASE Lost
  <2>1. cut' = TRUE /\ expected' = <<>>
    BY <1>1, <1>3 DEF Lost, CursesInv
  <2> QED BY <1>1, <1>2, <2>1, EmptySeq DEF CursesInv
<1>4. CASE ~Lost
  <2>1. CursesFlows(wire, expected, dec.last, button, Resynced)
    <3>1. CASE ~cut
      BY <3>1, ResyncedHand DEF CursesInv
    <3>2. CASE cut
      <4> DEFINE z == [last |-> dec.last, button |-> button]
      <4>1. z \in CursesStates /\ Knows(z, Resynced)
        BY <3>2, ResyncedHand DEF CursesInv
      <4>2. wire = <<>> /\ expected = <<>>
        BY <1>4, <3>2 DEF Lost, CursesInv
      <4>3. z = [last |-> dec.last, button |-> button]
        OBVIOUS
      <4> HIDE DEF z
      <4>4. <<<<>>, <<>>, z, z>> \in CursesStreams
        BY <4>1, CursesStepsMove, StepStreams DEF CursesStreams
      <4> QED BY <4>1, <4>2, <4>3, <4>4 DEF CursesFlows
    <3> QED BY <3>1, <3>2
  <2>2. CursesFlows(wire \o s, expected \o e, dec.last, button, hand')
    BY <2>1, CursesFlowsOn
  <2>3. cut' = FALSE /\ expected' = expected \o e
    BY <1>1, <1>4 DEF Lost, CursesInv
  <2> QED BY <1>1, <1>2, <2>2, <2>3 DEF CursesInv
<1> QED BY <1>3, <1>4

\* A step is a stream.
LEMMA OneStep ==
  ASSUME NEW s \in Seq(CursesSymbols), NEW e \in Seq(CursesEvents),
         NEW a \in CursesStates, NEW b \in CursesStates,
         CursesKeyStep(<<s, e, a, b>>) \/ CursesReportStep(<<s, e, a, b>>)
  PROVE  <<s, e, a, b>> \in CursesSteps /\ <<s, e, a, b>> \in CursesStreams
<1>1. <<s, e, a, b>> \in Moves(CursesSymbols, CursesEvents, CursesStates)
  BY MoveParts
<1>2. <<s, e, a, b>> \in CursesSteps
  BY <1>1 DEF CursesSteps
<1> QED BY <1>2, CursesStepsMove, StepStreams DEF CursesStreams

LEMMA CursesBytes ==
  ASSUME NEW b \in 0..255
  PROVE  [char |-> b] \in CursesSymbols /\ Char(b) \in CursesEvents
<1>1. [char |-> b] \in {[char |-> byte] : byte \in 0..255}
  OBVIOUS
<1>2. Char(b) \in {Char(byte) : byte \in 0..255}
  OBVIOUS
<1>3. [char |-> b] \in CursesSymbols
  BY <1>1, SMT DEF CursesSymbols
<1>4. Char(b) \in CursesEvents
  BY <1>2, SMT DEF CursesEvents
<1> QED BY <1>3, <1>4

LEMMA ReportSymbol ==
  ASSUME NEW s \in Bstates, NEW c \in Int
  PROVE  [bstate |-> s, x |-> c] \in CursesSymbols
<1>1. [bstate |-> s, x |-> c] \in CursesReports
  BY DEF CursesReports
<1> QED BY <1>1, SMT DEF CursesSymbols

\* Keys typed at once.
LEMMA CursesKeysLead ==
  ASSUME NEW f \in Features, NEW keys \in Inputs[<<"curses", f>>], NEW h
  PROVE  LET s == FlattenSeq([i \in DOMAIN keys |-> keys[i].sends])
             e == FlattenSeq([i \in DOMAIN keys |-> keys[i].means])
         IN  Leads(s, e, h, h) /\ s \in Seq(CursesSymbols) /\ e \in Seq(CursesEvents)
<1> DEFINE n == Len(keys)
           s == [i \in 1..n |-> keys[i].sends]
           e == [i \in 1..n |-> keys[i].means]
<1>1. n \in Nat /\ DOMAIN keys = 1..n /\ \A i \in 1..n : CursesTyped(keys[i])
  BY KeyAssumption
<1> HIDE DEF n
<1>2. ASSUME NEW i \in 1..n
      PROVE  /\ s[i] \in Seq(CursesSymbols) /\ e[i] \in Seq(CursesEvents)
             /\ \A a : CursesKeyStep(<<s[i], e[i], a, a>>)
  <2> DEFINE k == keys[i]
  <2>1. s[i] = k.sends /\ e[i] = k.means /\ CursesTyped(k)
    BY <1>1
  <2> HIDE DEF k, s, e
  <2>2. CASE \E byte \in 0..255 : k = KeySends(<<[char |-> byte]>>, <<Char(byte)>>)
    <3>1. PICK byte \in 0..255 : k = KeySends(<<[char |-> byte]>>, <<Char(byte)>>)
      BY <2>2
    <3> DEFINE x == [char |-> byte]
               y == Char(byte)
    <3>2. x \in CursesSymbols /\ y \in CursesEvents
      BY CursesBytes
    <3>3. s[i] = <<x>> /\ e[i] = <<y>>
      BY <2>1, <3>1 DEF KeySends
    <3>4. \A a : CursesKeyStep(<<s[i], e[i], a, a>>)
      BY <3>3 DEF CursesKeyStep
    <3> HIDE DEF x, y
    <3> QED BY <3>2, <3>3, <3>4
  <2>3. CASE k.sends[1].key \in STRING
             /\ k = KeySends(<<[key |-> k.sends[1].key]>>, <<CursesKey(k.sends[1].key)>>)
    <3> DEFINE name == k.sends[1].key
               x == [key |-> name]
               y == CursesKey(name)
    <3>1. name \in STRING /\ k = KeySends(<<x>>, <<y>>)
      BY <2>3
    <3> HIDE DEF name
    <3>2. x \in CursesSymbols /\ y \in CursesEvents
      BY <3>1 DEF CursesSymbols, CursesEvents
    <3>3. s[i] = <<x>> /\ e[i] = <<y>>
      BY <2>1, <3>1 DEF KeySends
    <3>4. \A a : CursesKeyStep(<<s[i], e[i], a, a>>)
      BY <3>1, <3>3 DEF CursesKeyStep
    <3> HIDE DEF x, y
    <3> QED BY <3>2, <3>3, <3>4
  <2> QED BY <2>1, <2>2, <2>3 DEF CursesTyped
<1>3. s = [i \in 1..n |-> s[i]] /\ e = [i \in 1..n |-> e[i]]
  OBVIOUS
<1>4. /\ [i \in DOMAIN keys |-> keys[i].sends] = s
      /\ [i \in DOMAIN keys |-> keys[i].means] = e
  BY <1>1
<1> HIDE DEF s, e
<1>5. ASSUME NEW a \in CursesStates
      PROVE  <<FlattenSeq(s), FlattenSeq(e), a, a>> \in CursesStreams
  <2>1. \A i \in 1..n : <<s[i], e[i], a, a>> \in CursesSteps
    BY <1>2, OneStep
  <2> QED BY <1>1, <1>3, <2>1, CursesStepsMove, KeysStream DEF CursesStreams
<1>6. FlattenSeq(s) \in Seq(CursesSymbols) /\ FlattenSeq(e) \in Seq(CursesEvents)
  <2> DEFINE a == [last |-> 0, button |-> [down |-> FALSE, dragged |-> FALSE, at |-> 0]]
  <2>1. a \in CursesStates
    <3>1. a \in [last : Int, button : Buttons] /\ a.last = 0 /\ a.button.at = 0
      BY DEF Buttons
    <3> HIDE DEF a
    <3> QED BY <3>1 DEF CursesStates
  <2> HIDE DEF a
  <2>2. <<FlattenSeq(s), FlattenSeq(e), a, a>> \in Moves(CursesSymbols, CursesEvents, CursesStates)
    BY <1>5, <2>1, CursesStepsMove, StreamsClosed DEF CursesStreams
  <2> QED BY <2>2, MoveParts
<1>7. Leads(FlattenSeq(s), FlattenSeq(e), h, h)
  BY <1>5 DEF Leads
<1> QED BY <1>4, <1>6, <1>7

\* One report, in what the user knows of the state.
LEMMA ReportLeads ==
  ASSUME NEW state \in Bstates, NEW col \in Int, NEW ev \in CursesEvents, NEW h, NEW k,
         \A z \in CursesStates : Knows(z, h) => /\ HandedOver(z, state, col) = ev
                                                /\ After(z, state, col) \in CursesStates
                                                /\ Knows(After(z, state, col), k)
  PROVE  /\ Leads(CursesReport(state, col), <<ev>>, h, k)
         /\ CursesReport(state, col) \in Seq(CursesSymbols) /\ <<ev>> \in Seq(CursesEvents)
<1> DEFINE x == [bstate |-> state, x |-> col]
           s == <<x>>
           e == <<ev>>
<1>1. CursesReport(state, col) = s
  BY DEF CursesReport
<1>2. x \in CursesSymbols
  BY ReportSymbol
<1>3. s \in Seq(CursesSymbols) /\ e \in Seq(CursesEvents)
  <2> HIDE DEF x
  <2> QED BY <1>2
<1>4. ASSUME NEW z \in CursesStates, Knows(z, h)
      PROVE  \E y \in CursesStates : Knows(y, k) /\ <<s, e, z, y>> \in CursesStreams
  <2> DEFINE y == After(z, state, col)
  <2>1. HandedOver(z, state, col) = ev /\ y \in CursesStates /\ Knows(y, k)
    BY <1>4
  <2>2. CursesReportStep(<<s, e, z, y>>)
    <3> DEFINE m == <<s, e, z, y>>
    <3>1. m[1] = s /\ m[2] = e /\ m[3] = z /\ m[4] = y
      OBVIOUS
    <3> HIDE DEF m
    <3>2. m[1] = <<[bstate |-> state, x |-> col]>> /\ m[2] = <<HandedOver(m[3], state, col)>>
          /\ m[4] = After(m[3], state, col)
      BY <2>1, <3>1
    <3>3. CursesReportStep(m)
      BY <3>2 DEF CursesReportStep
    <3> QED BY <3>3 DEF m
  <2> HIDE DEF y, s, e
  <2>3. <<s, e, z, y>> \in CursesStreams
    BY <1>3, <2>1, <2>2, OneStep
  <2> QED BY <2>1, <2>3
<1>5. Leads(s, e, h, k)
  <2> HIDE DEF s, e
  <2> QED BY <1>4 DEF Leads
<1> QED BY <1>1, <1>3, <1>5

\* What one report makes of what the user knows.
Handled(h, k, state, col) ==
  /\ k.seen = col
  /\ IF {"released", "clicked", "dblclick"} \cap state # {} THEN ~k.down
     ELSE IF "pressed" \in state THEN k.down /\ k.still /\ k.at = col
     ELSE /\ k.down = h.down
          /\ h.down => k.at = h.at /\ (k.still <=> h.still /\ col = h.at)

Clicks(h, state, col) == "released" \in state /\ h.down /\ h.still /\ col = h.at

LEMMA ReportKnown ==
  ASSUME NEW state \in Bstates, ~({"pressed", "released"} \subseteq state),
         NEW col \in Int, NEW h \in Hands, NEW k \in Hands, Handled(h, k, state, col),
         "released" \in state => h.down,
         NEW z \in CursesStates, Knows(z, h)
  PROVE  /\ HandedOver(z, state, col) =
              Pointer(state \cup (IF Clicks(h, state, col) THEN {"clicked"} ELSE {})
                        \cup (IF col # h.seen THEN {"moved"} ELSE {}), col)
         /\ After(z, state, col) \in CursesStates
         /\ Knows(After(z, state, col), k)
<1> DEFINE y == After(z, state, col)
           b == y.button
           ends == {"released", "clicked", "dblclick"} \cap state # {}
<1>1. /\ HandedOver(z, state, col) =
              Pointer(state \cup Moved(col, z.last)
                        \cup (IF ClickOf(z, state, col) THEN {"clicked"} ELSE {}), col)
      /\ y \in CursesStates /\ y.last = col
      /\ ends => b.down = FALSE
      /\ ~ends => ButtonLeft(z, state, col, b)
  BY ReportHandedOver
<1>2. /\ z.last = h.seen
      /\ h.down => /\ h.still <=> z.button.down /\ ~z.button.dragged
                   /\ h.still => z.button.at = h.at /\ h.seen = h.at
      /\ z.button \in Buttons
  BY DEF Knows, CursesStates
<1>3. ClickOf(z, state, col) <=> Clicks(h, state, col)
  <2>1. CASE "released" \in state
    <3>1. /\ h.down /\ "pressed" \notin state /\ z.last = h.seen
          /\ h.still <=> z.button.down /\ ~z.button.dragged
          /\ h.still => z.button.at = h.at /\ h.seen = h.at
      BY <1>2, <2>1
    <3> QED BY <2>1, <3>1 DEF ClickOf, Clicks
  <2>2. CASE "released" \notin state
    BY <2>2 DEF ClickOf, Clicks
  <2> QED BY <2>1, <2>2
<1>4. Moved(col, z.last) = IF col # h.seen THEN {"moved"} ELSE {}
  BY <1>2 DEF Moved
<1>5. HandedOver(z, state, col) =
        Pointer(state \cup (IF Clicks(h, state, col) THEN {"clicked"} ELSE {})
                  \cup (IF col # h.seen THEN {"moved"} ELSE {}), col)
  <2> DEFINE p == IF Clicks(h, state, col) THEN {"clicked"} ELSE {}
             m == IF col # h.seen THEN {"moved"} ELSE {}
  <2>1. HandedOver(z, state, col) = Pointer(state \cup m \cup p, col)
    BY <1>1, <1>3, <1>4
  <2> HIDE DEF p, m
  <2>2. state \cup m \cup p = state \cup p \cup m
    OBVIOUS
  <2> QED BY <2>1, <2>2 DEF p, m
<1>6. k.seen = col
  BY DEF Handled
<1>7. Knows(y, k)
  <2> HIDE DEF y
  <2>1. CASE ends
    <3>1. ~k.down /\ b.down = FALSE
      BY <1>1, <2>1 DEF Handled
    <3> QED BY <1>1, <1>6, <3>1 DEF Knows, Hands
  <2>2. CASE ~ends /\ "pressed" \in state
    <3>1. k.down /\ k.still /\ k.at = col
      BY <2>2 DEF Handled
    <3>2. b = [down |-> TRUE, dragged |-> FALSE, at |-> col]
      BY <1>1, <2>2 DEF ButtonLeft
    <3> QED BY <1>1, <1>6, <3>1, <3>2 DEF Knows, Hands
  <2>3. CASE ~ends /\ "pressed" \notin state
    <3>1. /\ k.down = h.down
          /\ h.down => k.at = h.at /\ (k.still <=> h.still /\ col = h.at)
      BY <2>3 DEF Handled
    <3>2. /\ b.down = z.button.down /\ b.at = z.button.at
          /\ b.dragged <=> z.button.dragged \/ (z.button.down /\ (col # z.last \/ col # z.button.at))
      BY <1>1, <2>3 DEF ButtonLeft
    <3> QED BY <1>1, <1>2, <1>6, <3>1, <3>2 DEF Knows, Hands
  <2> QED BY <2>1, <2>2, <2>3
<1> QED BY <1>1, <1>5, <1>7

LEMMA CursesPoint ==
  ASSUME CursesInv, NEW state \in Bstates, "released" \in state => hand.down,
         ~({"pressed", "released"} \subseteq state), NEW col \in Columns, NEW flags,
         flags = state \cup (IF Clicks(Resynced, state, col) THEN {"clicked"} ELSE {}),
         Point(CursesReport(state, col), flags, col), hand' \in Hands,
         Handled(Resynced, hand', state, col)
  PROVE  CursesInv'
<1> DEFINE ev == Pointer(flags \cup (IF col # Resynced.seen THEN {"moved"} ELSE {}), col)
           s == CursesReport(state, col)
<1>1. Send(s, <<ev>>)
  BY DEF Point
<1>2. /\ col \in Int /\ Resynced \in Hands
      /\ "released" \in state => Resynced.down
  BY InputAssumption, ResyncedHand
<1>3. ev \in CursesEvents
  <2> DEFINE all == flags \cup (IF col # Resynced.seen THEN {"moved"} ELSE {})
  <2>1. "clicked" \in PointerFlags /\ "moved" \in PointerFlags
    BY DEF PointerFlags
  <2>2. \A x \in all : x \in state \/ x = "clicked" \/ x = "moved"
    OBVIOUS
  <2>3. all \in SUBSET PointerFlags
    <3> HIDE DEF all
    <3> QED BY <2>1, <2>2 DEF Bstates
  <2> HIDE DEF all
  <2>4. Pointer(all, col) \in CursesPointers
    BY <1>2, <2>3 DEF CursesPointers
  <2>5. Pointer(all, col) \in CursesEvents
    BY <2>4 DEF CursesEvents
  <2> QED BY <2>5 DEF all
<1>4. \A z \in CursesStates : Knows(z, Resynced) => /\ HandedOver(z, state, col) = ev
                                                /\ After(z, state, col) \in CursesStates
                                                /\ Knows(After(z, state, col), hand')
  <2> SUFFICES ASSUME NEW z \in CursesStates, Knows(z, Resynced)
               PROVE  /\ HandedOver(z, state, col) = ev
                      /\ After(z, state, col) \in CursesStates
                      /\ Knows(After(z, state, col), hand')
    OBVIOUS
  <2> HIDE DEF ev
  <2>1. /\ HandedOver(z, state, col) =
              Pointer(state \cup (IF Clicks(Resynced, state, col) THEN {"clicked"} ELSE {})
                        \cup (IF col # Resynced.seen THEN {"moved"} ELSE {}), col)
        /\ After(z, state, col) \in CursesStates
        /\ Knows(After(z, state, col), hand')
    BY <1>2, ReportKnown
  <2> QED BY <2>1 DEF ev
<1> HIDE DEF ev
<1>5. /\ Leads(s, <<ev>>, Resynced, hand')
      /\ s \in Seq(CursesSymbols) /\ <<ev>> \in Seq(CursesEvents)
  BY <1>2, <1>3, <1>4, ReportLeads
<1> DEFINE e == <<ev>>
<1>6. Send(s, e) /\ Leads(s, e, Resynced, hand') /\ s \in Seq(CursesSymbols) /\ e \in Seq(CursesEvents)
  BY <1>1, <1>5
<1> HIDE DEF s, e
<1> QED BY <1>6, CursesSent

\* What the user does on a terminal of the curses backend.
\* The pointer passes.
LEMMA PassedHand ==
  ASSUME CursesInv, NEW col \in Columns
  PROVE  /\ Passed(col) \in Hands
         /\ \A state : /\ {"released", "clicked", "dblclick"} \cap state = {} \/ ~hand.down
                       /\ "pressed" \notin state
                       => Handled(Resynced, Passed(col), state, col)
<1> DEFINE still == Resynced.still /\ col = Resynced.at
           h == Resynced
           k == Passed(col)
<1>1. k = [h EXCEPT !.still = still, !.seen = col] /\ (still <=> h.still /\ col = h.at)
  BY DEF Passed
<1>2. h \in Hands /\ h.down = hand.down /\ col \in Int
  BY ResyncedHand, InputAssumption
<1>3. still \in BOOLEAN
  OBVIOUS
<1> HIDE DEF still, k, h
<1>4. k \in Hands /\ k.down = h.down /\ k.at = h.at /\ k.still = still /\ k.seen = col
  BY <1>1, <1>2, <1>3 DEF Hands
<1>5. ASSUME NEW state, "pressed" \notin state,
             {"released", "clicked", "dblclick"} \cap state = {} \/ ~hand.down
      PROVE  Handled(h, k, state, col)
  BY <1>1, <1>2, <1>4, <1>5 DEF Handled
<1> QED BY <1>4, <1>5 DEF h, k

LEMMA CursesUserKeeps ==
  ASSUME CursesInv, backend = "curses", Able \in Features, User
  PROVE  CursesInv'
<1> Resynced \in Hands /\ Resynced.down = hand.down
  BY ResyncedHand
<1>1. CASE Type
  <2>1. PICK keys \in Inputs[<<"curses", Able>>] :
          Send(FlattenSeq([i \in DOMAIN keys |-> keys[i].sends]),
               FlattenSeq([i \in DOMAIN keys |-> keys[i].means]))
    BY <1>1 DEF Type
  <2> DEFINE s == FlattenSeq([i \in DOMAIN keys |-> keys[i].sends])
             e == FlattenSeq([i \in DOMAIN keys |-> keys[i].means])
  <2>2. Send(s, e) /\ Leads(s, e, Resynced, Resynced) /\ s \in Seq(CursesSymbols) /\ e \in Seq(CursesEvents)
    BY <2>1, CursesKeysLead
  <2> HIDE DEF s, e
  <2>3. hand' = Resynced
    BY <1>1 DEF Type
  <2> QED BY <2>2, <2>3, CursesSent
<1>2. ASSUME NEW col \in Columns, Push(col) PROVE CursesInv'
  <2> DEFINE state == {"pressed"}
  <2>1. state \in Bstates /\ "released" \notin state
    BY DEF PointerFlags, Bstates
  <2>2. Point(CursesReport(state, col), state, col)
    BY <1>2 DEF Push
  <2>3. hand' \in Hands /\ Handled(Resynced, hand', state, col)
    BY <1>2, InputAssumption DEF Push, Hands, Handled
  <2> HIDE DEF state
  <2>4. state = state \cup (IF Clicks(Resynced, state, col) THEN {"clicked"} ELSE {})
    BY <2>1 DEF Clicks
  <2> QED BY <2>1, <2>2, <2>3, <2>4, CursesPoint
<1>3. ASSUME NEW col \in Columns, Move(col) PROVE CursesInv'
  <2> DEFINE state == {}
  <2>1. state \in Bstates /\ "released" \notin state /\ "pressed" \notin state
        /\ {"released", "clicked", "dblclick"} \cap state = {}
    BY DEF Bstates
  <2>2. Point(CursesReport(state, col), state, col) /\ hand' = Passed(col)
    BY <1>3 DEF Move
  <2> HIDE DEF state
  <2>3. hand' \in Hands /\ Handled(Resynced, hand', state, col)
    BY <2>1, <2>2, PassedHand
  <2>4. state = state \cup (IF Clicks(Resynced, state, col) THEN {"clicked"} ELSE {})
    BY <2>1 DEF Clicks
  <2> QED BY <2>1, <2>2, <2>3, <2>4, CursesPoint
<1>4. ASSUME NEW col \in Columns, LetGo(col) PROVE CursesInv'
  <2> DEFINE state == {"released"}
             flags == state \cup (IF Clicks(Resynced, state, col) THEN {"clicked"} ELSE {})
  <2>1. state \in Bstates /\ "pressed" \notin state
    BY DEF PointerFlags, Bstates
  <2>2. Clicks(Resynced, state, col) <=> Resynced.still /\ col = Resynced.at
    BY <1>4 DEF LetGo, Clicks
  <2>3. Point(CursesReport(state, col), flags, col)
    BY <1>4, <2>2 DEF LetGo
  <2>4. hand' \in Hands /\ Handled(Resynced, hand', state, col)
    BY <1>4, InputAssumption DEF LetGo, Hands, Handled
  <2>5. hand.down
    BY <1>4 DEF LetGo
  <2> HIDE DEF state
  <2> QED BY <2>1, <2>3, <2>4, <2>5, CursesPoint
<1>5. ASSUME NEW col \in Columns, Tap(col) PROVE CursesInv'
  <2>1. PICK state \in {{"clicked"}, {"dblclick"}} : Point(CursesReport(state, col), state, col)
    BY <1>5 DEF Tap
  <2>2. state \in Bstates /\ "pressed" \notin state
        /\ "released" \notin state
    BY DEF PointerFlags, Bstates
  <2>3. ~hand.down /\ hand' = Passed(col)
    BY <1>5 DEF Tap
  <2>4. hand' \in Hands /\ Handled(Resynced, hand', state, col)
    BY <2>2, <2>3, PassedHand
  <2>5. state = state \cup (IF Clicks(Resynced, state, col) THEN {"clicked"} ELSE {})
    BY <2>2 DEF Clicks
  <2> QED BY <2>1, <2>2, <2>4, <2>5, CursesPoint
<1>6. ASSUME NEW col \in Columns, Other(col) PROVE CursesInv'
  <2>1. PICK o \in OtherButtons : Point(CursesReport(o.state, col), o.state, col)
    BY <1>6 DEF Other
  <2> DEFINE state == o.state
  <2>2. state \in {{"scroll_down"}, {"right_pressed"}}
    BY DEF OtherButtons
  <2>3. Point(CursesReport(state, col), state, col)
    BY <2>1
  <2> HIDE DEF state
  <2>4. /\ state \in Bstates /\ "released" \notin state
        /\ "pressed" \notin state /\ {"released", "clicked", "dblclick"} \cap state = {}
    BY <2>2 DEF PointerFlags, Bstates
  <2>5. hand' = Passed(col)
    BY <1>6 DEF Other
  <2>6. hand' \in Hands /\ Handled(Resynced, hand', state, col)
    BY <2>4, <2>5, PassedHand
  <2>7. state = state \cup (IF Clicks(Resynced, state, col) THEN {"clicked"} ELSE {})
    BY <2>4 DEF Clicks
  <2> QED BY <2>3, <2>4, <2>6, <2>7, CursesPoint
<1>7. ASSUME NEW z \in Sizes, Resize(z) PROVE CursesInv'
  <2> DEFINE x == [resize |-> TRUE]
             s == <<x>>
  <2>1. /\ UNCHANGED <<dec, button, hand, expected, cut>>
        /\ wire' = wire \o s
    <3>1. UNCHANGED <<dec, button, hand, expected, cut>> /\ wire' = Append(wire, x)
      BY <1>7 DEF Resize, user
    <3>2. x \in CursesSymbols
      BY DEF CursesSymbols
    <3> HIDE DEF x
    <3>3. Append(wire, x) = wire \o <<x>>
      BY <3>2, AppendIsConcat DEF CursesInv
    <3> QED BY <3>1, <3>3
  <2>2. s \in Seq(CursesSymbols)
    <3>1. x \in CursesSymbols
      BY DEF CursesSymbols
    <3> HIDE DEF x
    <3> QED BY <3>1
  <2>3. \A a : CursesKeyStep(<<s, <<>>, a, a>>)
    BY DEF CursesKeyStep
  <2> HIDE DEF s
  <2>4. <<>> \in Seq(CursesEvents)
    OBVIOUS
  <2>5. Leads(s, <<>>, hand, hand)
    BY <2>2, <2>3, <2>4, OneStep DEF Leads
  <2>6. ~cut => CursesFlows(wire \o s, expected \o <<>>, dec.last, button, hand)
    BY <2>5, CursesFlowsOn DEF CursesInv
  <2>7. expected \o <<>> = expected /\ wire \o s \in Seq(CursesSymbols)
    BY <2>2, ConcatEmptySeq DEF CursesInv
  <2> QED BY <2>1, <2>6, <2>7 DEF CursesInv
<1>8. CASE Signal \/ HangUp
  BY <1>8 DEF Signal, HangUp, user, CursesInv
<1> QED BY <1>1, <1>2, <1>3, <1>4, <1>5, <1>6, <1>7, <1>8 DEF User

\* What a symbol of curses is handed over as.
LEMMA SymbolFields ==
  ASSUME NEW b, NEW name, NEW s, NEW c
  PROVE  /\ DOMAIN [char |-> b] = {"char"} /\ [char |-> b].char = b
         /\ DOMAIN [key |-> name] = {"key"} /\ [key |-> name].key = name
         /\ DOMAIN [bstate |-> s, x |-> c] = {"bstate", "x"}
         /\ [bstate |-> s, x |-> c].bstate = s /\ [bstate |-> s, x |-> c].x = c
         /\ DOMAIN [resize |-> TRUE] = {"resize"}
OBVIOUS

\* A key is handed over.
LEMMA CursesKeyDelivered ==
  ASSUME CursesInv, ~cut, wire # <<>>, wire' = Tail(wire), UNCHANGED dec,
         NEW ev \in CursesEvents, ev.kind # "mouse", Deliver(ev, FALSE),
         NEW f \in Seq(CursesEvents), expected = <<ev>> \o f,
         CursesFlows(Tail(wire), f, dec.last, button, hand)
  PROVE  CursesInv' /\ expected # <<>> /\ result'.event = Head(expected)
<1>1. expected # <<>> /\ Head(expected) = ev /\ Tail(expected) = f
  BY ConsParts
<1>2. ~Lost
  BY DEF Lost
<1>3. /\ result'.event = ev /\ button' = button /\ hand' = hand
      /\ cut' = FALSE /\ expected' = f
  BY <1>1, <1>2 DEF Deliver
<1>4. wire' \in Seq(CursesSymbols) /\ f \in Seq(CursesEvents)
  BY DEF CursesInv
<1> QED BY <1>1, <1>3, <1>4 DEF CursesInv

\* A report is handed over.
LEMMA CursesReportDelivered ==
  ASSUME CursesInv, ~cut, wire # <<>>, wire' = Tail(wire),
         NEW state, NEW col, dec' = [dec EXCEPT !.last = col], col \in Int,
         Deliver(CursesMouse([bstate |-> state, x |-> col], dec.last), FALSE),
         NEW a \in CursesStates, a = [last |-> dec.last, button |-> button],
         NEW f \in Seq(CursesEvents), expected = <<HandedOver(a, state, col)>> \o f,
         HandedOver(a, state, col) \in CursesEvents,
         After(a, state, col) \in CursesStates,
         CursesFlows(Tail(wire), f, col, After(a, state, col).button, hand)
  PROVE  CursesInv' /\ expected # <<>> /\ result'.event = Head(expected)
<1> DEFINE ev == HandedOver(a, state, col)
           raw == CursesMouse([bstate |-> state, x |-> col], dec.last)
           tracked == Tracked(button, raw)
<1>1. expected # <<>> /\ Head(expected) = ev /\ Tail(expected) = f
  BY ConsParts
<1>2. ~Lost
  BY DEF Lost
<1>3. a.last = dec.last /\ a.button = button
  OBVIOUS
<1>4. Reported(a, state, col) = raw /\ raw.kind = "mouse"
  BY <1>3 DEF Reported, CursesMouse, Pointer
<1>5. ev = Activated(tracked, raw)
  BY <1>3, <1>4 DEF HandedOver
<1>6. After(a, state, col).button = Settled(tracked, ev)
  BY <1>3, <1>4 DEF After
<1>7. /\ result'.event = ev /\ button' = Settled(tracked, ev) /\ hand' = hand
      /\ cut' = FALSE /\ expected' = f
  <2>1. Deliver(raw, FALSE)
    OBVIOUS
  <2> HIDE DEF ev, raw
  <2>2. /\ result' = [kind |-> "event", event |-> Activated(tracked, raw)]
        /\ button' = Settled(tracked, Activated(tracked, raw)) /\ hand' = hand
    BY <1>4, <2>1 DEF Deliver
  <2>3. cut' = FALSE /\ expected' = f
    BY <1>1, <1>2, <2>1 DEF Deliver
  <2> HIDE DEF tracked
  <2> QED BY <1>5, <2>2, <2>3
<1> HIDE DEF ev, raw
<1> HIDE DEF tracked
<1>8. button' = After(a, state, col).button
  BY <1>6, <1>7
<1>9. dec' \in Decoders /\ dec'.last = col
  BY DEF CursesInv, Decoders
<1>11. [last |-> dec'.last, button |-> button'] = After(a, state, col)
  <2>1. After(a, state, col).last = col
    BY DEF After
  <2>2. \A y \in CursesStates : [last |-> y.last, button |-> y.button] = y
    BY DEF CursesStates
  <2> QED BY <1>8, <1>9, <2>1, <2>2
<1>10. wire' \in Seq(CursesSymbols)
  BY DEF CursesInv
<1> QED BY <1>1, <1>7, <1>8, <1>9, <1>10, <1>11 DEF CursesInv

\* The first symbol and what it means.
FirstMeans(x, w, evs, last, b, h) ==
  \/ \E byte \in 0..255, f \in Seq(CursesEvents) :
       x = [char |-> byte] /\ evs = <<Char(byte)>> \o f /\ CursesFlows(w, f, last, b, h)
  \/ \E name \in STRING, f \in Seq(CursesEvents) :
       x = [key |-> name] /\ evs = <<CursesKey(name)>> \o f /\ CursesFlows(w, f, last, b, h)
  \/ x = [resize |-> TRUE] /\ CursesFlows(w, evs, last, b, h)
  \/ \E state \in Bstates, col \in Int, f \in Seq(CursesEvents) :
       LET a == [last |-> last, button |-> b]
       IN  /\ x = [bstate |-> state, x |-> col]
           /\ evs = <<HandedOver(a, state, col)>> \o f /\ HandedOver(a, state, col) \in CursesEvents
           /\ After(a, state, col) \in CursesStates
           /\ CursesFlows(w, f, col, After(a, state, col).button, h)

LEMMA OneSymbol ==
  ASSUME NEW S, NEW x \in S, NEW t \in Seq(S), NEW w \in Seq(S), w = <<x>> \o t
  PROVE  Head(w) = x /\ Tail(w) = t
OBVIOUS

LEMMA CursesFirst ==
  ASSUME NEW w \in Seq(CursesSymbols), w # <<>>, NEW evs, NEW last, NEW b, NEW h,
         CursesFlows(w, evs, last, b, h)
  PROVE  FirstMeans(Head(w), Tail(w), evs, last, b, h)
<1> DEFINE a == [last |-> last, button |-> b]
           P == CursesStreams
<1>1. PICK z \in CursesStates : Knows(z, h) /\ <<w, evs, a, z>> \in P
  BY DEF CursesFlows
<1>2. a.last = last /\ a.button = b
  OBVIOUS
<1> HIDE DEF a
<1>3. Begins(w, evs, a, z, CursesSteps, P)
  BY <1>1, CursesStepsMove, StreamFirst DEF CursesStreams
<1>4. PICK s1, e1, c, t, f : /\ <<s1, e1, a, c>> \in CursesSteps /\ <<t, f, c, z>> \in P
                             /\ w = s1 \o t /\ evs = e1 \o f
  BY <1>3 DEF Begins
<1>5. t \in Seq(CursesSymbols) /\ f \in Seq(CursesEvents) /\ c \in CursesStates
  <2>1. <<t, f, c, z>> \in Moves(CursesSymbols, CursesEvents, CursesStates)
    BY <1>4, CursesStepsMove, StreamsClosed DEF CursesStreams
  <2> QED BY <2>1, MoveParts
<1>6. s1 \in Seq(CursesSymbols) /\ e1 \in Seq(CursesEvents)
  <2>1. <<s1, e1, a, c>> \in Moves(CursesSymbols, CursesEvents, CursesStates)
    BY <1>4, CursesStepsMove
  <2> QED BY <2>1, MoveParts
<1>7. CursesFlows(t, f, c.last, c.button, h)
  <2>1. [last |-> c.last, button |-> c.button] = c
    BY <1>5 DEF CursesStates
  <2> QED BY <1>1, <1>4, <2>1 DEF CursesFlows
<1> DEFINE m == <<s1, e1, a, c>>
<1>8. m[1] = s1 /\ m[2] = e1 /\ m[3] = a /\ m[4] = c
  OBVIOUS
<1>9. CursesKeyStep(m) \/ CursesReportStep(m)
  BY <1>4 DEF CursesSteps
<1> HIDE DEF m, P
<1>10. ASSUME NEW x, s1 = <<x>> PROVE Head(w) = x /\ Tail(w) = t
  <2>1. x \in CursesSymbols
    BY <1>6, <1>10, ElementOfSeq
  <2> QED BY <1>4, <1>5, <1>10, <2>1, OneSymbol
<1>11. CASE CursesKeyStep(m)
  <2>1. c.last = last /\ c.button = b
    BY <1>2, <1>8, <1>11 DEF CursesKeyStep
  <2>2. CASE \E byte \in 0..255 : m[1] = <<[char |-> byte]>> /\ m[2] = <<Char(byte)>>
    <3>1. PICK byte \in 0..255 : m[1] = <<[char |-> byte]>> /\ m[2] = <<Char(byte)>>
      BY <2>2
    <3>2. Head(w) = [char |-> byte] /\ Tail(w) = t
      BY <1>8, <1>10, <3>1
    <3> QED BY <1>4, <1>5, <1>7, <1>8, <2>1, <3>1, <3>2 DEF FirstMeans
  <2>3. CASE \E name \in STRING : m[1] = <<[key |-> name]>> /\ m[2] = <<CursesKey(name)>>
    <3>1. PICK name \in STRING : m[1] = <<[key |-> name]>> /\ m[2] = <<CursesKey(name)>>
      BY <2>3
    <3>2. Head(w) = [key |-> name] /\ Tail(w) = t
      BY <1>8, <1>10, <3>1
    <3> QED BY <1>4, <1>5, <1>7, <1>8, <2>1, <3>1, <3>2 DEF FirstMeans
  <2>4. CASE m[1] = <<[resize |-> TRUE]>> /\ m[2] = <<>>
    <3>1. Head(w) = [resize |-> TRUE] /\ Tail(w) = t
      BY <1>8, <1>10, <2>4
    <3>2. evs = f
      BY <1>4, <1>5, <1>8, <2>4, ConcatEmptySeq
    <3> QED BY <1>7, <2>1, <3>1, <3>2 DEF FirstMeans
  <2> QED BY <1>11, <2>2, <2>3, <2>4 DEF CursesKeyStep
<1>12. CASE CursesReportStep(m)
  <2>1. PICK state \in Bstates, col \in Int :
          /\ m[1] = <<[bstate |-> state, x |-> col]>> /\ m[2] = <<HandedOver(m[3], state, col)>>
          /\ m[4] = After(m[3], state, col)
    BY <1>12 DEF CursesReportStep
  <2> DEFINE ev == HandedOver(a, state, col)
             y == After(a, state, col)
  <2>2. Head(w) = [bstate |-> state, x |-> col] /\ Tail(w) = t
    BY <1>8, <1>10, <2>1
  <2>3. e1 = <<ev>> /\ c = y
    BY <1>8, <2>1
  <2>4. y.last = col
    BY DEF After
  <2> HIDE DEF ev, y
  <2>5. ev \in CursesEvents
    BY <1>6, <2>3, ElementOfSeq
  <2>6. evs = <<ev>> \o f /\ y \in CursesStates /\ CursesFlows(t, f, col, y.button, h)
    BY <1>4, <1>5, <1>7, <2>3, <2>4
  <2> QED BY <1>5, <2>2, <2>5, <2>6 DEF FirstMeans, ev, y, a
<1> QED BY <1>9, <1>11, <1>12

\* While lost reports are made good, whatever comes is handed over.
LEMMA CursesLostKept ==
  ASSUME CursesInv, cut, wire # <<>>, PollCurses
  PROVE  CursesInv' /\ (cut' \/ result'.event.kind = "resize")
<1> DEFINE raw == Head(wire)
<1>1. raw \in CursesSymbols /\ Tail(wire) \in Seq(CursesSymbols)
  BY DEF CursesInv
<1>2. /\ wire' = Tail(wire)
      /\ \/ "resize" \in DOMAIN raw /\ EmitResize /\ UNCHANGED dec
         \/ "char" \in DOMAIN raw /\ Deliver(Char(raw.char), FALSE) /\ UNCHANGED <<dec, known>>
         \/ "key" \in DOMAIN raw /\ Deliver(CursesKey(raw.key), FALSE) /\ UNCHANGED <<dec, known>>
         \/ /\ "bstate" \in DOMAIN raw
            /\ Deliver(CursesMouse(raw, dec.last), FALSE)
            /\ dec' = [dec EXCEPT !.last = raw.x]
            /\ UNCHANGED known
         \/ LoseReport
  BY DEF PollCurses
<1>3. Lost
  BY DEF Lost
<1> HIDE DEF raw
<1>4. CASE "resize" \in DOMAIN raw /\ EmitResize /\ UNCHANGED dec
  BY <1>1, <1>2, <1>4 DEF EmitResize, user, CursesInv
<1>5. ASSUME NEW ev, Deliver(ev, FALSE), ev.kind # "mouse", UNCHANGED dec
      PROVE  CursesInv' /\ cut'
  <2>1. button' = button /\ cut' = TRUE /\ expected' = <<>> /\ hand' = hand
    BY <1>3, <1>5 DEF Deliver
  <2> QED BY <1>1, <1>2, <1>5, <2>1, EmptySeq DEF CursesInv
<1>6. CASE "char" \in DOMAIN raw /\ Deliver(Char(raw.char), FALSE) /\ UNCHANGED <<dec, known>>
  <2>1. Char(raw.char).kind # "mouse"
    BY DEF Char
  <2> QED BY <1>5, <1>6, <2>1
<1>7. CASE "key" \in DOMAIN raw /\ Deliver(CursesKey(raw.key), FALSE) /\ UNCHANGED <<dec, known>>
  <2>1. CursesKey(raw.key).kind # "mouse"
    BY DEF CursesKey, Key
  <2> QED BY <1>5, <1>7, <2>1
<1>8. CASE /\ "bstate" \in DOMAIN raw
           /\ Deliver(CursesMouse(raw, dec.last), FALSE)
           /\ dec' = [dec EXCEPT !.last = raw.x]
  <2>1. PICK state \in Bstates, col \in Int : raw = [bstate |-> state, x |-> col]
    <3>1. /\ \A byte : DOMAIN [char |-> byte] = {"char"}
          /\ \A name : DOMAIN [key |-> name] = {"key"}
          /\ DOMAIN [resize |-> TRUE] = {"resize"}
      BY SymbolFields
    <3>2. raw \in CursesReports
      BY <1>1, <1>8, <3>1 DEF CursesSymbols
    <3> QED BY <3>2 DEF CursesReports
  <2> DEFINE a  == [last |-> dec.last, button |-> button]
             ev == CursesMouse([bstate |-> state, x |-> col], dec.last)
             tracked == Tracked(button, ev)
  <2>2. a \in CursesStates
    BY DEF CursesInv
  <2>3. a.last = dec.last /\ a.button = button
    OBVIOUS
  <2> HIDE DEF a
  <2>4. Reported(a, state, col) = ev /\ ev.kind = "mouse"
    BY <2>3 DEF Reported, CursesMouse, Pointer
  <2>5. After(a, state, col).button = Settled(tracked, Activated(tracked, ev))
    BY <2>3, <2>4 DEF After, HandedOver
  <2>6. Deliver(ev, FALSE) /\ raw.x = col
    BY <1>8, <2>1, SymbolFields
  <2> HIDE DEF ev
  <2>7. /\ button' = Settled(tracked, Activated(tracked, ev)) /\ hand' = hand
        /\ cut' = TRUE /\ expected' = <<>>
    BY <1>3, <2>4, <2>6 DEF Deliver
  <2> HIDE DEF tracked
  <2>8. dec' \in Decoders /\ dec'.last = col
    BY <1>8, <2>6 DEF CursesInv, Decoders
  <2>9. After(a, state, col) \in CursesStates /\ After(a, state, col).last = col
    BY <2>2, ReportHandedOver
  <2>10. [last |-> dec'.last, button |-> button'] = After(a, state, col)
    <3>1. \A y \in CursesStates : [last |-> y.last, button |-> y.button] = y
      BY DEF CursesStates
    <3> QED BY <2>5, <2>7, <2>8, <2>9, <3>1
  <2> QED BY <1>1, <1>2, <2>7, <2>8, <2>9, <2>10, EmptySeq DEF CursesInv
<1>9. CASE LoseReport
  BY <1>1, <1>2, <1>9, EmptySeq DEF LoseReport, CursesInv
<1> QED BY <1>2, <1>4, <1>6, <1>7, <1>8, <1>9

\* platform_poll_curses_result and platform_poll_event_curses.
LEMMA CursesPollKeeps ==
  ASSUME CursesInv, PollCurses
  PROVE  /\ CursesInv'
         /\ \/ result'.event.kind \in {"none", "resize"} \/ cut'
            \/ expected # <<>> /\ result'.event = Head(expected)
<1>1. /\ wire \in Seq(CursesSymbols) /\ expected \in Seq(CursesEvents)
      /\ [last |-> dec.last, button |-> button] \in CursesStates
      /\ dec \in Decoders /\ (~cut => CursesFlows(wire, expected, dec.last, button, hand))
  BY DEF CursesInv
<1>2. CASE wire = <<>>
  <2>1. /\ \E kind \in {"closed", "timeout", "error"} : Returns(kind)
        /\ UNCHANGED <<wire, dec, known>>
    BY <1>2 DEF PollCurses, Quiet
  <2>2. CursesInv'
    BY <2>1 DEF Returns, user, CursesInv
  <2>3. result'.event.kind = "none"
    BY <2>1 DEF Returns, Outcome, NoEvent
  <2> QED BY <2>2, <2>3
<1>4. CASE wire # <<>> /\ cut
  BY <1>4, CursesLostKept
<1>5. CASE wire # <<>> /\ LoseReport
  <2>1. wire' = Tail(wire) /\ Tail(wire) \in Seq(CursesSymbols)
    <3>1. wire' = Tail(wire)
      BY <1>5 DEF PollCurses
    <3>2. Tail(wire) \in Seq(CursesSymbols)
      BY <1>1, <1>5
    <3> QED BY <3>1, <3>2
  <2>2. result'.event.kind = "none"
    BY <1>5 DEF LoseReport, Outcome, NoEvent
  <2> QED BY <1>5, <2>1, <2>2, EmptySeq DEF LoseReport, CursesInv
<1>3. CASE wire # <<>> /\ ~cut /\ ~LoseReport
  <2> DEFINE raw == Head(wire)
             w == Tail(wire)
  <2>1. FirstMeans(raw, w, expected, dec.last, button, hand)
    BY <1>1, <1>3, CursesFirst
  <2>2. /\ wire' = w
        /\ \/ "resize" \in DOMAIN raw /\ EmitResize /\ UNCHANGED dec
           \/ "char" \in DOMAIN raw /\ Deliver(Char(raw.char), FALSE) /\ UNCHANGED <<dec, known>>
           \/ "key" \in DOMAIN raw /\ Deliver(CursesKey(raw.key), FALSE) /\ UNCHANGED <<dec, known>>
           \/ /\ "bstate" \in DOMAIN raw
              /\ Deliver(CursesMouse(raw, dec.last), FALSE)
              /\ dec' = [dec EXCEPT !.last = raw.x]
              /\ UNCHANGED known
    BY <1>3 DEF PollCurses
  <2> HIDE DEF raw
  <2>3. CASE \E byte \in 0..255, f \in Seq(CursesEvents) :
               /\ raw = [char |-> byte] /\ expected = <<Char(byte)>> \o f
               /\ CursesFlows(w, f, dec.last, button, hand)
    <3>1. PICK byte \in 0..255, f \in Seq(CursesEvents) :
            /\ raw = [char |-> byte] /\ expected = <<Char(byte)>> \o f
            /\ CursesFlows(w, f, dec.last, button, hand)
      BY <2>3
    <3>2. DOMAIN raw = {"char"} /\ raw.char = byte
      BY <3>1, SymbolFields
    <3>3. Deliver(Char(byte), FALSE) /\ UNCHANGED dec
      BY <2>2, <3>2
    <3> DEFINE ev == Char(byte)
    <3>4. ev \in CursesEvents /\ ev.kind # "mouse"
      BY CursesBytes DEF Char
    <3> HIDE DEF ev, w
    <3> QED BY <1>3, <2>2, <3>1, <3>3, <3>4, CursesKeyDelivered DEF ev, w
  <2>4. CASE \E name \in STRING, f \in Seq(CursesEvents) :
               /\ raw = [key |-> name] /\ expected = <<CursesKey(name)>> \o f
               /\ CursesFlows(w, f, dec.last, button, hand)
    <3>1. PICK name \in STRING, f \in Seq(CursesEvents) :
            /\ raw = [key |-> name] /\ expected = <<CursesKey(name)>> \o f
            /\ CursesFlows(w, f, dec.last, button, hand)
      BY <2>4
    <3>2. DOMAIN raw = {"key"} /\ raw.key = name
      BY <3>1, SymbolFields
    <3>3. Deliver(CursesKey(name), FALSE) /\ UNCHANGED dec
      BY <2>2, <3>2
    <3> DEFINE ev == CursesKey(name)
    <3>4. ev \in CursesEvents
      BY DEF CursesEvents
    <3>5. ev.kind # "mouse"
      BY DEF CursesKey, Key
    <3> HIDE DEF ev, w
    <3> QED BY <1>3, <2>2, <3>1, <3>3, <3>4, <3>5, CursesKeyDelivered DEF ev, w
  <2>5. CASE raw = [resize |-> TRUE] /\ CursesFlows(w, expected, dec.last, button, hand)
    <3>1. DOMAIN raw = {"resize"}
      BY <2>5, SymbolFields
    <3>2. EmitResize /\ UNCHANGED dec /\ wire' = w
      BY <2>2, <3>1
    <3>3. w \in Seq(CursesSymbols)
      BY <1>1, <1>3
    <3> HIDE DEF w
    <3>4. CursesInv'
      BY <2>5, <3>2, <3>3 DEF EmitResize, user, CursesInv
    <3>5. result'.event.kind = "resize"
      BY <3>2 DEF EmitResize
    <3> QED BY <3>4, <3>5
  <2>6. CASE \E state \in Bstates, col \in Int, f \in Seq(CursesEvents) :
               LET a == [last |-> dec.last, button |-> button]
               IN  /\ raw = [bstate |-> state, x |-> col]
                   /\ expected = <<HandedOver(a, state, col)>> \o f
                   /\ HandedOver(a, state, col) \in CursesEvents
                   /\ After(a, state, col) \in CursesStates
                   /\ CursesFlows(w, f, col, After(a, state, col).button, hand)
    <3> DEFINE a == [last |-> dec.last, button |-> button]
    <3>1. PICK state \in Bstates, col \in Int, f \in Seq(CursesEvents) :
            /\ raw = [bstate |-> state, x |-> col]
            /\ expected = <<HandedOver(a, state, col)>> \o f
            /\ HandedOver(a, state, col) \in CursesEvents
            /\ After(a, state, col) \in CursesStates
            /\ CursesFlows(w, f, col, After(a, state, col).button, hand)
      BY <2>6
    <3>2. DOMAIN raw = {"bstate", "x"} /\ raw.x = col
      BY <3>1, SymbolFields
    <3>3. /\ Deliver(CursesMouse([bstate |-> state, x |-> col], dec.last), FALSE)
          /\ dec' = [dec EXCEPT !.last = col]
      BY <2>2, <3>1, <3>2
    <3>4. a \in CursesStates
      BY <1>1
    <3>5. a = [last |-> dec.last, button |-> button]
      OBVIOUS
    <3>6. wire' = Tail(wire)
      BY <2>2
    <3> HIDE DEF a
    <3> QED BY <1>3, <3>1, <3>3, <3>4, <3>5, <3>6, CursesReportDelivered
  <2> HIDE DEF w
  <2> QED BY <2>1, <2>3, <2>4, <2>5, <2>6 DEF FirstMeans
<1> QED BY <1>2, <1>3, <1>4, <1>5

-----------------------------------------------------------------------------
(***************************************************************************)
(* Once the terminal has been taken over, what the program believes it can *)
(* do is what it can.                                                      *)
(***************************************************************************)
Offers(t, mouse, resizes) ==
  t \in Taken /\ t.plat.mouse = mouse /\ t.plat.resizes = resizes

LEMMA TrackOffers ==
  ASSUME NEW t, NEW r, Offers(t, FALSE, r), NEW on \in BOOLEAN
  PROVE  Offers(TrackMouse(t, on), on, r)
<1> DEFINE mouse == t.plat.mouse \/ on
           u     == [t EXCEPT !.term.tracking = on, !.plat.forced = on, !.plat.mouse = mouse]
<1>1. TrackMouse(t, on) = u
  BY DEF TrackMouse
<1>2. mouse = on
  BY DEF Offers
<1> HIDE DEF mouse
<1>3. u \in Taken /\ u.plat.mouse = on /\ u.plat.resizes = r
  BY <1>2 DEF Offers, Taken, TermStates, PlatStates
<1> HIDE DEF u
<1> QED BY <1>1, <1>3 DEF Offers

LEMMA ResizesOffers ==
  ASSUME NEW t, NEW m, NEW r, Offers(t, m, r), NEW s \in BOOLEAN
  PROVE  Offers([t EXCEPT !.plat.resizes = s], m, s)
BY DEF Offers, Taken, PlatStates

LEMMA HandlersOffer ==
  ASSUME NEW t, NEW m, NEW r, Offers(t, m, r), Safe(t)
  PROVE  Offers(InstallHandlers(t, "none"), m, r)
<1>1. LET u == InstallHandlers(t, "none")
      IN  u \in Taken /\ u.plat.mouse = t.plat.mouse /\ u.plat.resizes = t.plat.resizes
  BY HandlersRemembered
<1> QED BY <1>1 DEF Offers

LEMMA BackendsOffer ==
  ASSUME NEW t, Offers(t, FALSE, FALSE), NEW m \in BOOLEAN, NEW r \in BOOLEAN,
         NEW f, f = [mouse |-> m, resizes |-> r]
  PROVE  Offers(InitRaw(t, "none", f), m, r) /\ Offers(InitCurses(t, "none", f), m, r)
<1>1. f.mouse = m /\ f.resizes = r
  OBVIOUS
<1>2. Offers(EnableRaw(t), FALSE, FALSE)
  BY DEF Offers, EnableRaw, Taken, TermStates, PlatStates
<1>3. Offers(InitRaw(t, "none", f), m, r)
  <2> DEFINE v == EnableRaw(t)
  <2>1. InitRaw(t, "none", f) = TrackMouse([v EXCEPT !.plat.resizes = f.resizes], f.mouse)
    BY DEF InitRaw
  <2> HIDE DEF v
  <2> DEFINE w == [v EXCEPT !.plat.resizes = f.resizes]
  <2>2. Offers(w, FALSE, r)
    BY <1>1, <1>2, ResizesOffers DEF v
  <2>3. InitRaw(t, "none", f) = TrackMouse(w, m)
    BY <1>1, <2>1
  <2> HIDE DEF w
  <2> QED BY <2>2, <2>3, TrackOffers
<1>4. Offers(SaveMode(t), FALSE, FALSE)
  BY DEF Offers, SaveMode, Taken, PlatStates
<1>5. Offers(InitScreen(SaveMode(t)), FALSE, FALSE)
  <2> DEFINE v == SaveMode(t)
  <2>1. Offers(v, FALSE, FALSE)
    BY <1>4
  <2> HIDE DEF v
  <2>2. Offers(InitScreen(v), FALSE, FALSE)
    BY <2>1 DEF Offers, InitScreen, Taken, TermStates, PlatStates
  <2> QED BY <2>2 DEF v
<1>6. Offers(EditorKeys(InitScreen(SaveMode(t))), FALSE, FALSE)
  <2> DEFINE v == InitScreen(SaveMode(t))
  <2>1. Offers(v, FALSE, FALSE)
    BY <1>5
  <2> HIDE DEF v
  <2>2. Offers(EditorKeys(v), FALSE, FALSE)
    BY <2>1 DEF Offers, EditorKeys, Taken, TermStates, PlatStates
  <2> QED BY <2>2 DEF v
<1>7. Offers(InitCurses(t, "none", f), m, r)
  <2> DEFINE v == EditorKeys(InitScreen(SaveMode(t)))
  <2>1. InitCurses(t, "none", f) = TrackMouse([v EXCEPT !.plat.resizes = f.resizes], f.mouse)
    BY DEF InitCurses
  <2>2. Offers(v, FALSE, FALSE)
    BY <1>6
  <2> HIDE DEF v
  <2> DEFINE w == [v EXCEPT !.plat.resizes = f.resizes]
  <2>3. Offers(w, FALSE, r)
    BY <1>1, <2>2, ResizesOffers
  <2>4. InitCurses(t, "none", f) = TrackMouse(w, m)
    BY <1>1, <2>1
  <2> HIDE DEF w
  <2> QED BY <2>3, <2>4, TrackOffers
<1> QED BY <1>3, <1>7

\* platform_create has found out what the terminal can do.
LEMMA FeaturesFound ==
  ASSUME TerminalInv, Create, phase' = "on"
  PROVE  Able' \in Features
<1> DEFINE t0 == [term |-> term, plat |-> plat]
<1>1. PICK fails \in {"none", "mode", "screen", "controls"} \cup Signals, f \in Features :
        /\ \E t1 \in {IF backend = "raw" THEN InitRaw(t0, fails, f) ELSE InitCurses(t0, fails, f)} :
           \E t2 \in {IF fails \in {"none"} \cup Signals THEN InstallHandlers(t1, fails) ELSE t1} :
           \E t3 \in {IF fails \in Signals THEN CloseTerminal(t2) ELSE t2} :
              term' = t3.term /\ plat' = t3.plat
        /\ phase' = IF fails = "none" THEN "on" ELSE "done"
  BY DEF Create
<1>2. fails = "none"
  BY <1>1
<1>3. f.mouse \in BOOLEAN /\ f.resizes \in BOOLEAN /\ f = [mouse |-> f.mouse, resizes |-> f.resizes]
  BY InputAssumption
<1>4. t0.term = ShellTerm /\ t0.plat = NewPlatform
  BY GivenIsLeft, ShellStates DEF Create, TerminalInv
<1>5. Offers(t0, FALSE, FALSE)
  <2>1. NewPlatform.mouse = FALSE /\ NewPlatform.resizes = FALSE
    BY DEF NewPlatform
  <2> QED BY <1>4, <2>1, ShellStates DEF Offers, Taken
<1> DEFINE t1 == IF backend = "raw" THEN InitRaw(t0, "none", f) ELSE InitCurses(t0, "none", f)
           t2 == InstallHandlers(t1, "none")
<1>6. plat' = t2.plat
  <2>1. "none" \notin Signals
    BY DEF Signals
  <2> HIDE DEF t0
  <2> QED BY <1>1, <1>2, <2>1
<1>10. Safe(t0)
  BY <1>4, FoundSafe
<1> HIDE DEF t0
<1>7. Offers(t1, f.mouse, f.resizes) /\ Safe(t1)
  BY <1>3, <1>5, <1>10, BackendsOffer, BackendsSafe
<1> HIDE DEF t1
<1>8. Offers(t2, f.mouse, f.resizes)
  BY <1>7, HandlersOffer
<1> HIDE DEF t2
<1>9. Able' = f
  BY <1>3, <1>6, <1>8 DEF Offers, Able
<1> QED BY <1>9

-----------------------------------------------------------------------------
(***************************************************************************)
(* The inductive invariant: what has been received and what is on the wire *)
(* mean what is expected, on either backend.                               *)
(***************************************************************************)
StreamInv ==
  /\ backend \in Backends
  /\ phase = "off" => /\ wire = <<>> /\ dec = NewDecoder /\ button = NewButton
                      /\ hand = NoHand /\ expected = <<>> /\ cut = FALSE
  /\ phase = "on" => /\ Able \in Features
                     /\ backend = "raw" => RawInv
                     /\ backend = "curses" => CursesInv

\* What the user does next is what the program is told next, or nothing is.
ToldAsSent ==
  \/ result'.event.kind \in {"none", "resize"}
  \/ cut'
  \/ expected # <<>> /\ result'.event = Head(expected)

LEMMA StreamsBegin ==
  ASSUME wire' = <<>>, dec' = NewDecoder, button' = NewButton, hand' = NoHand,
         expected' = <<>>, cut' = FALSE
  PROVE  RawInv' /\ CursesInv'
<1>1. dec' \in Decoders /\ dec'.pending = <<>> /\ dec'.last = -1
  BY DEF NewDecoder, Decoders
<1>2. hand' \in Hands /\ hand'.seen = -1 /\ Sees(hand')
  BY DEF NoHand, Hands, Sees
<1>3. Flows(Typed(Able'), dec', <<>>, <<>>, dec'.last)
  BY <1>1, NothingFlows
<1>4. RawInv'
  BY <1>1, <1>2, <1>3, EmptySeq DEF RawInv
<1> DEFINE z == [last |-> -1, button |-> NewButton]
<1>5. z \in CursesStates
  BY DEF CursesStates, Buttons, NewButton
<1>6. Knows(z, NoHand)
  BY DEF Knows, NewButton, NoHand
<1>7. z = [last |-> dec'.last, button |-> button']
  BY <1>1
<1> HIDE DEF z
<1>8. <<<<>>, <<>>, z, z>> \in CursesStreams
  BY <1>5, CursesStepsMove, StepStreams DEF CursesStreams
<1>9. CursesFlows(<<>>, <<>>, dec'.last, button', hand')
  BY <1>5, <1>6, <1>7, <1>8 DEF CursesFlows
<1>10. CursesInv'
  BY <1>1, <1>2, <1>5, <1>7, <1>9, EmptySeq DEF CursesInv
<1> QED BY <1>4, <1>10

LEMMA StreamCreateKeeps ==
  ASSUME TerminalInv, StreamInv, Create
  PROVE  StreamInv'
<1>1. /\ wire' = <<>> /\ dec' = NewDecoder /\ button' = NewButton /\ hand' = NoHand
      /\ expected' = <<>> /\ cut' = FALSE /\ backend' = backend
  BY DEF Create, StreamInv, user
<1>2. phase' \in {"on", "done"}
  BY DEF Create
<1>3. RawInv' /\ CursesInv'
  BY <1>1, StreamsBegin
<1>4. phase' = "on" => Able' \in Features
  BY FeaturesFound
<1> QED BY <1>1, <1>2, <1>3, <1>4 DEF StreamInv

LEMMA StreamUserKeeps ==
  ASSUME StreamInv, User
  PROVE  StreamInv'
<1>1. phase = "on" /\ UNCHANGED device
  BY DEF User, Type, Push, Move, LetGo, Tap, Other, Point, Send, Resize,
         Signal, HangUp, Dealt, Awaited
<1>2. backend' = backend /\ phase' = phase /\ Able' = Able
  BY <1>1 DEF device, Able
<1> QED BY <1>1, <1>2, RawUserKeeps, CursesUserKeeps DEF StreamInv

LEMMA StreamPollKeeps ==
  ASSUME StreamInv, Poll
  PROVE  StreamInv' /\ ToldAsSent
<1>1. phase = "on" /\ backend' = backend /\ phase' = phase /\ Able' = Able /\ plat' = plat
  BY DEF Poll, device, Able
<1>2. CASE signalled
  <2>1. /\ Returns("closed") /\ UNCHANGED <<wire, dec>>
        /\ UNCHANGED <<button, hand, expected, cut>>
    BY <1>2 DEF Poll, Returns, user
  <2>2. result'.event.kind = "none"
    BY <2>1 DEF Returns, Outcome, NoEvent
  <2>3. RawInv => RawInv'
    BY <1>1, <2>1 DEF RawInv
  <2>4. CursesInv => CursesInv'
    BY <2>1 DEF CursesInv
  <2> QED BY <1>1, <2>2, <2>3, <2>4 DEF StreamInv, ToldAsSent
<1>3. CASE ~signalled /\ backend = "raw"
  <2>1. RawInv /\ Able \in Features /\ PollRaw
    BY <1>1, <1>3 DEF Poll, StreamInv
  <2>2. RawInv' /\ ToldAsSent
    BY <1>1, <2>1, RawPollKeeps DEF ToldAsSent
  <2> QED BY <1>1, <1>3, <2>1, <2>2 DEF StreamInv
<1>4. CASE ~signalled /\ backend = "curses"
  <2>1. CursesInv /\ Able \in Features /\ PollCurses
    BY <1>1, <1>4 DEF Poll, StreamInv
  <2>2. CursesInv' /\ ToldAsSent
    BY <2>1, CursesPollKeeps DEF ToldAsSent
  <2> QED BY <1>1, <1>4, <2>1, <2>2 DEF StreamInv
<1> QED BY <1>2, <1>3, <1>4 DEF StreamInv, Backends

(***************************************************************************)
(* However reads cut what the terminal sends, every event handed to the    *)
(* desktop is the next thing the user did.  After a cut that ReadRaw names *)
(* or a report that is lost this holds again from when nothing is left on  *)
(* the wire or in the decoder (platform_tty_raw.c, platform_curses.c,      *)
(* platform.c).                                                            *)
(***************************************************************************)
THEOREM EventsArriveAsSent == Spec => EventsAsSent
<1> DEFINE Inv == TerminalInv /\ StreamInv
<1>1. Init => Inv
  BY GivenIsLeft, ShellStates DEF Init, TerminalInv, StreamInv
<1>2. Inv /\ [Next]_vars => TerminalInv'
  BY TerminalStays
<1>3. Inv /\ [Next]_vars => StreamInv' /\ [Poll => ToldAsSent]_vars
  <2> SUFFICES ASSUME Inv, [Next]_vars
               PROVE  StreamInv' /\ [Poll => ToldAsSent]_vars
    OBVIOUS
  <2>1. CASE Poll
    BY <2>1, StreamPollKeeps
  <2>2. ASSUME ~Poll PROVE StreamInv'
    <3>1. CASE Create
      BY <3>1, StreamCreateKeeps
    <3>2. CASE Destroy
      BY <3>2 DEF Destroy, StreamInv
    <3>3. CASE User
      BY <3>3, StreamUserKeeps
    <3>4. CASE UNCHANGED vars
      <4>1. /\ UNCHANGED <<backend, phase, plat, wire, dec, button, hand, expected, cut>>
            /\ Able' = Able
        BY <3>4 DEF vars, Able
      <4> QED BY <4>1 DEF StreamInv, RawInv, CursesInv
    <3> QED BY <2>2, <3>1, <3>2, <3>3, <3>4 DEF Next
  <2> QED BY <2>1, <2>2
<1>4. [Poll => ToldAsSent]_vars <=>
        [Poll => \/ result'.event.kind \in {"none", "resize"}
                 \/ cut'
                 \/ expected # <<>> /\ result'.event = Head(expected)]_vars
  BY DEF ToldAsSent
<1> HIDE DEF Inv
<1> QED BY <1>1, <1>2, <1>3, <1>4, PTL DEF Spec, EventsAsSent, Inv
=============================================================================
