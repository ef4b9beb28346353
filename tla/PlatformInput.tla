--------------------------- MODULE PlatformInput ---------------------------
(***************************************************************************)
(* The terminal as the program sees it, from platform_create to            *)
(* platform_destroy (src/platform/platform.c): the raw backend of          *)
(* platform_tty_raw.c, which reads bytes and decodes them with TtyDecoder, *)
(* and the curses backend of platform_curses.c.  A user types and handles  *)
(* the mouse; what that puts on the wire reaches the program in pieces, by *)
(* calls of platform_poll_event.                                           *)
(***************************************************************************)
EXTENDS TtyDecoder, FiniteSets, SequencesExt

CONSTANTS
  ShellHandlers, \* what the shell has each signal do: "default", or "ignored"
  ReadSize,      \* bytes taken by one read, 32 in the code
  Features,      \* what terminals can do: [mouse, resizes]
  Inputs,        \* what is typed at once on a terminal that can do this on
                 \* this backend: keys, what each sends and the events it means
  Interrupted,   \* those on which signals and hang-ups come, a bound
  Columns,       \* where the pointer can be
  Sizes,         \* sizes of the terminal ...
  FirstSize,     \* ... and the one it starts with, a bound
  MaxWire,       \* bounds on what is on the wire when more is typed ...
  MaxExpected    \* ... and on the events still to come

Backends == {"raw", "curses"}

Signals == {"INT", "TERM", "HUP"}

ASSUME InputAssumption ==
  /\ ShellHandlers \in [Signals -> {"default", "ignored"}]
  /\ ReadSize \in Nat \ {0}
  /\ Capacity >= 9                  \* a report fits
  /\ DOMAIN Inputs = Backends \X Features
  /\ Features \subseteq [mouse : BOOLEAN, resizes : BOOLEAN]
  /\ Interrupted \subseteq Features
  /\ Columns \subseteq Nat
  /\ FirstSize \in Sizes

VARIABLES
  backend,
  phase,      \* "off", "on" from platform_create to platform_destroy, "done"
  term,       \* the terminal and the handlers of signals, outside the program
  plat,       \* what the PlatformBackend remembers of them, and its features
  wire,       \* sent by the terminal and not yet read
  dec,        \* the decoder; both backends remember the last column in it
  button,     \* button1_down, _dragged and _press_x
  size,       \* of the terminal
  known,      \* tty_rows and tty_cols
  signalled,  \* tty_signal_pending
  hung,       \* the line of the terminal is down
  result,     \* of the last platform_poll_event
  hand,       \* what the user does with the mouse
  expected,   \* events of what was sent and has not been delivered
  cut         \* the last bytes were read in the middle of what they mean

device == <<backend, phase, term, plat>>
user   == <<hand, expected, cut>>
vars   == <<backend, phase, term, plat, wire, dec, button, size, known,
            signalled, hung, result, hand, expected, cut>>

-----------------------------------------------------------------------------
(***************************************************************************)
(* Taking the terminal over and giving it back.                            *)
(***************************************************************************)
\* The terminal of a shell; signals may have been set to be ignored (nohup).
ShellTerm == [mode |-> "shell", tracking |-> FALSE, handlers |-> ShellHandlers]

\* All zero; and zero as a handler is SIG_DFL.
NewPlatform == [rawEnabled |-> FALSE, curses |-> FALSE, savedMode |-> FALSE,
                forced |-> FALSE, installed |-> FALSE,
                previous |-> [s \in Signals |-> "default"],
                mouse |-> FALSE, resizes |-> FALSE]

EnableRaw(t) == [t EXCEPT !.term.mode = "raw", !.plat.rawEnabled = TRUE]

DisableRaw(t) ==
  [t EXCEPT !.term.mode = IF t.plat.rawEnabled THEN "shell" ELSE @,
            !.plat.rawEnabled = FALSE]

\* on is FALSE on the Linux console and on a dumb terminal.
TrackMouse(t, on) ==
  [t EXCEPT !.term.tracking = on, !.plat.forced = on, !.plat.mouse = @ \/ on]

DisableTracking(t) ==
  IF t.plat.forced THEN [t EXCEPT !.term.tracking = FALSE, !.plat.forced = FALSE] ELSE t

SaveMode(t)    == [t EXCEPT !.plat.savedMode = TRUE]
InitScreen(t)  == [t EXCEPT !.term.mode = "curses", !.plat.curses = TRUE]
EditorKeys(t)  == [t EXCEPT !.term.mode = "editor"]
RestoreMode(t) ==
  [t EXCEPT !.term.mode = IF t.plat.savedMode THEN "shell" ELSE @,
            !.plat.savedMode = FALSE]

\* endwin returns to the mode initscr has found.
EndCurses(t) ==
  RestoreMode([t EXCEPT !.term.mode = IF t.plat.curses THEN "shell" ELSE @,
                        !.plat.curses = FALSE])

\* Handlers are installed in this order; fails is the signal that cannot be
\* ("error" is SIG_ERR), and those before it are the program's by then.
Before(fails) ==
  CASE fails = "INT" -> {} [] fails = "TERM" -> {"INT"} [] fails = "HUP" -> {"INT", "TERM"}
    [] OTHER -> Signals

PutBack(handlers, previous, signals) ==
  [s \in Signals |-> IF s \in signals /\ previous[s] # "error" THEN previous[s] ELSE handlers[s]]

\* What was there before is remembered.  A failure puts back what is remembered
\* of INT and TERM, of TERM even if it has not been looked at.
InstallHandlers(t, fails) ==
  LET taken    == Before(fails)
      ours     == [s \in Signals |-> IF s \in taken THEN "ours" ELSE t.term.handlers[s]]
      previous == [s \in Signals |-> IF s \in taken THEN t.term.handlers[s]
                                     ELSE IF s = fails THEN "error" ELSE t.plat.previous[s]]
  IN  [t EXCEPT !.term.handlers = IF fails = "none" THEN ours
                                  ELSE PutBack(ours, previous, {"INT", "TERM"}),
                !.plat.previous = previous,
                !.plat.installed = fails = "none"]

RestoreHandlers(t) ==
  IF t.plat.installed
    THEN [t EXCEPT !.term.handlers = PutBack(@, t.plat.previous, Signals),
                   !.plat.installed = FALSE]
    ELSE t

\* platform_init_tty_raw_backend.
InitRaw(t, fails, f) ==
  IF fails = "mode" THEN t
  ELSE TrackMouse([EnableRaw(t) EXCEPT !.plat.resizes = f.resizes], f.mouse)

\* platform_init_curses_backend.
InitCurses(t, fails, f) ==
  CASE fails = "mode"     -> t
    [] fails = "screen"   -> RestoreMode(SaveMode(t))
    [] fails = "controls" -> EndCurses(InitScreen(SaveMode(t)))
    [] OTHER -> TrackMouse([EditorKeys(InitScreen(SaveMode(t)))
                              EXCEPT !.plat.resizes = f.resizes], f.mouse)

\* Mutant: pointer reports stay switched on.
CloseTerminalTracking(t) == RestoreHandlers(EndCurses(DisableRaw(t)))

\* platform_destroy, and what platform_create does when it fails late.
CloseTerminal(t) == RestoreHandlers(EndCurses(DisableRaw(DisableTracking(t))))

NewButton == [down |-> FALSE, dragged |-> FALSE, at |-> -1]
NoHand    == [down |-> FALSE, still |-> FALSE, at |-> -1, seen |-> -1]

Init ==
  /\ backend \in Backends
  /\ phase = "off" /\ term = ShellTerm /\ plat = NewPlatform
  /\ wire = <<>> /\ dec = NewDecoder
  /\ button = NewButton
  /\ size = FirstSize /\ known = size
  /\ signalled = FALSE /\ hung = FALSE
  /\ result = [kind |-> "none", event |-> NoEvent]
  /\ hand = NoHand
  /\ expected = <<>> /\ cut = FALSE

\* platform_create; fails is the call that fails.
Create ==
  /\ phase = "off"
  /\ \E fails \in {"none", "mode", "screen", "controls"} \cup Signals,
        f \in Features :
       /\ \E t0 \in {[term |-> term, plat |-> plat]} :
          \E t1 \in {IF backend = "raw" THEN InitRaw(t0, fails, f) ELSE InitCurses(t0, fails, f)} :
          \E t2 \in {IF fails \in {"none"} \cup Signals THEN InstallHandlers(t1, fails) ELSE t1} :
          \E t3 \in {IF fails \in Signals THEN CloseTerminal(t2) ELSE t2} :
             term' = t3.term /\ plat' = t3.plat
       /\ backend = "raw" => fails \notin {"screen", "controls"}
       /\ phase' = IF fails = "none" THEN "on" ELSE "done"
  /\ known' = size
  /\ UNCHANGED <<backend, wire, dec, button, size, signalled, hung, result>>
  /\ UNCHANGED user

\* platform_destroy, when the desktop stops.
Destroy ==
  /\ phase = "on"
  /\ LET t == CloseTerminal([term |-> term, plat |-> plat])
     IN  term' = t.term /\ plat' = t.plat
  /\ phase' = "done"
  /\ dec' = NewDecoder /\ button' = NewButton      \* freed with the platform
  /\ wire' = <<>> /\ expected' = <<>> /\ hand' = NoHand /\ cut' = FALSE
  /\ UNCHANGED <<backend, size, known, signalled, hung, result>>

-----------------------------------------------------------------------------
(***************************************************************************)
(* The keys of the two backends.  A raw terminal sends a byte, an arrow    *)
(* with or without modifiers, or a sequence that means nothing here; all   *)
(* fit the decoder, and so does a report of the pointer.                   *)
(***************************************************************************)
KeySends(bytes, events) == [sends |-> bytes, means |-> events]

ByteKeys(bytes) == {KeySends(<<b>>, <<ByteKey(b)>>) : b \in bytes}

RawArrows ==
  {KeySends(<<Esc, Bracket, b>>, <<Key(ArrowKeys[b], {})>>) : b \in DOMAIN ArrowKeys}

ModifiedArrow(n, b) == <<Esc, Bracket, Num(1), Semicolon, Num(n), b>>

ModifiedArrows ==
  {KeySends(ModifiedArrow(n, b), <<Key(ArrowKeys[b], Modifiers(n))>>) :
     n \in 2 .. 8, b \in DOMAIN ArrowKeys}

\* A sequence ends with its first final byte.  Those of letters other than the
\* arrows' and those of arrows with a modifier not from 2 to 8 mean nothing.
UnknownKey(k) ==
  LET s == k.sends
      n == Len(s)
  IN  /\ k.means = <<>>
      /\ s \in Seq(Nat) /\ n \in 3 .. Capacity
      /\ s[1] = Esc /\ s[2] = Bracket /\ s[3] # Less
      /\ s[n] \in Finals /\ \A i \in 3 .. n - 1 : s[i] \notin Finals
      /\ \/ s[n] \notin DOMAIN ArrowKeys
         \/ n = 6 /\ s[5] - Num(0) \in Nat \ 2 .. 8 /\ s = ModifiedArrow(s[5] - Num(0), s[6])

\* Keys whose bytes the decoder takes apart: what follows the first final byte
\* (the second bracket of a function key of the Linux console), or Escape
\* without a bracket (function keys in application mode), is handed over as text.
ConsoleFunctionKey(b) ==
  <<KeySends(<<Esc, Bracket, Bracket>>, <<>>), KeySends(<<b>>, <<ByteKey(b)>>)>>

ApplicationKey(b) == [i \in 1 .. 3 |-> LET byte == <<Esc, 79, b>>[i]
                                       IN  KeySends(<<byte>>, <<ByteKey(byte)>>)]

RawKey(k, bytes) ==
  k \in ByteKeys(bytes) \cup RawArrows \cup ModifiedArrows \/ UnknownKey(k)

\* translate_modified_key and translate_key_chord.
ModifiedKeys == [KEY_SLEFT |-> "left", KEY_SRIGHT |-> "right",
                 KEY_SUP |-> "up", KEY_SDOWN |-> "down"]

ChordKeys == [KEY_UP |-> "up", KEY_DOWN |-> "down", KEY_LEFT |-> "left",
              KEY_RIGHT |-> "right", KEY_HOME |-> "home", KEY_END |-> "end",
              KEY_PPAGE |-> "ppage", KEY_NPAGE |-> "npage", KEY_DC |-> "dc",
              KEY_IC |-> "ic", KEY_BTAB |-> "btab"]

CursesKey(raw) ==
  IF raw \in DOMAIN ModifiedKeys THEN Key(ModifiedKeys[raw], {"shift"})
  ELSE IF raw \in DOMAIN ChordKeys THEN Key(ChordKeys[raw], {})
  ELSE Key(raw, {})     \* function keys are named alike

CursesTyped(k) ==
  \/ \E byte \in 0 .. 255 : k = KeySends(<<[char |-> byte]>>, <<Char(byte)>>)
  \/ LET name == k.sends[1].key
     IN  name \in STRING /\ k = KeySends(<<[key |-> name]>>, <<CursesKey(name)>>)

\* Where Escape is typed a bracket is not: the two are how a sequence begins.
ASSUME KeyAssumption ==
  \A f \in Features :
    /\ \E other \in {Esc, Bracket} :
         \A keys \in Inputs[<<"raw", f>>] :
            /\ Len(keys) \in Nat /\ DOMAIN keys = 1 .. Len(keys)
            /\ \A i \in DOMAIN keys : RawKey(keys[i], 0 .. 255 \ {other})
    /\ \A keys \in Inputs[<<"curses", f>>] :
         /\ Len(keys) \in Nat /\ DOMAIN keys = 1 .. Len(keys)
         /\ \A i \in DOMAIN keys : CursesTyped(keys[i])

-----------------------------------------------------------------------------
(***************************************************************************)
(* The user.  Every action puts bytes (or what curses makes of them) on    *)
(* the wire and adds the event they mean to what is expected.              *)
(***************************************************************************)
Idle == [kind |-> "none", event |-> NoEvent]
Ended == result.kind \in {"closed", "error"}

\* The user acts when the desktop has dealt with the last event, and no more
\* once the program is to stop.
Awaited == phase = "on" /\ ~hung /\ ~signalled /\ ~Ended
Able    == [mouse |-> plat.mouse, resizes |-> plat.resizes]
Dealt   == result' = Idle /\ UNCHANGED device

\* After a cut nothing is expected until the wire has run dry.
Lost == cut /\ (wire # <<>> \/ dec.pending # <<>>)

Send(sends, means) ==
  /\ Awaited
  /\ Len(wire) <= MaxWire /\ Len(expected) < MaxExpected
  /\ wire' = wire \o sends
  /\ expected' = IF Lost THEN expected ELSE expected \o means
  /\ cut' = Lost
  /\ Dealt
  /\ UNCHANGED <<dec, button, size, known, signalled, hung>>

\* After a cut the program knows the place of the last report that was not
\* lost, and of the button what that and those before it said.
Resynced ==
  IF cut THEN [hand EXCEPT !.seen = dec.last, !.at = button.at,
                           !.still = button.down /\ ~button.dragged]
  ELSE hand

\* The pointer is at col and the button is as it was.
Passed(col) == [Resynced EXCEPT !.still = @ /\ col = Resynced.at, !.seen = col]

Type ==
  /\ Awaited
  /\ \E keys \in Inputs[<<backend, Able>>] :
       Send(FlattenSeq([i \in DOMAIN keys |-> keys[i].sends]),
            FlattenSeq([i \in DOMAIN keys |-> keys[i].means]))
  /\ hand' = Resynced

RawReport(n, col, final) ==
  <<Esc, Bracket, Less, Num(n), Semicolon, Num(col + 1), Semicolon, Num(1), final>>

CursesReport(state, col) == <<[bstate |-> state, x |-> col]>>

\* The pointer is reported at col; flags say what the event means.
Point(report, flags, col) ==
  LET moved == IF col # Resynced.seen THEN {"moved"} ELSE {}
  IN  plat.mouse /\ Send(report, <<Pointer(flags \cup moved, col)>>)

Push(col) ==
  /\ ~hand.down
  /\ Point(IF backend = "raw" THEN RawReport(0, col, Press)
                              ELSE CursesReport({"pressed"}, col), {"pressed"}, col)
  /\ hand' = [down |-> TRUE, still |-> TRUE, at |-> col, seen |-> col]

\* A raw terminal reports motion while a button is held only.  Where reports
\* were lost, the pointer can be back at a place it was not seen to leave.
Move(col) ==
  /\ IF backend = "raw" THEN hand.down /\ Point(RawReport(32, col, Press), {"pressed"}, col)
                        ELSE Point(CursesReport({}, col), {}, col)
  /\ hand' = Passed(col)

\* A release is a click if the pointer has not left the place of the press;
\* on a raw terminal it always is.
LetGo(col) ==
  /\ hand.down
  /\ IF backend = "raw"
       THEN Point(RawReport(0, col, Release), {"released", "clicked"}, col)
       ELSE Point(CursesReport({"released"}, col),
                  {"released"} \cup (IF Resynced.still /\ col = Resynced.at THEN {"clicked"} ELSE {}), col)
  /\ hand' = [down |-> FALSE, still |-> FALSE, at |-> -1, seen |-> col]

\* Curses reports a quick press and release as one.
Tap(col) ==
  /\ backend = "curses" /\ ~hand.down
  /\ \E state \in {{"clicked"}, {"dblclick"}} : Point(CursesReport(state, col), state, col)
  /\ hand' = Passed(col)

OtherButtons ==
  { [raw |-> 65, state |-> {"scroll_down"}, means |-> {"scroll_down"}],
    [raw |-> 2, state |-> {"right_pressed"}, means |-> {"right_pressed", "right_clicked"}] }

Other(col) ==
  /\ \E o \in OtherButtons :
       IF backend = "raw" THEN Point(RawReport(o.raw, col, Press), o.means, col)
                          ELSE Point(CursesReport(o.state, col), o.state, col)
  /\ hand' = Passed(col)

Resize(s) ==
  /\ Awaited /\ plat.resizes /\ s # size
  /\ size' = s
  /\ IF backend = "curses" THEN Len(wire) <= MaxWire /\ wire' = Append(wire, [resize |-> TRUE])
                           ELSE UNCHANGED wire
  /\ Dealt /\ UNCHANGED user
  /\ UNCHANGED <<dec, button, known, signalled, hung>>

Signal ==
  /\ Awaited /\ Able \in Interrupted
  /\ signalled' = TRUE
  /\ Dealt /\ UNCHANGED user
  /\ UNCHANGED <<wire, dec, button, size, known, hung>>

HangUp ==
  /\ Awaited /\ Able \in Interrupted
  /\ hung' = TRUE
  /\ Dealt /\ UNCHANGED user
  /\ UNCHANGED <<wire, dec, button, size, known, signalled>>

User ==
  \/ Type
  \/ \E col \in Columns : Push(col) \/ Move(col) \/ LetGo(col) \/ Tap(col) \/ Other(col)
  \/ \E s \in Sizes : Resize(s)
  \/ Signal
  \/ HangUp

-----------------------------------------------------------------------------
(***************************************************************************)
(* platform_poll_event.                                                    *)
(***************************************************************************)
\* platform_normalize_pointer_activation.
Tracked(b, ev) ==
  IF "pressed" \in ev.flags
    THEN [b EXCEPT !.down = TRUE, !.dragged = FALSE, !.at = ev.x]
  ELSE [b EXCEPT !.dragged = @ \/ (b.down /\ ("moved" \in ev.flags \/ ev.x # b.at))]

\* Mutant: a release is a click wherever the pointer has been.
ActivatedAnyway(b, ev) ==
  IF "released" \in ev.flags /\ b.down
    THEN [ev EXCEPT !.flags = @ \cup {"clicked"}] ELSE ev

Activated(b, ev) ==
  IF "released" \in ev.flags /\ b.down /\ ~b.dragged
    THEN [ev EXCEPT !.flags = @ \cup {"clicked"}] ELSE ev

Settled(b, ev) ==
  IF {"released", "clicked", "dblclick"} \cap ev.flags # {}
    THEN [b EXCEPT !.down = FALSE, !.dragged = FALSE] ELSE b

Outcome(kind) == [kind |-> kind, event |-> NoEvent]

Returns(kind) == result' = Outcome(kind) /\ UNCHANGED <<button, user>>

\* An event of the user is handed over; split says it is part of another.
Deliver(ev, split) ==
  LET tracked == Tracked(button, ev)
      out     == IF ev.kind = "mouse" THEN Activated(tracked, ev) ELSE ev
  IN  /\ result' = [kind |-> "event", event |-> out]
      /\ button' = IF ev.kind = "mouse" THEN Settled(tracked, out) ELSE button
      /\ cut' = (Lost \/ split)
      /\ expected' = IF Lost \/ split \/ expected = <<>> THEN <<>> ELSE Tail(expected)
      /\ UNCHANGED hand

Resized == plat.resizes /\ size # known

EmitResize ==
  /\ result' = [kind |-> "event", event |-> [kind |-> "resize", size |-> size]]
  /\ known' = size
  /\ UNCHANGED <<button, user>>

\* Escape is taken for the key of that name when the rest has not been read.
SplitEscape(ev, rest, ahead) ==
  /\ ev = ByteKey(Esc) /\ rest.pending = <<>>
  /\ ahead # <<>> /\ Head(ahead) = Bracket

\* platform_poll_event_tty_raw: decode, look at the size, read, decode.
ReadRaw(before, n) ==
  LET ahead == SubSeq(wire, n + 1, Len(wire))
      drops == Len(before.pending) + n > Capacity
  IN  \E full \in {AppendBytes(before, SubSeq(wire, 1, n))} : \E after \in {Decode(full)} :
      /\ wire' = ahead
      /\ dec' = after.dec
      /\ UNCHANGED known
      /\ IF after.event # NoEvent
           THEN Deliver(after.event, drops \/ SplitEscape(after.event, after.dec, ahead))
           ELSE /\ result' = Outcome("timeout")
                /\ cut' = (Lost \/ drops)
                /\ expected' = IF cut' THEN <<>> ELSE expected
                /\ UNCHANGED <<button, hand>>

\* Part of what is on the wire has arrived; when there is more than a read
\* takes it has been piling up, and the read is full.
ReadLengths == IF Len(wire) > ReadSize THEN {ReadSize} ELSE 1 .. Len(wire)

PollRaw ==
  \E first \in {Decode(dec)} :
      \/ /\ first.event # NoEvent
         /\ dec' = first.dec
         /\ Deliver(first.event, SplitEscape(first.event, first.dec, wire))
         /\ UNCHANGED <<wire, known>>
      \/ /\ first.event = NoEvent /\ Resized
         /\ dec' = first.dec
         /\ EmitResize
         /\ UNCHANGED wire
      \/ /\ first.event = NoEvent /\ ~Resized
         /\ \/ /\ dec' = first.dec
               /\ \/ hung /\ Returns("closed")
                  \/ ~hung /\ wire = <<>> /\ Returns("timeout")
                  \/ Returns("error")
               /\ UNCHANGED <<wire, known>>
            \/ /\ ~hung
               /\ \E n \in ReadLengths : ReadRaw(first.dec, n)

\* normalize_mouse.
CursesMouse(raw, last) ==
  Pointer(raw.bstate \cup (IF raw.x # last THEN {"moved"} ELSE {}), raw.x)

Quiet == \/ hung /\ Returns("closed")
         \/ ~hung /\ Returns("timeout")
         \/ Returns("error")

\* A report that getmouse cannot fetch is lost, and the poll ends as if nothing
\* had come.
LoseReport ==
  /\ result' \in {Outcome(IF hung THEN "closed" ELSE "timeout"), Outcome("error")}
  /\ cut' = TRUE /\ expected' = <<>>
  /\ UNCHANGED <<dec, button, known, hand>>

\* platform_poll_curses_result and platform_poll_event_curses.
PollCurses ==
  /\ \/ /\ wire # <<>>
        /\ wire' = Tail(wire)
        /\ LET raw == Head(wire)
           IN  \/ "resize" \in DOMAIN raw /\ EmitResize /\ UNCHANGED dec
               \/ "char" \in DOMAIN raw /\ Deliver(Char(raw.char), FALSE) /\ UNCHANGED <<dec, known>>
               \/ "key" \in DOMAIN raw /\ Deliver(CursesKey(raw.key), FALSE) /\ UNCHANGED <<dec, known>>
               \/ /\ "bstate" \in DOMAIN raw
                  /\ Deliver(CursesMouse(raw, dec.last), FALSE)
                  /\ dec' = [dec EXCEPT !.last = raw.x]
                  /\ UNCHANGED known
               \/ "bstate" \in DOMAIN raw /\ LoseReport
     \/ /\ wire = <<>>
        /\ Quiet
        /\ UNCHANGED <<wire, dec, known>>

Poll ==
  /\ phase = "on" /\ ~Ended
  /\ IF signalled
       THEN Returns("closed") /\ UNCHANGED <<wire, dec, known>>
       ELSE IF backend = "raw" THEN PollRaw ELSE PollCurses
  /\ UNCHANGED device
  /\ UNCHANGED <<size, signalled, hung>>

Next == Create \/ Destroy \/ User \/ Poll

(***************************************************************************)
(* desktop_run polls until it stops: a poll that has something to do is    *)
(* made.  (This is WF_vars(Poll), with its ENABLED written out and the     *)
(* polls that only time out or fail left to chance.)                       *)
(***************************************************************************)
Busy ==
  /\ phase = "on" /\ ~Ended
  /\ \/ signalled \/ hung
     \/ wire # <<>>
     \/ backend = "raw" /\ (Resized \/ Decode(dec) # Incomplete(dec))

PollsAgain == []<>~Busy \/ []<><<Poll>>_vars

Spec == Init /\ [][Next]_vars /\ PollsAgain

-----------------------------------------------------------------------------
(***************************************************************************)
(* Whatever the reads cut the bytes into, every event handed to the        *)
(* desktop is the next thing the user did: its key and modifiers, or its   *)
(* place, buttons and motion, and a press and release with nothing but     *)
(* rest between them make one click (platform.c:145-175).  UnknownKey says *)
(* which sequences give no event; of the keys the decoder takes apart the  *)
(* text they are handed over as is what is expected (tty_decoder.c:226,    *)
(* 290-299).  Excepted is what a full decoder, an Escape at the end of a   *)
(* read or a lost report cuts, up to the moment when neither the wire nor  *)
(* the decoder holds anything: an unfinished sequence takes what is typed  *)
(* next for its own.                                                       *)
(***************************************************************************)
EventsAsSent ==
  [][ Poll => \/ result'.event.kind \in {"none", "resize"}
              \/ cut'
              \/ expected # <<>> /\ result'.event = Head(expected) ]_vars

(***************************************************************************)
(* While the program polls nothing waits for ever, however long the flood  *)
(* of other input: what the user did is followed by an event of the user   *)
(* (which EventsAsSent says is the next one), a change of size is          *)
(* reported, and a full decoder gets free again.  The size is looked at    *)
(* before the wire (platform_tty_raw.c:144), so keys wait while it changes *)
(* between any two polls; that it does so for ever is assumed away.        *)
(***************************************************************************)
Stops == Ended \/ phase = "done"

SizeSettles == []<>~Busy \/ []<><<Poll /\ ~(backend = "raw" /\ Resized)>>_vars

InputArrives ==
  /\ SizeSettles =>
       (expected # <<>> ~> \/ result.kind = "event" /\ result.event.kind # "resize"
                           \/ cut \/ Stops)
  /\ (phase = "on" /\ backend = "raw" /\ Resized) ~> (~Resized \/ Stops)
  /\ (phase = "on" /\ Len(dec.pending) = Capacity) ~> (Len(dec.pending) < Capacity \/ Stops)

(***************************************************************************)
(* Whatever call fails on the way in and however the program stops, the    *)
(* terminal is left as the shell had it: its mode, pointer reports off,    *)
(* the handlers of signals (platform.c:234-289, 335-348).  The one         *)
(* exception is a TERM that the shell has set to be ignored: when signal() *)
(* already fails on INT, the failure path sets TERM to what the zeroed     *)
(* platform holds, its default (platform.c:91-92, 108-110, 240).           *)
(***************************************************************************)
LeftHandlers(previous) ==
  [ShellHandlers EXCEPT !.TERM = IF previous.INT = "error" THEN "default" ELSE @]

TerminalRestored ==
  phase # "on" => term = [ShellTerm EXCEPT !.handlers = LeftHandlers(plat.previous)]
=============================================================================
