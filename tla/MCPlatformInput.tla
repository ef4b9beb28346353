-------------------------- MODULE MCPlatformInput --------------------------
(***************************************************************************)
(* A small instance of PlatformInput: buffers a third of the size, with    *)
(* sequences of the real lengths.                                          *)
(***************************************************************************)
EXTENDS PlatformInputClaims

Up        == KeySends(<<Esc, Bracket, 65>>, <<Key("up", {})>>)
ShiftLeft == KeySends(<<Esc, Bracket, Num(1), Semicolon, Num(2), 68>>, <<Key("left", {"shift"})>>)
EndKey    == KeySends(<<Esc, Bracket, 70>>, <<>>)       \* not known to the decoder
Malformed == KeySends(<<Esc, Bracket, Num(1), Semicolon, Num(9), 68>>, <<>>)
Letter    == KeySends(<<120>>, <<Char(120)>>)
EscKey    == KeySends(<<Esc>>, <<Char(Esc)>>)

\* A console on which single keys are typed, one on which a key the decoder
\* does not know is held down, and a terminal with a mouse.
Console == [mouse |-> FALSE, resizes |-> TRUE]
Held    == [mouse |-> FALSE, resizes |-> FALSE]
Mouse   == [mouse |-> TRUE, resizes |-> FALSE]

MCFeatures == {Console, Held, Mouse}
MCInterrupted == {Console}

F1   == ConsoleFunctionKey(65)      \* on the Linux console
App1 == ApplicationKey(80)

RawInputs(f) ==
  CASE f = Console -> {<<Letter>>, <<EscKey>>, <<Up>>, <<ShiftLeft>>, <<Malformed>>, F1, App1}
    [] f = Held    -> {[i \in 1 .. 14 |-> IF i = 14 THEN Letter ELSE EndKey]}
    [] f = Mouse   -> {}

CursesInputs(f) ==
  IF f # Console THEN {}
  ELSE { <<KeySends(<<[char |-> 120]>>, <<Char(120)>>)>>,
         <<KeySends(<<[key |-> "KEY_UP"]>>, <<Key("up", {})>>)>>,
         <<KeySends(<<[key |-> "KEY_SLEFT"]>>, <<Key("left", {"shift"})>>)>> }

MCInputs ==
  [b \in Backends, f \in MCFeatures |-> IF b = "raw" THEN RawInputs(f) ELSE CursesInputs(f)]

MCShell == [INT |-> "default", TERM |-> "ignored", HUP |-> "ignored"]

MCFirstSize == [rows |-> 24, cols |-> 80]
MCSizes == {MCFirstSize, [rows |-> 30, cols |-> 80]}
=============================================================================
