------------------------------ MODULE Session ------------------------------
(***************************************************************************)
(* What the desktop promises about the apps the user has open.  Quitting   *)
(* is a transaction: from the moment it is asked for until it is decided   *)
(* no app closes; it ends with all of them open or all of them closed; and *)
(* it cannot succeed before every app with unsaved work has agreed to it.  *)
(* One step lets the user decide about one app.  The promise is no more    *)
(* than that: an app agrees once, and work done in it afterwards, before   *)
(* the others have agreed, closes with it.                                 *)
(***************************************************************************)
EXTENDS Naturals

VARIABLES
  phase,       \* "open", "asking", "ended", or "lost" with the terminal
  alive,       \* the apps that are open
  undecided    \* those with unsaved work that have not agreed to close

vars == <<phase, alive, undecided>>

Init == phase = "open" /\ alive \in SUBSET Nat /\ undecided = {}

\* Nothing but app i opens, closes, or gains or loses undecided work.
OnlyApp(i) ==
  /\ alive \ {i} = alive' \ {i}
  /\ undecided \ {i} = undecided' \ {i}

Work(i) == phase = "open" /\ phase' = "open" /\ OnlyApp(i)

Ask ==
  /\ phase = "open" /\ undecided # {}
  /\ phase' = "asking"
  /\ UNCHANGED <<alive, undecided>>

\* An app that agreed before its turn is asked again when that comes.
Answer(i) ==
  /\ phase = "asking" /\ phase' = "asking"
  /\ alive \subseteq alive' /\ alive' \subseteq alive \cup {i}
  /\ undecided \ {i} \subseteq undecided'

Cancel(i) ==
  /\ phase = "asking" /\ phase' = "open"
  /\ alive' = alive
  /\ undecided \ {i} \subseteq undecided'

Quit(i) ==
  /\ \/ phase = "open" /\ undecided = {}
     \/ phase = "asking" /\ undecided \subseteq {i}
  /\ phase' = "ended" /\ alive' = {} /\ undecided' = {}

Lose ==
  /\ phase \in {"open", "asking"}
  /\ phase' = "lost" /\ alive' = {} /\ undecided' = {}

Next ==
  \/ \E i \in alive \cup alive' : Work(i) \/ Answer(i) \/ Cancel(i) \/ Quit(i)
  \/ Quit(0)
  \/ Ask \/ Lose

Spec == Init /\ [][Next]_vars
=============================================================================
