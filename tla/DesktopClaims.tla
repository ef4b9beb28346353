--------------------------- MODULE DesktopClaims ---------------------------
(***************************************************************************)
(* What the documentation says of the desktop and a behaviour of Desktop   *)
(* refutes.                                                                *)
(***************************************************************************)
EXTENDS Desktop

(***************************************************************************)
(* docs/KEYBOARD_SHORTCUTS.md:32-33: "applications remain alive until      *)
(* every running app authorizes the operation".  When the desktop quits,   *)
(* every app but the one that was still being asked is one that agrees as  *)
(* it is.  (An app edited after it agreed is closed all the same.)         *)
(***************************************************************************)
QuitAsksEveryApp ==
  [][ desk.asking /\ desk'.status = "quit" =>
        \A i \in Running(desk) \ {desk.waiting} : CanClose(desk.apps[i]) ]_desk
=============================================================================
