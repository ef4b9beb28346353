------------------------ MODULE PlatformInputClaims ------------------------
(***************************************************************************)
(* What docs/PORTABILITY.md says of the raw backend and a split read       *)
(* refutes.                                                                *)
(***************************************************************************)
EXTENDS PlatformInput

(***************************************************************************)
(* docs/PORTABILITY.md:75-76, decoding covers navigation sequences         *)
(* "including fragmented input.  Invalid sequences do not leak bytes into  *)
(* applications": a character handed to the desktop is one the user typed, *)
(* as long as nothing has been lost.                                       *)
(***************************************************************************)
NoBytesLeak ==
  [][ Poll /\ ~cut /\ result'.event.kind = "char" =>
        expected # <<>> /\ Head(expected) = result'.event ]_vars
=============================================================================
