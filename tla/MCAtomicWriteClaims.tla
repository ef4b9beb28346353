------------------------ MODULE MCAtomicWriteClaims ------------------------
(***************************************************************************)
(* Small instances of AtomicWriteClaims.                                   *)
(***************************************************************************)
EXTENDS AtomicWriteClaims

CONSTANTS p1, p2, blank, a, partial

Two   == {p1, p2}
Texts == {blank, a}
=============================================================================
