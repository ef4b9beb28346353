--------------------------- MODULE MCAtomicWrite ---------------------------
(***************************************************************************)
(* Small instances of AtomicWrite.                                         *)
(***************************************************************************)
EXTENDS AtomicWrite

CONSTANTS p1, blank, a, partial

One   == {p1}
Texts == {blank, a}
All   == {"replace", "edit", "remove"}

\* The file changes name at most once between two times that it is synced.
FewUnsynced == Cardinality(onDisk) <= 2
=============================================================================
