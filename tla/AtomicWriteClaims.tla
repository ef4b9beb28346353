------------------------- MODULE AtomicWriteClaims -------------------------
(***************************************************************************)
(* What docs/STORAGE.md says of saving that the adapters do not do.        *)
(***************************************************************************)
EXTENDS AtomicWrite

\* docs/STORAGE.md:103, "Notepad retains the version returned when it reads or
\* successfully writes a file": the version kept after a save is that of the
\* text saved, so that a later save notices any other.
WrittenVersionNamesText ==
  [][\A p \in Proc :
       At(p, "stat") /\ At(p, "idle")' /\ doc'[p].version # NoVersion
         => inode[doc'[p].version.ino].text = doc[p].text]_vars
=============================================================================
