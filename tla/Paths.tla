------------------------------- MODULE Paths -------------------------------
(***************************************************************************)
(* The paths of the three storage adapters.  A path is a sequence of       *)
(* separators, names and, in front, perhaps a drive; the code scans it     *)
(* character by character, with the same outcome.  Offsets count from 0.   *)
(***************************************************************************)
EXTENDS Naturals, SequencesExt

Slash     == "/"
BackSlash == "\\"
Drive     == "C:"
Here      == "."

IsSep(t)     == t \in {Slash, BackSlash}
IsName(t)    == ~IsSep(t) /\ t # Here
HasDrive(p)  == p # <<>> /\ p[1] = Drive
Cut(p, n)    == SubSeq(p, 1, n)
LastSep(p)   == Max({0} \cup {i \in DOMAIN p : IsSep(p[i])})

\* Where a backward scan over separators, from n down to some root, ends.
TrimSeps(p, n, root) == Min({k \in root..n : \A i \in (k + 1)..n : IsSep(p[i])})

\* Where a forward scan from an offset meets a separator, or anything else.
ScanTo(p, from, sep) ==
  Min({k \in from..Len(p) : k = Len(p) \/ IsSep(p[k + 1]) = sep})

-----------------------------------------------------------------------------
PosixParent(p) ==
  LET before == LastSep(p) - 1
      cut    == IF before <= 1 THEN Cut(p, before) ELSE Cut(p, TrimSeps(p, before, 1))
  IN  IF LastSep(p) = 0 THEN <<Here>> ELSE IF cut = <<>> THEN <<Slash>> ELSE cut

PosixJoin(p, name) == p \o <<Slash, name>>

-----------------------------------------------------------------------------
\* The drive, with the separator behind it; host and share of a UNC path; one
\* separator; nothing.
IsShare(p) == ~HasDrive(p) /\ Len(p) >= 2 /\ IsSep(p[1]) /\ IsSep(p[2])
Share(p)   == ScanTo(p, ScanTo(p, 2, TRUE), FALSE)

RootLength(p) ==
  LET end == ScanTo(p, Share(p), TRUE)
  IN  IF HasDrive(p) THEN (IF Len(p) >= 2 /\ IsSep(p[2]) THEN 2 ELSE 1)
      ELSE IF IsShare(p) THEN (IF end < Len(p) THEN end + 1 ELSE end)
      ELSE IF p # <<>> /\ IsSep(p[1]) THEN 1 ELSE 0

\* Mutant: the separator behind the root is cut off as well.
WinParentShort(p) ==
  LET length == TrimSeps(p, Len(p), RootLength(p))
      parent == LastSep(Cut(p, length))
  IN  IF parent <= 1 THEN <<Here>> ELSE Cut(p, parent - 1)

WinParent(p) ==
  LET root   == RootLength(p)
      length == TrimSeps(p, Len(p), root)
      cursor == Max({root} \cup {i \in (root + 1)..length : IsSep(p[i])})
      parent == TrimSeps(p, IF cursor <= root THEN root ELSE cursor - 1, root)
  IN  IF (cursor <= root /\ root = 0) \/ parent = 0 THEN <<Here>> ELSE Cut(p, parent)

\* Win32 and DOS join alike, but for the separator they put in.
JoinWith(p, name, sep) ==
  IF p # <<>> /\ IsSep(Last(p)) THEN Append(p, name) ELSE p \o <<sep, name>>

WinJoin(p, name) == JoinWith(p, name, BackSlash)

-----------------------------------------------------------------------------
DosParent(p) ==
  LET floor == IF HasDrive(p) THEN 2 ELSE 1
      q     == IF Len(p) <= floor THEN p ELSE Cut(p, TrimSeps(p, Len(p), floor))
      last  == LastSep(q)
  IN  IF last = 0 THEN <<Here>>
      ELSE IF last = 1 THEN Cut(q, 1)
      ELSE IF last = 2 /\ HasDrive(q) THEN Cut(q, 2)
      ELSE Cut(q, TrimSeps(q, last - 1, 0))

DosJoin(p, name) == JoinWith(p, name, Slash)

-----------------------------------------------------------------------------
Parent(adapter, p) ==
  CASE adapter = "win32" -> WinParent(p)
    [] adapter = "djgpp" -> DosParent(p)
    [] OTHER             -> PosixParent(p)

Join(adapter, p, name) ==
  CASE adapter = "win32" -> WinJoin(p, name)
    [] adapter = "djgpp" -> DosJoin(p, name)
    [] OTHER             -> PosixJoin(p, name)

\* What a path means to the file system: a starting point and names to follow.
NamesIn(p) ==
  LET upto[n \in 0..Len(p)] ==
        IF n = 0 THEN <<>> ELSE IF IsName(p[n]) THEN Append(upto[n - 1], p[n]) ELSE upto[n - 1]
  IN  upto[Len(p)]

RootEnd(adapter, p) ==
  IF adapter = "win32" THEN RootLength(p)
  ELSE ScanTo(p, IF adapter = "djgpp" /\ HasDrive(p) THEN 1 ELSE 0, FALSE)

\* The paths the File Manager starts from: a network path has its share, a
\* drive its separator, and there is but one separator in a root of DOS.
Rooted(adapter, p) ==
  /\ p # <<>>
  /\ adapter = "win32" /\ IsShare(p) => Share(p) < Len(p)
  /\ adapter \in {"win32", "djgpp"} /\ HasDrive(p) => Len(p) >= 2 /\ IsSep(p[2])
  /\ adapter = "djgpp" => RootEnd(adapter, p) <= IF HasDrive(p) THEN 2 ELSE 1

Follow(adapter, p) == NamesIn(SubSeq(p, RootEnd(adapter, p) + 1, Len(p)))

Meaning(adapter, p) ==
  LET root == Cut(p, RootEnd(adapter, p))
  IN  [root |-> NamesIn(root), absolute |-> root \notin {<<>>, <<Drive>>}, names |-> Follow(adapter, p)]
=============================================================================
