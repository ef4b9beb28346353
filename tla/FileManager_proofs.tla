------------------------- MODULE FileManager_proofs -------------------------
(***************************************************************************)
(* Theorems about the File Manager for any names, folders, paths, adapters *)
(* and rows on the screen, and any number of calls, failures and acts of   *)
(* other programs: the selection is right, the list is the folder, nothing *)
(* is lost, and the way up undoes the way down.  The path of a name in a   *)
(* folder leads to what has that name; on that rests what a rename or      *)
(* creation does to the folder it shows.                                   *)
(***************************************************************************)
EXTENDS FileManager, FiniteSetTheorems, SequenceTheorems, WellFoundedInduction,
        NaturalsInduction, TLAPS

\* Of some numbers one is the least.
LEMMA LeastExists ==
  ASSUME NEW S \in SUBSET Nat, S # {}
  PROVE  \E x \in S : \A y \in S : x <= y
<1> DEFINE R == OpToRel(<, Nat)
<1>1. \A x, y \in Nat : x < y => <<x, y>> \in R
  BY DEF OpToRel
<1>2. IsWellFoundedOn(R, Nat)
  BY NatLessThanWellFounded, Zenon
<1> HIDE DEF R
<1>3. PICK x \in S : \A y \in S : ~(<<y, x>> \in R)
  BY <1>2, WFMin
<1>4. \A y \in S : x <= y
  <2> SUFFICES ASSUME NEW y \in S PROVE x <= y
    OBVIOUS
  <2>1. x \in Nat /\ y \in Nat /\ ~(y < x)
    BY <1>1, <1>3
  <2> QED  BY <2>1
<1> QED  BY <1>4

\* So Min is one of the numbers, and no greater than another.
LEMMA MinRight ==
  ASSUME NEW S \in SUBSET Nat, S # {}
  PROVE  Min(S) \in S /\ \A x \in S : Min(S) <= x
BY LeastExists DEF Min

\* Of some numbers up to n one is the greatest.
LEMMA MaxRight ==
  ASSUME NEW n \in Nat, NEW S \in SUBSET (0..n), S # {}
  PROVE  Max(S) \in S /\ \A x \in S : x <= Max(S)
<1> DEFINE T == {m \in 0..n : n - m \in S}
<1>1. PICK x \in S : TRUE
  OBVIOUS
<1>2. n - x \in T /\ T \in SUBSET Nat
  BY <1>1
<1>3. PICK m \in T : \A k \in T : m <= k
  BY <1>2, LeastExists
<1>4. n - m \in S /\ m \in 0..n
  BY <1>3
<1>5. ASSUME NEW y \in S PROVE y <= n - m
  <2>1. y \in 0..n /\ n - y \in 0..n /\ n - (n - y) = y
    OBVIOUS
  <2>2. n - y \in T
    BY <2>1
  <2>3. m <= n - y
    BY <1>3, <2>2
  <2> HIDE DEF T
  <2> QED  BY <1>4, <2>1, <2>3
<1>6. \E z \in S : \A y \in S : z >= y
  BY <1>4, <1>5
<1>7. Max(S) \in S /\ \A y \in S : Max(S) >= y
  BY <1>6 DEF Max
<1> QED  BY <1>7

\* What is true of 0, and of the next number, is true of all up to N.
LEMMA Stepwise ==
  ASSUME NEW N \in Nat, NEW S, 0 \in S,
         \A n \in 0..N : n < N /\ n \in S => n + 1 \in S
  PROVE  0..N \subseteq S
<1> DEFINE Rest == {n \in 0..N : n \notin S}
<1> SUFFICES ASSUME Rest # {} PROVE FALSE
  OBVIOUS
<1>1. Rest \in SUBSET Nat
  OBVIOUS
<1>2. PICK x \in Rest : \A y \in Rest : x <= y
  BY <1>1, LeastExists
<1>3. x \in 0..N /\ x # 0
  BY <1>2
<1>4. x - 1 \in 0..N /\ x - 1 < N /\ x - 1 + 1 = x /\ ~(x <= x - 1)
  BY <1>3
<1>5. x - 1 \in S
  BY <1>2, <1>4
<1>6. x \in S
  BY <1>4, <1>5
<1> QED  BY <1>2, <1>6

-----------------------------------------------------------------------------
(***************************************************************************)
(* Paths.                                                                  *)
(***************************************************************************)
Text == STRING \cup {Slash, BackSlash, Here}

\* Where a scan ends: it has met what it looks for, and nothing before that.
LEMMA ScanRight ==
  ASSUME NEW p \in Seq(Text), NEW from \in 0..Len(p), NEW sep \in BOOLEAN
  PROVE  /\ ScanTo(p, from, sep) \in from..Len(p)
         /\ \/ ScanTo(p, from, sep) = Len(p)
            \/ IsSep(p[ScanTo(p, from, sep) + 1]) <=> sep
         /\ \A k \in from..Len(p) : (IsSep(p[k + 1]) <=> sep) => ScanTo(p, from, sep) <= k
<1> DEFINE S == {k \in from..Len(p) : k = Len(p) \/ IsSep(p[k + 1]) = sep}
<1>1. Len(p) \in S /\ S \in SUBSET Nat
  OBVIOUS
<1>2. ScanTo(p, from, sep) = Min(S)
  BY DEF ScanTo
<1>3. Min(S) \in S /\ \A k \in S : Min(S) <= k
  BY <1>1, MinRight
<1> HIDE DEF S
<1>4. ScanTo(p, from, sep) \in S /\ \A k \in S : ScanTo(p, from, sep) <= k
  BY <1>2, <1>3
<1>5. \A k : (IsSep(p[k + 1]) <=> sep) <=> IsSep(p[k + 1]) = sep
  BY DEF IsSep
<1> QED  BY <1>4, <1>5 DEF S

\* A path goes on as another.
Begins(p, q) ==
  /\ p \in Seq(Text) /\ q \in Seq(Text) /\ Len(p) <= Len(q)
  /\ \A i \in 1..Len(p) : q[i] = p[i]

\* A scan that ends in the first of them ends there in the other.
LEMMA ScanKept ==
  ASSUME NEW p, NEW q, Begins(p, q), NEW from \in 0..Len(p), NEW sep \in BOOLEAN
  PROVE  /\ ScanTo(p, from, sep) <= ScanTo(q, from, sep)
         /\ \/ ScanTo(p, from, sep) < Len(p)
            \/ ScanTo(q, from, sep) < Len(p)
            => ScanTo(q, from, sep) = ScanTo(p, from, sep)
<1> DEFINE v == ScanTo(p, from, sep)
           w == ScanTo(q, from, sep)
<1>1. /\ p \in Seq(Text) /\ q \in Seq(Text) /\ Len(p) \in Nat /\ Len(q) \in Nat
      /\ Len(p) <= Len(q) /\ \A i \in 1..Len(p) : q[i] = p[i]
  BY DEF Begins
<1>2. /\ v \in from..Len(p) /\ (v = Len(p) \/ (IsSep(p[v + 1]) <=> sep))
      /\ \A k \in from..Len(p) : (IsSep(p[k + 1]) <=> sep) => v <= k
  BY <1>1, ScanRight
<1>3. /\ w \in from..Len(q) /\ (w = Len(q) \/ (IsSep(q[w + 1]) <=> sep))
      /\ \A k \in from..Len(q) : (IsSep(q[k + 1]) <=> sep) => w <= k
  <2>1. from \in 0..Len(q)
    BY <1>1
  <2> QED  BY <1>1, <2>1, ScanRight
<1> HIDE DEF v, w
<1>4. v <= w
  <2> SUFFICES ASSUME w < v PROVE FALSE
    BY <1>2, <1>3
  <2>1. w + 1 \in 1..Len(p) /\ w # Len(q)
    BY <1>1, <1>2, <1>3
  <2>2. IsSep(p[w + 1]) <=> sep
    BY <1>1, <1>3, <2>1
  <2> QED  BY <1>1, <1>2, <1>3, <2>2
<1>5. v < Len(p) => w <= v
  <2> SUFFICES ASSUME v < Len(p) PROVE w <= v
    OBVIOUS
  <2>1. v + 1 \in 1..Len(p) /\ v \in from..Len(q)
    BY <1>1, <1>2
  <2>2. IsSep(q[v + 1]) <=> sep
    BY <1>1, <1>2, <2>1
  <2> QED  BY <1>3, <2>1, <2>2
<1> QED  BY <1>1, <1>2, <1>3, <1>4, <1>5 DEF v, w

\* Host and share of a network path are both there.
Whole(a, p) == p \in Seq(Text) /\ (a = "win32" /\ IsShare(p) => Share(p) < Len(p))

\* What a path begins with, as far as it is no name to follow.
Skipped(a, p, i) == i <= RootEnd(a, p) \/ ~IsName(p[i])

\* The names of files are neither separators nor a drive's letter that begins a path.
LEMMA NamesRight ==
  \A n \in FileNames : n \in Text /\ ~IsSep(n) /\ n # Here
<1> SUFFICES ASSUME NEW n \in FileNames PROVE n \in Text /\ ~IsSep(n) /\ n # Here
  OBVIOUS
<1>1. Order \in Seq(STRING) /\ IsName(n)
  BY FileManagerAssumption
<1>2. n \in ToSet(Order)
  BY DEF FileNames
<1>3. n \in STRING
  BY <1>1, <1>2 DEF ToSet
<1> QED  BY <1>1, <1>3 DEF IsName, Text

\* A path, a separator if it has none at its end, and a name.
Joined(p, name, q) ==
  /\ q \in Seq(Text) /\ Begins(p, q) /\ q[Len(q)] = name
  /\ \/ Len(q) = Len(p) + 1 /\ p # <<>> /\ IsSep(p[Len(p)])
     \/ Len(q) = Len(p) + 2 /\ IsSep(q[Len(p) + 1])

\* That is what every adapter makes of a path and a name.
LEMMA JoinShape ==
  ASSUME NEW a, NEW p \in Seq(Text), NEW name \in FileNames
  PROVE  Joined(p, name, Join(a, p, name))
<1>1. name \in Text
  BY NamesRight
<1>2. ASSUME NEW sep \in {Slash, BackSlash} PROVE Joined(p, name, p \o <<sep, name>>)
  <2> DEFINE t == <<sep, name>>
             q == p \o t
  <2>1. sep \in Text /\ IsSep(sep)
    BY DEF IsSep, Text
  <2>2. t \in Seq(Text) /\ Len(t) = 2 /\ t[1] = sep /\ t[2] = name
    BY <1>1, <2>1
  <2> HIDE DEF t
  <2>3. /\ q \in Seq(Text) /\ Len(q) = Len(p) + 2
        /\ \A i \in 1..(Len(p) + 2) : q[i] = IF i <= Len(p) THEN p[i] ELSE t[i - Len(p)]
    <3>1. /\ q \in Seq(Text) /\ Len(q) = Len(p) + Len(t)
          /\ \A i \in 1..(Len(p) + Len(t)) : q[i] = IF i <= Len(p) THEN p[i] ELSE t[i - Len(p)]
      BY <2>2, ConcatProperties, Zenon
    <3> HIDE DEF q
    <3> QED  BY <2>2, <3>1
  <2>4. Len(p) \in Nat
    OBVIOUS
  <2> HIDE DEF q
  <2>5. Len(p) + 1 - Len(p) = 1 /\ Len(p) + 2 - Len(p) = 2
    BY <2>4
  <2>6. q[Len(p) + 1] = sep /\ q[Len(p) + 2] = name
    BY <2>2, <2>3, <2>4, <2>5
  <2>7. \A i \in 1..Len(p) : q[i] = p[i]
    BY <2>3, <2>4
  <2>8. Joined(p, name, q)
    BY <2>1, <2>3, <2>4, <2>6, <2>7 DEF Joined, Begins
  <2> QED  BY <2>8 DEF q, t
<1>3. ASSUME NEW sep \in {Slash, BackSlash} PROVE Joined(p, name, JoinWith(p, name, sep))
  <2>1. CASE p # <<>> /\ IsSep(Last(p))
    <3> DEFINE q == Append(p, name)
    <3>1. q = JoinWith(p, name, sep)
      BY <2>1 DEF JoinWith
    <3>2. /\ q \in Seq(Text) /\ Len(q) = Len(p) + 1 /\ q[Len(p) + 1] = name /\ Len(p) \in Nat
          /\ \A i \in 1..Len(p) : q[i] = p[i]
      BY <1>1, AppendProperties
    <3>3. IsSep(p[Len(p)])
      BY <2>1 DEF Last
    <3> HIDE DEF q
    <3> QED  BY <2>1, <3>1, <3>2, <3>3 DEF Joined, Begins
  <2>2. CASE ~(p # <<>> /\ IsSep(Last(p)))
    BY <1>2, <2>2 DEF JoinWith
  <2> QED  BY <2>1, <2>2
<1> QED  BY <1>2, <1>3 DEF Join, PosixJoin, WinJoin, DosJoin

\* The root of a joined path is before its name, and the same things are skipped.
SameRoot(a, p, q) ==
  /\ RootEnd(a, q) \in 0..(Len(q) - 1)
  /\ \A i \in 1..Len(p) : i <= RootEnd(a, q) <=> i <= RootEnd(a, p)
  /\ \A i \in 1..Len(p) : Skipped(a, q, i) <=> Skipped(a, p, i)

\* No separator is put behind another one.
Tight(p, q) == Len(q) = Len(p) + 2 => p = <<>> \/ ~IsSep(p[Len(p)])

\* So it is where the root is a run of separators, perhaps behind a drive.
LEMMA PosixRoot ==
  ASSUME NEW a, a # "win32", NEW p \in Seq(Text), NEW name \in FileNames,
         NEW q, Joined(p, name, q)
  PROVE  SameRoot(a, p, q)
<1> DEFINE from == IF a = "djgpp" /\ HasDrive(p) THEN 1 ELSE 0
           to   == IF a = "djgpp" /\ HasDrive(q) THEN 1 ELSE 0
<1>1. /\ Len(p) \in Nat /\ Len(q) \in Nat /\ Len(q) > Len(p) /\ q \in Seq(Text)
      /\ Begins(p, q) /\ q[Len(q)] = name /\ \A i \in 1..Len(p) : q[i] = p[i]
      /\ p = <<>> <=> Len(p) = 0
  BY DEF Joined, Begins
<1>2. from = to /\ from \in 0..Len(p)
  <2>1. CASE p = <<>>
    <3>1. Len(q) = 2 /\ IsSep(q[1])
      BY <1>1, <2>1 DEF Joined
    <3>2. ~HasDrive(q) /\ ~HasDrive(p)
      BY <2>1, <3>1 DEF HasDrive, IsSep, Drive, Slash, BackSlash
    <3> QED  BY <1>1, <3>2
  <2>2. CASE p # <<>>
    <3>1. q[1] = p[1] /\ q # <<>> /\ Len(p) >= 1
      BY <1>1, <2>2
    <3> QED  BY <2>2, <3>1 DEF HasDrive
  <2> QED  BY <2>1, <2>2
<1> DEFINE v == ScanTo(p, from, FALSE)
           w == ScanTo(q, from, FALSE)
<1>3. RootEnd(a, p) = v /\ RootEnd(a, q) = w
  BY <1>2 DEF RootEnd
<1> HIDE DEF from, to
<1>4. from \in 0..Len(q)
  BY <1>1, <1>2
<1>5. v \in from..Len(p) /\ w \in from..Len(q)
  BY <1>1, <1>2, <1>4, ScanRight
<1>6. ~IsSep(q[Len(q) - 1 + 1]) /\ Len(q) - 1 \in from..Len(q)
  BY <1>1, <1>2, NamesRight
<1>7. w <= Len(q) - 1
  <2>1. \A k \in from..Len(q) : ~IsSep(q[k + 1]) => w <= k
    BY <1>1, <1>4, ScanRight
  <2> HIDE DEF w
  <2> QED  BY <1>6, <2>1
<1>8. v <= w /\ (v < Len(p) \/ w < Len(p) => w = v)
  BY <1>1, <1>2, ScanKept
<1> HIDE DEF v, w
<1>9. \A i \in 1..Len(p) : i <= w <=> i <= v
  BY <1>1, <1>5, <1>8
<1> QED  BY <1>1, <1>2, <1>3, <1>5, <1>7, <1>9 DEF SameRoot, Skipped

\* Where the share of a network path ends.
ShareEnd(p) == ScanTo(p, Share(p), TRUE)

\* Where the share of a network path begins and ends, and its root.
LEMMA ShareRight ==
  ASSUME NEW p \in Seq(Text), IsShare(p)
  PROVE  /\ Len(p) \in Nat /\ Len(p) >= 2
         /\ ScanTo(p, 2, TRUE) \in 0..Len(p)
         /\ ScanTo(p, 2, TRUE) <= Share(p)
         /\ Share(p) \in 0..Len(p) /\ ShareEnd(p) \in Share(p)..Len(p)
         /\ Share(p) < Len(p) => Share(p) < ShareEnd(p)
         /\ \A k \in Share(p)..Len(p) : IsSep(p[k + 1]) => ShareEnd(p) <= k
         /\ RootLength(p) = IF ShareEnd(p) < Len(p) THEN ShareEnd(p) + 1 ELSE ShareEnd(p)
<1> DEFINE host == ScanTo(p, 2, TRUE)
<1>1. Len(p) \in Nat /\ Len(p) >= 2 /\ ~HasDrive(p)
  BY DEF IsShare
<1>2. host \in 2..Len(p)
  <2>1. 2 \in 0..Len(p)
    BY <1>1
  <2> QED  BY <2>1, ScanRight
<1>3. Share(p) = ScanTo(p, host, FALSE)
  BY DEF Share
<1> HIDE DEF host
<1>4. host \in 0..Len(p)
  BY <1>1, <1>2
<1>5. /\ Share(p) \in host..Len(p) /\ (Share(p) = Len(p) \/ ~IsSep(p[Share(p) + 1]))
  BY <1>3, <1>4, ScanRight
<1>6. Share(p) \in 0..Len(p)
  BY <1>1, <1>4, <1>5
<1>7. /\ ShareEnd(p) \in Share(p)..Len(p)
      /\ ShareEnd(p) = Len(p) \/ IsSep(p[ShareEnd(p) + 1])
      /\ \A k \in Share(p)..Len(p) : IsSep(p[k + 1]) => ShareEnd(p) <= k
  BY <1>6, ScanRight DEF ShareEnd
<1>8. RootLength(p) = IF ShareEnd(p) < Len(p) THEN ShareEnd(p) + 1 ELSE ShareEnd(p)
  BY <1>1 DEF RootLength, ShareEnd
<1>9. Share(p) < Len(p) => Share(p) < ShareEnd(p)
  BY <1>1, <1>5, <1>6, <1>7
<1>10. host <= Share(p)
  BY <1>1, <1>4, <1>5
<1> QED  BY <1>1, <1>4, <1>6, <1>7, <1>8, <1>9, <1>10 DEF host

\* A path that goes on has the same share, if it is whole in one of them.
LEMMA ShareKept ==
  ASSUME NEW p, NEW q, Begins(p, q), IsShare(p), IsShare(q),
         Share(p) < Len(p) \/ Share(q) < Len(p)
  PROVE  Share(q) = Share(p)
<1> DEFINE h == ScanTo(p, 2, TRUE)
           g == ScanTo(q, 2, TRUE)
<1>1. p \in Seq(Text) /\ q \in Seq(Text) /\ Len(p) <= Len(q)
  BY DEF Begins
<1>2. /\ Len(p) \in Nat /\ Len(p) >= 2 /\ h \in 0..Len(p) /\ h <= Share(p) /\ Share(p) \in 0..Len(p)
  BY <1>1, ShareRight
<1>3. /\ Len(q) \in Nat /\ g \in 0..Len(q) /\ g <= Share(q) /\ Share(q) \in 0..Len(q)
  BY <1>1, ShareRight
<1>4. h < Len(p) \/ g < Len(p)
  <2> HIDE DEF h, g
  <2> QED  BY <1>2, <1>3
<1>5. g = h
  <2>1. 2 \in 0..Len(p)
    BY <1>2
  <2> QED  BY <1>4, <2>1, ScanKept
<1>6. Share(p) = ScanTo(p, h, FALSE) /\ Share(q) = ScanTo(q, h, FALSE)
  BY <1>5 DEF Share
<1> HIDE DEF h, g
<1> QED  BY <1>2, <1>6, ScanKept

\* The root of a path is a beginning of it.
LEMMA RootRight ==
  ASSUME NEW p \in Seq(Text)
  PROVE  RootLength(p) \in 0..Len(p)
<1>1. Len(p) \in Nat /\ (p = <<>> <=> Len(p) = 0)
  OBVIOUS
<1>2. CASE IsShare(p)
  <2>1. /\ Share(p) \in 0..Len(p) /\ ShareEnd(p) \in Share(p)..Len(p)
        /\ RootLength(p) = IF ShareEnd(p) < Len(p) THEN ShareEnd(p) + 1 ELSE ShareEnd(p)
    BY <1>2, ShareRight
  <2> QED  BY <1>1, <2>1
<1>3. CASE HasDrive(p)
  BY <1>1, <1>3 DEF RootLength, HasDrive
<1>4. CASE ~IsShare(p) /\ ~HasDrive(p)
  BY <1>1, <1>4 DEF RootLength
<1> QED  BY <1>2, <1>3, <1>4

\* So its share ends at the same place, if that is before its end.
LEMMA ShareEndKept ==
  ASSUME NEW p, NEW q, Begins(p, q), Share(p) \in 0..Len(p), Share(q) = Share(p)
  PROVE  /\ ShareEnd(p) <= ShareEnd(q)
         /\ ShareEnd(p) < Len(p) \/ ShareEnd(q) < Len(p) => ShareEnd(q) = ShareEnd(p)
BY ScanKept DEF ShareEnd

\* So it is on Windows, if the share of a network path is whole.
LEMMA WinRoot ==
  ASSUME NEW p, Whole("win32", p), NEW name \in FileNames, NEW q, Joined(p, name, q), Tight(p, q)
  PROVE  SameRoot("win32", p, q) /\ Whole("win32", q)
<1>1. /\ Len(p) \in Nat /\ Len(q) \in Nat /\ Len(q) > Len(p) /\ q \in Seq(Text) /\ p \in Seq(Text)
      /\ Begins(p, q) /\ q[Len(q)] = name /\ \A i \in 1..Len(p) : q[i] = p[i]
      /\ p = <<>> <=> Len(p) = 0
      /\ \/ Len(q) = Len(p) + 1 /\ Len(p) # 0 /\ IsSep(p[Len(p)])
         \/ Len(q) = Len(p) + 2 /\ IsSep(q[Len(p) + 1]) /\ (Len(p) = 0 \/ ~IsSep(p[Len(p)]))
  BY DEF Joined, Begins, Whole, Tight
<1>9. /\ Len(p) \in Nat
      /\ \/ Len(q) = Len(p) + 1 /\ Len(p) # 0
         \/ Len(q) = Len(p) + 2 /\ (Len(p) = 0 \/ ~IsSep(p[Len(p)]))
  BY <1>1, Zenon
<1>2. ~IsSep(name)
  BY NamesRight
<1>3. RootEnd("win32", p) = RootLength(p) /\ RootEnd("win32", q) = RootLength(q)
  BY DEF RootEnd
<1>4. HasDrive(p) \/ HasDrive(q) => HasDrive(p) /\ HasDrive(q) /\ Len(p) >= 1
  <2>1. CASE p = <<>>
    <3>1. Len(q) = 2 /\ IsSep(q[1])
      BY <1>1, <2>1
    <3> QED  BY <2>1, <3>1 DEF HasDrive, IsSep, Drive, Slash, BackSlash
  <2>2. CASE p # <<>>
    <3>1. q[1] = p[1] /\ q # <<>> /\ Len(p) >= 1
      BY <1>1, <2>2
    <3> QED  BY <2>2, <3>1 DEF HasDrive
  <2> QED  BY <2>1, <2>2
<1>5. IsShare(p) \/ IsShare(q) => IsShare(p) /\ IsShare(q)
  <2>1. CASE Len(p) >= 2
    <3>1. q[1] = p[1] /\ q[2] = p[2] /\ Len(q) >= 2
      BY <1>1, <2>1
    <3> QED  BY <1>4, <2>1, <3>1 DEF IsShare
  <2>2. CASE Len(p) < 2
    <3>1. q[2] = name \/ ~IsSep(q[1])
      <4>1. CASE Len(q) = 2
        BY <1>1, <4>1
      <4>2. CASE Len(q) = 3
        <5>1. Len(p) = 1
          <6>1. \A n, m \in Nat : n < 2 /\ m = 3 /\ (m = n + 1 \/ m = n + 2) => n = 1
            OBVIOUS
          <6> QED  BY <1>9, <2>2, <4>2, <6>1, Zenon
        <5>2. ~IsSep(p[1]) /\ q[1] = p[1]
          BY <1>1, <1>9, <4>2, <5>1
        <5> QED  BY <5>2
      <4> QED  BY <1>1, <2>2, <4>1, <4>2
    <3> QED  BY <1>1, <1>2, <2>2, <3>1 DEF IsShare
  <2> QED  BY <1>1, <2>1, <2>2
<1>6. CASE IsShare(p)
  <2>1. IsShare(q) /\ Share(p) < Len(p)
    BY <1>5, <1>6 DEF Whole
  <2>2. Share(q) = Share(p)
    BY <1>1, <1>6, <2>1, ShareKept
  <2>3. /\ Share(p) \in 0..Len(p) /\ ShareEnd(p) \in Share(p)..Len(p) /\ Share(p) < ShareEnd(p)
        /\ \A k \in Share(p)..Len(p) : IsSep(p[k + 1]) => ShareEnd(p) <= k
        /\ RootLength(p) = IF ShareEnd(p) < Len(p) THEN ShareEnd(p) + 1 ELSE ShareEnd(p)
    BY <1>1, <1>6, <2>1, ShareRight
  <2>4. /\ ShareEnd(q) \in Share(q)..Len(q)
        /\ \A k \in Share(q)..Len(q) : IsSep(q[k + 1]) => ShareEnd(q) <= k
        /\ RootLength(q) = IF ShareEnd(q) < Len(q) THEN ShareEnd(q) + 1 ELSE ShareEnd(q)
    BY <1>1, <2>1, ShareRight
  <2>5. /\ ShareEnd(p) <= ShareEnd(q)
        /\ ShareEnd(p) < Len(p) \/ ShareEnd(q) < Len(p) => ShareEnd(q) = ShareEnd(p)
    BY <1>1, <2>2, <2>3, ShareEndKept
  <2>6. ShareEnd(p) = Len(p) => Len(q) = Len(p) + 2 /\ IsSep(q[Len(p) + 1])
    <3> SUFFICES ASSUME ShareEnd(p) = Len(p), Len(p) # 0, IsSep(p[Len(p)]) PROVE FALSE
      BY <1>1, <2>1, <2>3
    <3>1. Len(p) - 1 \in Share(p)..Len(p) /\ Len(p) - 1 + 1 = Len(p)
      BY <1>1, <2>1, <2>3
    <3>2. ShareEnd(p) <= Len(p) - 1
      BY <2>3, <3>1
    <3> QED  BY <1>1, <3>2
  <2>7. ShareEnd(p) = Len(p) => ShareEnd(q) <= Len(p)
    <3> SUFFICES ASSUME ShareEnd(p) = Len(p) PROVE ShareEnd(q) <= Len(p)
      OBVIOUS
    <3>1. Len(p) \in Share(q)..Len(q)
      BY <1>1, <2>1, <2>2, <2>3
    <3> QED  BY <2>4, <2>6, <3>1
  <2>8. /\ RootLength(q) \in 0..(Len(q) - 1)
        /\ \A i \in 1..Len(p) : i <= RootLength(q) <=> i <= RootLength(p)
    <3>1. CASE ShareEnd(p) < Len(p)
      BY <1>1, <2>2, <2>3, <2>4, <2>5, <3>1
    <3>2. CASE ShareEnd(p) = Len(p)
      BY <1>1, <2>2, <2>3, <2>4, <2>5, <2>6, <2>7, <3>2
    <3> QED  BY <1>1, <2>3, <3>1, <3>2
  <2>9. Share(q) < Len(q)
    BY <1>1, <2>1, <2>2, <2>3
  <2> QED  BY <1>1, <1>3, <2>8, <2>9 DEF SameRoot, Skipped, Whole
<1>7. CASE HasDrive(p)
  <2>1. /\ RootLength(p) = (IF Len(p) >= 2 /\ IsSep(p[2]) THEN 2 ELSE 1)
        /\ RootLength(q) = (IF Len(q) >= 2 /\ IsSep(q[2]) THEN 2 ELSE 1)
        /\ Len(p) >= 1 /\ ~IsSep(p[1]) /\ ~IsShare(q)
    BY <1>4, <1>7 DEF RootLength, IsShare, HasDrive, IsSep, Drive, Slash, BackSlash
  <2>2. CASE Len(p) >= 2
    <3>1. q[2] = p[2]
      BY <1>1, <2>2
    <3>2. RootLength(q) = RootLength(p) /\ RootLength(p) \in 1..2
      BY <1>1, <2>1, <2>2, <3>1
    <3> HIDE <2>1
    <3>3. RootLength(p) \in 0..(Len(q) - 1)
      BY <1>1, <2>2, <3>2
    <3> QED  BY <1>1, <1>3, <2>1, <3>2, <3>3 DEF SameRoot, Skipped, Whole
  <2>3. CASE Len(p) = 1
    <3>1. Len(q) = 3
      BY <1>1, <2>1, <2>3
    <3>2. RootLength(q) \in 1..2 /\ RootLength(p) = 1
      BY <2>1, <2>3
    <3> QED  BY <1>1, <1>3, <2>1, <2>3, <3>1, <3>2 DEF SameRoot, Skipped, Whole
  <2>4. Len(p) >= 2 \/ Len(p) = 1
    <3>1. Len(p) >= 1
      BY <1>4, <1>7, Zenon
    <3>2. \A n \in Nat : n >= 1 => n >= 2 \/ n = 1
      OBVIOUS
    <3> QED  BY <1>9, <3>1, <3>2, Zenon
  <2> QED  BY <2>2, <2>3, <2>4
<1>8. CASE ~IsShare(p) /\ ~HasDrive(p)
  <2>1. /\ RootLength(p) = IF p # <<>> /\ IsSep(p[1]) THEN 1 ELSE 0
        /\ RootLength(q) = IF q # <<>> /\ IsSep(q[1]) THEN 1 ELSE 0
        /\ ~IsShare(q)
    BY <1>4, <1>5, <1>8 DEF RootLength, IsShare
  <2>2. CASE Len(p) = 0
    <3>1. Len(q) = 2 /\ RootLength(q) \in 0..1
      BY <1>1, <2>1, <2>2
    <3> QED  BY <1>1, <1>3, <2>1, <2>2, <3>1 DEF SameRoot, Skipped, Whole
  <2>3. CASE Len(p) # 0
    <3>1. q[1] = p[1] /\ q # <<>> /\ Len(q) >= 2
      BY <1>1, <2>3
    <3>2. RootLength(q) = RootLength(p) /\ RootLength(p) \in 0..1
      BY <1>1, <2>1, <2>3, <3>1
    <3> QED  BY <1>1, <1>3, <2>1, <3>1, <3>2 DEF SameRoot, Skipped, Whole
  <2> QED  BY <2>2, <2>3
<1> QED  BY <1>6, <1>7, <1>8

\* What is cut off a path, and where.
LEMMA CutRight ==
  ASSUME NEW p \in Seq(Text), NEW n \in 0..Len(p)
  PROVE  Cut(p, n) \in Seq(Text) /\ Len(Cut(p, n)) = n /\ Begins(Cut(p, n), p)
<1>1. Len(p) \in Nat /\ n \in Int /\ 1 \in Int /\ \A i \in 1..n : p[i] \in Text
  OBVIOUS
<1>2. /\ Cut(p, n) \in Seq(Text)
      /\ Len(Cut(p, n)) = IF 1 <= n THEN n - 1 + 1 ELSE 0
      /\ \A i \in 1..(n - 1 + 1) : Cut(p, n)[i] = p[1 + i - 1]
  BY <1>1, SubSeqProperties DEF Cut
<1>3. Len(Cut(p, n)) = n /\ n <= Len(p)
  BY <1>2
<1>4. \A i \in 1..n : p[i] = Cut(p, n)[i]
  <2> SUFFICES ASSUME NEW i \in 1..n PROVE p[i] = Cut(p, n)[i]
    OBVIOUS
  <2>1. i \in 1..(n - 1 + 1) /\ 1 + i - 1 = i
    OBVIOUS
  <2> QED  BY <1>2, <2>1
<1> QED  BY <1>2, <1>3, <1>4 DEF Begins

\* A scan backwards over separators stays between its ends.
LEMMA TrimRight ==
  ASSUME NEW p, NEW root \in Nat, NEW n \in Nat, root <= n
  PROVE  TrimSeps(p, n, root) \in root..n
<1> DEFINE S == {k \in root..n : \A i \in (k + 1)..n : IsSep(p[i])}
<1>1. n \in S /\ S \in SUBSET Nat
  OBVIOUS
<1>2. Min(S) \in S
  BY <1>1, MinRight
<1> QED  BY <1>2 DEF TrimSeps

\* The last separator is a place of the path, or 0.
LEMMA LastSepRight ==
  ASSUME NEW p \in Seq(Text)
  PROVE  LastSep(p) \in 0..Len(p)
<1> DEFINE S == {0} \cup {i \in DOMAIN p : IsSep(p[i])}
<1>1. Len(p) \in Nat /\ S \in SUBSET (0..Len(p)) /\ S # {}
  OBVIOUS
<1>2. Max(S) \in S
  BY <1>1, MaxRight
<1> QED  BY <1>1, <1>2 DEF LastSep

\* What is above a path is a path: on POSIX,
LEMMA PosixParentRight ==
  ASSUME NEW p \in Seq(Text)
  PROVE  PosixParent(p) \in Seq(Text)
<1> DEFINE before == LastSep(p) - 1
           cut    == IF before <= 1 THEN Cut(p, before) ELSE Cut(p, TrimSeps(p, before, 1))
<1>1. Len(p) \in Nat /\ LastSep(p) \in 0..Len(p)
  BY LastSepRight
<1>2. ASSUME LastSep(p) # 0 PROVE cut \in Seq(Text)
  <2>1. before \in 0..Len(p)
    BY <1>1, <1>2
  <2> HIDE DEF before
  <2>2. before > 1 => TrimSeps(p, before, 1) \in 0..Len(p)
    <3>1. before > 1 => TrimSeps(p, before, 1) \in 1..before
      BY <2>1, TrimRight
    <3> QED  BY <1>1, <2>1, <3>1
  <2> QED  BY <2>1, <2>2, CutRight
<1> HIDE DEF cut
<1>3. <<Here>> \in Seq(Text) /\ <<Slash>> \in Seq(Text)
  BY DEF Text
<1> QED  BY <1>2, <1>3 DEF PosixParent, cut

\* on DOS,
LEMMA DosParentRight ==
  ASSUME NEW p \in Seq(Text)
  PROVE  DosParent(p) \in Seq(Text)
<1> DEFINE floor == IF HasDrive(p) THEN 2 ELSE 1
           q     == IF Len(p) <= floor THEN p ELSE Cut(p, TrimSeps(p, Len(p), floor))
<1>1. q \in Seq(Text)
  <2>1. Len(p) \in Nat /\ floor \in Nat
    OBVIOUS
  <2> HIDE DEF floor
  <2>2. CASE Len(p) > floor
    <3>1. TrimSeps(p, Len(p), floor) \in floor..Len(p)
      BY <2>1, <2>2, TrimRight
    <3>2. TrimSeps(p, Len(p), floor) \in 0..Len(p)
      BY <2>1, <3>1
    <3> QED  BY <3>2, CutRight
  <2> QED  BY <2>1, <2>2
<1> HIDE DEF q
<1>2. Len(q) \in Nat /\ LastSep(q) \in 0..Len(q)
  BY <1>1, LastSepRight
<1>3. LastSep(q) # 0 => Cut(q, TrimSeps(q, LastSep(q) - 1, 0)) \in Seq(Text)
  <2> SUFFICES ASSUME LastSep(q) # 0 PROVE Cut(q, TrimSeps(q, LastSep(q) - 1, 0)) \in Seq(Text)
    OBVIOUS
  <2>1. TrimSeps(q, LastSep(q) - 1, 0) \in 0..(LastSep(q) - 1)
    BY <1>2, TrimRight
  <2>2. TrimSeps(q, LastSep(q) - 1, 0) \in 0..Len(q)
    BY <1>2, <2>1
  <2> QED  BY <1>1, <2>2, CutRight
<1>4. /\ LastSep(q) = 1 => Cut(q, 1) \in Seq(Text)
      /\ LastSep(q) = 2 => Cut(q, 2) \in Seq(Text)
  BY <1>1, <1>2, CutRight
<1>5. <<Here>> \in Seq(Text)
  BY DEF Text
<1>6. DosParent(p) \in {<<Here>>, Cut(q, 1), Cut(q, 2), Cut(q, TrimSeps(q, LastSep(q) - 1, 0))}
  BY DEF DosParent, q, floor
<1> QED  BY <1>3, <1>4, <1>5 DEF DosParent, q, floor

\* and on Windows, where the share of a network path is never cut.
LEMMA WinParentRight ==
  ASSUME NEW p, Whole("win32", p)
  PROVE  Whole("win32", WinParent(p))
<1> DEFINE root   == RootLength(p)
           length == TrimSeps(p, Len(p), root)
           S      == {root} \cup {i \in (root + 1)..length : IsSep(p[i])}
           cursor == Max(S)
           upto   == IF cursor <= root THEN root ELSE cursor - 1
           parent == TrimSeps(p, upto, root)
<1>1. p \in Seq(Text) /\ Len(p) \in Nat
  BY DEF Whole
<1>2. root \in 0..Len(p)
  BY <1>1, RootRight
<1> HIDE DEF root
<1>3. length \in root..Len(p)
  BY <1>1, <1>2, TrimRight
<1> HIDE DEF length
<1>4. S \in SUBSET (0..Len(p)) /\ S # {}
  BY <1>1, <1>2, <1>3
<1>5. cursor \in S
  BY <1>1, <1>4, MaxRight
<1>6. cursor \in 0..Len(p) /\ cursor >= root
  BY <1>1, <1>2, <1>3, <1>5
<1> HIDE DEF cursor
<1>7. upto \in Nat /\ root <= upto /\ upto <= Len(p)
  BY <1>1, <1>2, <1>6
<1> HIDE DEF upto
<1>8. parent \in root..upto
  BY <1>2, <1>7, TrimRight
<1>9. parent \in 0..Len(p) /\ root <= parent
  BY <1>1, <1>2, <1>7, <1>8
<1>10. WinParent(p) = <<Here>> \/ WinParent(p) = Cut(p, parent)
  BY DEF WinParent, parent, upto, cursor, length, root
<1> HIDE DEF parent
<1>11. Whole("win32", <<Here>>)
  BY DEF Whole, IsShare, Text
<1>12. Whole("win32", Cut(p, parent))
  <2> DEFINE q == Cut(p, parent)
  <2>1. q \in Seq(Text) /\ Len(q) = parent /\ Begins(q, p)
    BY <1>1, <1>9, CutRight
  <2> HIDE DEF q
  <2> SUFFICES ASSUME IsShare(q) PROVE Share(q) < Len(q)
    BY <2>1 DEF Whole, q
  <2>2. Len(q) >= 2 /\ q[1] = p[1] /\ q[2] = p[2] /\ Len(p) >= 2 /\ q # <<>> /\ p # <<>>
    BY <1>1, <1>9, <2>1 DEF IsShare, Begins
  <2>3. IsShare(p)
    BY <2>2 DEF IsShare, HasDrive
  <2>4. Share(p) < Len(p)
    BY <2>3 DEF Whole
  <2>5. /\ Share(p) < ShareEnd(p) /\ ShareEnd(p) \in Share(p)..Len(p) /\ Share(p) \in 0..Len(p)
        /\ RootLength(p) = IF ShareEnd(p) < Len(p) THEN ShareEnd(p) + 1 ELSE ShareEnd(p)
    BY <1>1, <2>3, <2>4, ShareRight
  <2>6. Share(p) < parent
    BY <1>1, <1>9, <2>5 DEF root
  <2>7. Share(p) = Share(q)
    BY <2>1, <2>3, <2>6, ShareKept
  <2> QED  BY <2>1, <2>6, <2>7
<1> QED  BY <1>10, <1>11, <1>12

-----------------------------------------------------------------------------
(***************************************************************************)
(* The names in a path, which is what it means.                            *)
(***************************************************************************)
\* The names up to each place of a path.
Uptos(h, p) ==
  /\ DOMAIN h = 0..Len(p) /\ h[0] = <<>>
  /\ \A n \in 1..Len(p) : h[n] = IF IsName(p[n]) THEN Append(h[n - 1], p[n]) ELSE h[n - 1]

\* They exist, and the names of a path are those up to its end.
LEMMA NamesInRight ==
  ASSUME NEW p, Len(p) \in Nat
  PROVE  \E h : Uptos(h, p) /\ NamesIn(p) = h[Len(p)]
<1> DEFINE L == Len(p)
           Turn(f, i) == IF IsName(p[i]) THEN Append(f[i - 1], p[i]) ELSE f[i - 1]
           Upto(f, n) == f = [i \in 0..n |-> f[i]] /\ f[0] = <<>> /\ \A i \in 1..n : f[i] = Turn(f, i)
           S == {n \in 0..L : \E f : Upto(f, n)}
<1>1. L \in Nat
  OBVIOUS
<1>2. 0 \in S
  <2>1. Upto([i \in 0..0 |-> <<>>], 0)
    OBVIOUS
  <2> HIDE DEF Upto, L
  <2> QED  BY <1>1, <2>1
<1>3. ASSUME NEW n \in 0..L, n < L, n \in S PROVE n + 1 \in S
  <2> HIDE DEF L
  <2>1. PICK f : Upto(f, n)
    BY <1>3
  <2>2. n \in Nat /\ n + 1 \in 0..L
    BY <1>1, <1>3
  <2> HIDE DEF Turn
  <2> DEFINE v == Turn(f, n + 1)
             g == [i \in 0..(n + 1) |-> IF i = n + 1 THEN v ELSE f[i]]
  <2>3. g[n + 1] = v /\ \A i \in 0..n : g[i] = f[i]
    BY <2>2
  <2>4. g = [i \in 0..(n + 1) |-> g[i]] /\ g[0] = <<>>
    BY <2>1, <2>2, <2>3
  <2> HIDE DEF g, v
  <2>5. ASSUME NEW i \in 1..(n + 1) PROVE g[i] = Turn(g, i)
    <3>1. i - 1 \in 0..n /\ (i \in 1..n \/ i = n + 1)
      BY <2>2
    <3>2. g[i - 1] = f[i - 1]
      BY <2>3, <3>1
    <3>3. Turn(g, i) = Turn(f, i)
      BY <3>2 DEF Turn
    <3>4. g[i] = Turn(f, i)
      BY <2>1, <2>2, <2>3, <3>1 DEF v
    <3> QED  BY <3>3, <3>4
  <2>6. Upto(g, n + 1)
    BY <2>4, <2>5
  <2> QED  BY <2>2, <2>6
<1>4. L \in S
  <2> HIDE DEF S, L
  <2>1. 0..L \subseteq S
    BY <1>1, <1>2, <1>3, Stepwise
  <2> QED  BY <1>1, <2>1
<1>5. PICK f : Upto(f, L)
  BY <1>4
<1> DEFINE Fixed(h) == h = [n \in 0..L |-> IF n = 0 THEN <<>>
                              ELSE IF IsName(p[n]) THEN Append(h[n - 1], p[n]) ELSE h[n - 1]]
<1>6. Fixed(f)
  <2> DEFINE g == [n \in 0..L |-> IF n = 0 THEN <<>>
                     ELSE IF IsName(p[n]) THEN Append(f[n - 1], p[n]) ELSE f[n - 1]]
  <2>1. ASSUME NEW i \in 0..L PROVE f[i] = g[i]
    <3>1. i = 0 \/ i \in 1..L
      BY <1>1
    <3>2. i \in 1..L => f[i] = Turn(f, i)
      BY <1>5
    <3>3. f[0] = <<>>
      BY <1>5
    <3> HIDE DEF L, Upto
    <3> QED  BY <1>1, <3>1, <3>2, <3>3
  <2>2. f = [i \in 0..L |-> f[i]]
    BY <1>5
  <2> QED  BY <2>1, <2>2
<1> DEFINE h == CHOOSE h : Fixed(h)
<1>7. Fixed(h)
  BY <1>6
<1>8. NamesIn(p) = h[L]
  BY DEF NamesIn
<1> HIDE DEF h
<1>9. DOMAIN h = 0..L /\ h[0] = <<>>
  BY <1>1, <1>7
<1>10. ASSUME NEW n \in 1..L
       PROVE  h[n] = IF IsName(p[n]) THEN Append(h[n - 1], p[n]) ELSE h[n - 1]
  <2>1. n \in 0..L /\ n # 0
    BY <1>1
  <2> QED  BY <1>7, <2>1
<1>11. Uptos(h, p)
  BY <1>9, <1>10 DEF Uptos
<1> QED  BY <1>8, <1>11

\* What is no name adds none.
LEMMA NamesKept ==
  ASSUME NEW s, NEW t, Len(s) \in Nat, Len(t) \in Nat, Len(s) <= Len(t),
         \A i \in 1..Len(s) : t[i] = s[i],
         \A i \in (Len(s) + 1)..Len(t) : ~IsName(t[i])
  PROVE  NamesIn(t) = NamesIn(s)
<1> DEFINE K == Len(s)
           L == Len(t)
<1>1. PICK h : Uptos(h, s) /\ NamesIn(s) = h[K]
  BY NamesInRight
<1>2. PICK g : Uptos(g, t) /\ NamesIn(t) = g[L]
  BY NamesInRight
<1> DEFINE S == {n \in 0..L : g[n] = IF n <= K THEN h[n] ELSE h[K]}
<1>3. K \in Nat /\ L \in Nat /\ K <= L
  OBVIOUS
<1>4. 0 \in S
  BY <1>1, <1>2 DEF Uptos
<1>5. ASSUME NEW n \in 0..L, n < L, n \in S PROVE n + 1 \in S
  <2>1. PICK m \in 1..L : m = n + 1 /\ m - 1 = n
    BY <1>3, <1>5
  <2>2. g[m] = IF IsName(t[m]) THEN Append(g[n], t[m]) ELSE g[n]
    BY <1>2, <2>1 DEF Uptos
  <2>3. CASE m <= K
    <3>1. m \in 1..K /\ n <= K
      BY <1>3, <2>1, <2>3
    <3>2. h[m] = IF IsName(s[m]) THEN Append(h[n], s[m]) ELSE h[n]
      BY <1>1, <2>1, <3>1 DEF Uptos
    <3>3. t[m] = s[m] /\ g[n] = h[n]
      BY <1>5, <3>1
    <3>4. g[m] = h[m]
      BY <2>2, <3>2, <3>3
    <3> QED  BY <1>3, <2>1, <2>3, <3>4
  <2>4. CASE ~(m <= K)
    <3>1. m \in (K + 1)..L /\ g[n] = h[K]
      BY <1>3, <1>5, <2>1, <2>4
    <3>2. g[m] = h[K]
      BY <2>2, <3>1
    <3> QED  BY <1>3, <2>1, <2>4, <3>2
  <2> QED  BY <2>3, <2>4
<1> HIDE DEF S, K, L
<1>6. 0..L \subseteq S
  BY <1>3, <1>4, <1>5, Stepwise
<1>7. L \in S
  BY <1>3, <1>6
<1>8. g[L] = h[K]
  BY <1>3, <1>7 DEF S
<1> QED  BY <1>1, <1>2, <1>8

\* A path is another but for separators at its end.
Back(d, p) ==
  /\ Begins(d, p) /\ d # <<>>
  /\ \A i \in (Len(d) + 1)..Len(p) : IsSep(p[i])

\* A part of a path between two places.
LEMMA PartRight ==
  ASSUME NEW p \in Seq(Text), NEW m \in 0..Len(p)
  PROVE  /\ Cut(p, m) \in Seq(Text) /\ Len(Cut(p, m)) = m
         /\ \A i \in 1..m : Cut(p, m)[i] = p[i]
         /\ Len(SubSeq(p, m + 1, Len(p))) = Len(p) - m
         /\ \A i \in 1..(Len(p) - m) : SubSeq(p, m + 1, Len(p))[i] = p[m + i]
<1> DEFINE u == SubSeq(p, m + 1, Len(p))
<1>1. Len(p) \in Nat /\ m + 1 \in Int /\ Len(p) \in Int /\ m \in Int
      /\ \A i \in (m + 1)..Len(p) : p[i] \in Text
  OBVIOUS
<1>2. /\ Len(u) = IF m + 1 <= Len(p) THEN Len(p) - (m + 1) + 1 ELSE 0
      /\ \A i \in 1..(Len(p) - (m + 1) + 1) : u[i] = p[m + 1 + i - 1]
  BY <1>1, SubSeqProperties
<1> HIDE DEF u
<1>3. /\ Len(p) - (m + 1) + 1 = Len(p) - m /\ (m + 1 <= Len(p) \/ Len(p) - m = 0)
      /\ \A i \in 1..(Len(p) - m) : m + 1 + i - 1 = m + i
  BY <1>1
<1>4. Len(u) = Len(p) - m /\ \A i \in 1..(Len(p) - m) : u[i] = p[m + i]
  BY <1>1, <1>2, <1>3
<1>5. Begins(Cut(p, m), p) /\ Cut(p, m) \in Seq(Text) /\ Len(Cut(p, m)) = m
  BY CutRight
<1>6. \A i \in 1..m : Cut(p, m)[i] = p[i]
  BY <1>5 DEF Begins
<1> QED  BY <1>4, <1>5, <1>6 DEF u

\* The root of a path is a beginning of it.
LEMMA RootEndRight ==
  ASSUME NEW a, NEW p \in Seq(Text)
  PROVE  RootEnd(a, p) \in 0..Len(p)
<1>1. Len(p) \in Nat /\ (p = <<>> <=> Len(p) = 0)
  OBVIOUS
<1>2. CASE a = "win32"
  <2>1. RootEnd(a, p) = RootLength(p)
    BY <1>2 DEF RootEnd
  <2> QED  BY <2>1, RootRight
<1>3. CASE a # "win32"
  <2> DEFINE from == IF a = "djgpp" /\ HasDrive(p) THEN 1 ELSE 0
  <2>1. from \in 0..Len(p)
    BY <1>1 DEF HasDrive
  <2>2. RootEnd(a, p) = ScanTo(p, from, FALSE)
    BY <1>3 DEF RootEnd
  <2> HIDE DEF from
  <2>3. ScanTo(p, from, FALSE) \in from..Len(p)
    BY <2>1, ScanRight
  <2>4. \A v \in from..Len(p) : v \in 0..Len(p)
    BY <1>1, <2>1
  <2> QED  BY <2>2, <2>3, <2>4, Zenon
<1> QED  BY <1>2, <1>3

\* A scan backwards over separators has met only separators, and ends at the
\* root or behind something else.
LEMMA TrimStops ==
  ASSUME NEW p, NEW root \in Nat, NEW n \in Nat, root <= n
  PROVE  /\ TrimSeps(p, n, root) \in root..n
         /\ \A i \in (TrimSeps(p, n, root) + 1)..n : IsSep(p[i])
         /\ TrimSeps(p, n, root) = root \/ ~IsSep(p[TrimSeps(p, n, root)])
<1> DEFINE S == {k \in root..n : \A i \in (k + 1)..n : IsSep(p[i])}
           t == TrimSeps(p, n, root)
<1>1. n \in S /\ S \in SUBSET Nat
  OBVIOUS
<1>2. t \in S /\ \A k \in S : t <= k
  BY <1>1, MinRight DEF TrimSeps
<1> HIDE DEF t
<1>3. t \in root..n /\ \A i \in (t + 1)..n : IsSep(p[i])
  BY <1>2
<1>4. ASSUME t # root, IsSep(p[t]) PROVE FALSE
  <2>1. t - 1 \in root..n /\ ~(t <= t - 1)
    BY <1>3, <1>4
  <2>2. \A i \in (t - 1 + 1)..n : i = t \/ i \in (t + 1)..n
    BY <1>3
  <2>3. \A i \in (t - 1 + 1)..n : IsSep(p[i])
    BY <1>3, <1>4, <2>2
  <2>4. t - 1 \in S
    BY <2>1, <2>3
  <2> QED  BY <1>2, <2>1, <2>4
<1> QED  BY <1>3, <1>4 DEF t

\* The last separator is where it is.
LEMMA LastSepIs ==
  ASSUME NEW q \in Seq(Text), NEW k \in 1..Len(q), IsSep(q[k]),
         \A i \in (k + 1)..Len(q) : ~IsSep(q[i])
  PROVE  LastSep(q) = k
<1> DEFINE S == {0} \cup {i \in DOMAIN q : IsSep(q[i])}
<1>1. Len(q) \in Nat /\ DOMAIN q = 1..Len(q)
  OBVIOUS
<1>2. S \in SUBSET (0..Len(q)) /\ k \in S
  BY <1>1
<1>3. Max(S) \in S /\ \A x \in S : x <= Max(S)
  BY <1>1, <1>2, MaxRight
<1>4. \A x \in S : x <= k
  BY <1>1
<1> HIDE DEF S
<1>5. Max(S) \in 0..Len(q) /\ k <= Max(S) /\ Max(S) <= k
  BY <1>2, <1>3, <1>4, Zenon
<1>6. Max(S) = k
  BY <1>1, <1>5
<1> QED  BY <1>6 DEF LastSep, S

\* The place of the last separator of a path with a name behind it.
LEMMA JoinedSep ==
  ASSUME NEW p \in Seq(Text), NEW name \in FileNames, NEW q, Joined(p, name, q)
  PROVE  /\ Len(p) \in Nat /\ Len(q) \in Nat /\ q \in Seq(Text) /\ Len(q) >= 2
         /\ Len(q) = Len(p) + 1 \/ Len(q) = Len(p) + 2
         /\ \A i \in 1..Len(p) : q[i] = p[i]
         /\ LastSep(q) = Len(q) - 1 /\ IsSep(q[Len(q) - 1]) /\ ~IsSep(q[Len(q)])
<1>1. /\ Len(p) \in Nat /\ Len(q) \in Nat /\ q \in Seq(Text) /\ q[Len(q)] = name
      /\ \A i \in 1..Len(p) : q[i] = p[i]
      /\ p = <<>> <=> Len(p) = 0
  BY DEF Joined, Begins
<1>2. ~IsSep(q[Len(q)])
  BY <1>1, NamesRight
<1>3. CASE Len(q) = Len(p) + 1 /\ p # <<>> /\ IsSep(p[Len(p)])
  <2>1. Len(q) - 1 = Len(p) /\ Len(p) \in 1..Len(p)
    BY <1>1, <1>3
  <2>2. IsSep(q[Len(q) - 1])
    BY <1>1, <1>3, <2>1
  <2>3. Len(q) - 1 \in 1..Len(q) /\ Len(q) >= 2
        /\ \A i \in (Len(q) - 1 + 1)..Len(q) : i = Len(q)
    BY <1>1, <1>3
  <2>4. LastSep(q) = Len(q) - 1
    BY <1>1, <1>2, <2>2, <2>3, LastSepIs
  <2> QED  BY <1>1, <1>2, <1>3, <2>2, <2>3, <2>4
<1>4. CASE Len(q) = Len(p) + 2 /\ IsSep(q[Len(p) + 1])
  <2>1. Len(q) - 1 = Len(p) + 1
    BY <1>1, <1>4
  <2>2. IsSep(q[Len(q) - 1])
    BY <1>4, <2>1
  <2>3. Len(q) - 1 \in 1..Len(q) /\ Len(q) >= 2
        /\ \A i \in (Len(q) - 1 + 1)..Len(q) : i = Len(q)
    BY <1>1, <1>4
  <2>4. LastSep(q) = Len(q) - 1
    BY <1>1, <1>2, <2>2, <2>3, LastSepIs
  <2> QED  BY <1>1, <1>2, <1>4, <2>2, <2>3, <2>4
<1> QED  BY <1>3, <1>4 DEF Joined

\* What a joined path is cut to, up to where the joined one goes on with separators.
LEMMA CutBack ==
  ASSUME NEW p \in Seq(Text), NEW name \in FileNames, NEW q, Joined(p, name, q),
         NEW t \in 1..Len(p), \A i \in (t + 1)..(Len(q) - 2) : IsSep(q[i])
  PROVE  Back(Cut(q, t), p) /\ Len(Cut(q, t)) = t /\ Cut(q, t) \in Seq(Text)
<1>1. /\ Len(p) \in Nat /\ Len(q) \in Nat /\ q \in Seq(Text) /\ Len(q) >= 2
      /\ Len(q) = Len(p) + 1 \/ Len(q) = Len(p) + 2
      /\ \A i \in 1..Len(p) : q[i] = p[i]
      /\ IsSep(q[Len(q) - 1])
  BY JoinedSep
<1>2. t \in 0..Len(q) /\ t \in Nat
  BY <1>1
<1>3. /\ Cut(q, t) \in Seq(Text) /\ Len(Cut(q, t)) = t
      /\ \A i \in 1..t : Cut(q, t)[i] = q[i]
  BY <1>1, <1>2, PartRight
<1>4. \A i \in 1..t : p[i] = Cut(q, t)[i]
  BY <1>1, <1>3
<1>5. \A i \in (t + 1)..Len(p) : IsSep(p[i])
  <2> SUFFICES ASSUME NEW i \in (t + 1)..Len(p) PROVE IsSep(p[i])
    OBVIOUS
  <2>1. i \in 1..Len(p) /\ (i = Len(q) - 1 \/ i \in (t + 1)..(Len(q) - 2))
    BY <1>1, <1>2
  <2> QED  BY <1>1, <2>1
<1>6. Cut(q, t) # <<>>
  BY <1>3
<1> QED  BY <1>3, <1>4, <1>5, <1>6 DEF Back, Begins

\* On POSIX what is above it is the path, but for separators at the end.
LEMMA PosixBack ==
  ASSUME NEW p \in Seq(Text), p # <<>>, NEW name \in FileNames
  PROVE  Back(PosixParent(PosixJoin(p, name)), p)
<1> DEFINE q == PosixJoin(p, name)
           before == LastSep(q) - 1
           t == IF before <= 1 THEN before ELSE TrimSeps(q, before, 1)
<1>1. Joined(p, name, q)
  <2>1. Joined(p, name, Join("native", p, name))
    BY JoinShape
  <2> QED  BY <2>1 DEF Join
<1>2. Len(q) = Len(p) + 2
  <2>1. name \in Text /\ Slash \in Text
    BY NamesRight DEF Text
  <2>2. <<Slash, name>> \in Seq(Text) /\ Len(<<Slash, name>>) = 2
    BY <2>1
  <2>3. Len(q) = Len(p) + Len(<<Slash, name>>)
    BY <2>2, ConcatProperties, Zenon DEF PosixJoin
  <2> QED  BY <2>2, <2>3
<1> HIDE DEF q
<1>3. Len(p) \in Nat /\ Len(p) >= 1 /\ LastSep(q) = Len(q) - 1 /\ q \in Seq(Text) /\ Len(q) \in Nat
  BY <1>1, JoinedSep
<1>4. before = Len(p) /\ Len(q) - 2 = Len(p) /\ LastSep(q) # 0
  BY <1>2, <1>3
<1> HIDE DEF before
<1>5. t \in 1..Len(p) /\ \A i \in (t + 1)..Len(p) : IsSep(q[i])
  <2>1. CASE before <= 1
    BY <1>3, <1>4, <2>1
  <2>2. CASE ~(before <= 1)
    <3>1. /\ TrimSeps(q, before, 1) \in 1..before
          /\ \A i \in (TrimSeps(q, before, 1) + 1)..before : IsSep(q[i])
      BY <1>3, <1>4, <2>2, TrimStops
    <3> QED  BY <1>4, <2>2, <3>1
  <2> QED  BY <2>1, <2>2
<1>6. PosixParent(q) = IF Cut(q, t) = <<>> THEN <<Slash>> ELSE Cut(q, t)
  BY <1>4 DEF PosixParent, before
<1> HIDE DEF t
<1>7. Back(Cut(q, t), p)
  BY <1>1, <1>4, <1>5, CutBack
<1>8. PosixParent(q) = Cut(q, t)
  BY <1>6, <1>7 DEF Back
<1> QED  BY <1>7, <1>8 DEF q

\* A path is empty if it has no places.
LEMMA EmptyPath ==
  ASSUME NEW p \in Seq(Text)
  PROVE  Len(p) \in Nat /\ (p = <<>> <=> Len(p) = 0)
OBVIOUS

\* Of two paths with the same root, one of which goes on with separators, the
\* meaning is the same.
LEMMA SameRootMeans ==
  ASSUME NEW a, NEW d, NEW p, Back(d, p), RootEnd(a, d) = RootEnd(a, p)
  PROVE  Meaning(a, d) = Meaning(a, p)
<1> DEFINE r == RootEnd(a, p)
           s == SubSeq(d, r + 1, Len(d))
           t == SubSeq(p, r + 1, Len(p))
<1>1. /\ d \in Seq(Text) /\ p \in Seq(Text) /\ Len(d) \in Nat /\ Len(p) \in Nat /\ Len(d) <= Len(p)
      /\ \A i \in 1..Len(d) : p[i] = d[i]
      /\ \A i \in (Len(d) + 1)..Len(p) : IsSep(p[i])
  BY DEF Back, Begins
<1>2. r \in 0..Len(d)
  BY <1>1, RootEndRight
<1>3. r \in 0..Len(p)
  BY <1>1, <1>2
<1> HIDE DEF r
<1>4. /\ Cut(d, r) \in Seq(Text) /\ Len(Cut(d, r)) = r /\ \A i \in 1..r : Cut(d, r)[i] = d[i]
      /\ Len(s) = Len(d) - r /\ \A i \in 1..(Len(d) - r) : s[i] = d[r + i]
  BY <1>1, <1>2, PartRight
<1>5. /\ Cut(p, r) \in Seq(Text) /\ Len(Cut(p, r)) = r /\ \A i \in 1..r : Cut(p, r)[i] = p[i]
      /\ Len(t) = Len(p) - r /\ \A i \in 1..(Len(p) - r) : t[i] = p[r + i]
  BY <1>1, <1>3, PartRight
<1> HIDE DEF s, t
<1>6. Cut(d, r) = Cut(p, r)
  <2>1. ASSUME NEW i \in 1..r PROVE Cut(d, r)[i] = Cut(p, r)[i]
    <3>1. i \in 1..Len(d)
      BY <1>1, <1>2
    <3>2. Cut(d, r)[i] = d[i] /\ Cut(p, r)[i] = p[i]
      BY <1>4, <1>5
    <3> QED  BY <1>1, <3>1, <3>2
  <2>2. Len(Cut(d, r)) = Len(Cut(p, r)) /\ \A i \in 1..Len(Cut(d, r)) : Cut(d, r)[i] = Cut(p, r)[i]
    BY <1>4, <1>5, <2>1
  <2> QED  BY <1>4, <1>5, <2>2, SeqEqual, Zenon
<1>7. NamesIn(t) = NamesIn(s)
  <2>1. Len(s) \in Nat /\ Len(t) \in Nat /\ Len(s) <= Len(t)
    BY <1>1, <1>2, <1>4, <1>5
  <2>2. \A i \in 1..Len(s) : t[i] = s[i]
    <3> SUFFICES ASSUME NEW i \in 1..Len(s) PROVE t[i] = s[i]
      OBVIOUS
    <3>1. i \in 1..(Len(d) - r) /\ i \in 1..(Len(p) - r) /\ r + i \in 1..Len(d)
      BY <1>1, <1>2, <1>4
    <3> QED  BY <1>1, <1>4, <1>5, <3>1
  <2>3. \A i \in (Len(s) + 1)..Len(t) : ~IsName(t[i])
    <3> SUFFICES ASSUME NEW i \in (Len(s) + 1)..Len(t) PROVE ~IsName(t[i])
      OBVIOUS
    <3>1. i \in 1..(Len(p) - r) /\ r + i \in (Len(d) + 1)..Len(p)
      BY <1>1, <1>2, <1>4, <1>5
    <3> QED  BY <1>1, <1>5, <3>1 DEF IsName
  <2> QED  BY <2>1, <2>2, <2>3, NamesKept
<1> QED  BY <1>6, <1>7 DEF Meaning, Follow, r, s, t

\* And so it is of two paths that are nothing but a root, and separators behind it.
LEMMA RootMeans ==
  ASSUME NEW a, NEW d, NEW p, Back(d, p), RootEnd(a, d) = Len(d), RootEnd(a, p) >= Len(d),
         d # <<Drive>>
  PROVE  Meaning(a, d) = Meaning(a, p)
<1> DEFINE r == RootEnd(a, p)
           m == Len(d)
           s == SubSeq(d, m + 1, Len(d))
           t == SubSeq(p, r + 1, Len(p))
<1>1. /\ d \in Seq(Text) /\ p \in Seq(Text) /\ m \in Nat /\ Len(p) \in Nat /\ m <= Len(p)
      /\ d # <<>> /\ \A i \in 1..m : p[i] = d[i]
      /\ \A i \in (m + 1)..Len(p) : IsSep(p[i])
  BY DEF Back, Begins
<1>2. r \in 0..Len(p) /\ r >= m
  BY <1>1, RootEndRight
<1> HIDE DEF r
<1>3. m \in 0..Len(d) /\ m \in 1..m
  <2>1. m # 0
    BY <1>1, EmptyPath, Zenon
  <2> QED  BY <1>1, <2>1
<1>4. /\ Cut(d, m) \in Seq(Text) /\ Len(Cut(d, m)) = m /\ \A i \in 1..m : Cut(d, m)[i] = d[i]
      /\ Len(s) = Len(d) - m
  BY <1>1, <1>3, PartRight
<1>5. /\ Cut(p, r) \in Seq(Text) /\ Len(Cut(p, r)) = r /\ \A i \in 1..r : Cut(p, r)[i] = p[i]
      /\ Len(t) = Len(p) - r /\ \A i \in 1..(Len(p) - r) : t[i] = p[r + i]
  BY <1>1, <1>2, PartRight
<1>6. \A i \in (m + 1)..Len(p) : ~IsName(p[i])
  BY <1>1 DEF IsName
<1>7. Len(s) = 0
  BY <1>1, <1>4
<1> HIDE DEF s, t
<1>8. NamesIn(t) = NamesIn(s)
  <2>1. Len(s) \in Nat /\ Len(t) \in Nat /\ Len(s) <= Len(t) /\ \A i \in 1..Len(s) : t[i] = s[i]
    BY <1>1, <1>2, <1>5, <1>7
  <2>2. \A i \in (Len(s) + 1)..Len(t) : ~IsName(t[i])
    <3> SUFFICES ASSUME NEW i \in (Len(s) + 1)..Len(t) PROVE ~IsName(t[i])
      OBVIOUS
    <3>1. i \in 1..(Len(p) - r) /\ r + i \in (m + 1)..Len(p)
      BY <1>1, <1>2, <1>5, <1>7
    <3> QED  BY <1>5, <1>6, <3>1
  <2> QED  BY <2>1, <2>2, NamesKept
<1>9. NamesIn(Cut(p, r)) = NamesIn(Cut(d, m))
  <2>1. /\ Len(Cut(d, m)) \in Nat /\ Len(Cut(p, r)) \in Nat /\ Len(Cut(d, m)) <= Len(Cut(p, r))
        /\ \A i \in 1..Len(Cut(d, m)) : Cut(p, r)[i] = Cut(d, m)[i]
    BY <1>1, <1>2, <1>4, <1>5
  <2>2. \A i \in (Len(Cut(d, m)) + 1)..Len(Cut(p, r)) : ~IsName(Cut(p, r)[i])
    <3> SUFFICES ASSUME NEW i \in (m + 1)..r PROVE ~IsName(Cut(p, r)[i])
      BY <1>4, <1>5
    <3>1. i \in 1..r /\ i \in (m + 1)..Len(p)
      BY <1>1, <1>2
    <3> QED  BY <1>5, <1>6, <3>1
  <2> QED  BY <2>1, <2>2, NamesKept
<1>10. Cut(d, m) = d
  BY <1>1, <1>4, SeqEqual, Zenon
<1>11. d \notin {<<>>, <<Drive>>}
  BY <1>1, Zenon
<1>12. Cut(p, r) \notin {<<>>, <<Drive>>}
  <2>1. Cut(p, r) # <<>>
    BY <1>2, <1>3, <1>5
  <2>2. ASSUME Cut(p, r) = <<Drive>> PROVE FALSE
    <3>1. Len(Cut(p, r)) = 1 /\ Cut(p, r)[1] = Drive
      BY <2>2
    <3>2. r = 1 /\ m = 1
      BY <1>1, <1>2, <1>3, <1>5, <3>1
    <3>3. d[1] = Drive /\ d = <<d[1]>>
      BY <1>1, <1>5, <3>1, <3>2
    <3> QED  BY <3>3
  <2> QED  BY <2>1, <2>2
<1> QED  BY <1>8, <1>9, <1>10, <1>11, <1>12 DEF Meaning, Follow, r, s, t

\* So the way back leads to the same folder on POSIX,
LEMMA PosixGoesBack ==
  ASSUME NEW a, a \notin {"win32", "djgpp"}, NEW p \in Seq(Text), p # <<>>, NEW name \in FileNames
  PROVE  GoesBack(a, p, name)
<1> DEFINE d == PosixParent(PosixJoin(p, name))
<1>1. Parent(a, Join(a, p, name)) = d
  BY DEF Parent, Join
<1>2. Back(d, p)
  BY PosixBack
<1> HIDE DEF d
<1>3. /\ RootEnd(a, d) = ScanTo(d, 0, FALSE) /\ RootEnd(a, p) = ScanTo(p, 0, FALSE)
  BY DEF RootEnd
<1>4. Begins(d, p) /\ d \in Seq(Text) /\ p \in Seq(Text) /\ d # <<>>
  BY <1>2 DEF Back, Begins
<1>5. Len(d) \in Nat /\ Len(d) >= 1 /\ 0 \in 0..Len(d) /\ 0 \in 0..Len(p)
  <2>1. Len(d) \in Nat /\ Len(d) # 0 /\ Len(p) \in Nat
    BY <1>4, EmptyPath, Zenon
  <2> QED  BY <2>1
<1> DEFINE v == ScanTo(d, 0, FALSE)
           w == ScanTo(p, 0, FALSE)
<1>6. v \in 0..Len(d) /\ \A k \in 0..Len(d) : (IsSep(d[k + 1]) <=> FALSE) => v <= k
  BY <1>4, <1>5, ScanRight
<1>7. v <= w /\ (v < Len(d) => w = v)
  BY <1>4, <1>5, ScanKept
<1>8. RootEnd(a, d) = v /\ RootEnd(a, p) = w
  BY <1>3
<1> HIDE DEF v, w
<1>9. CASE v < Len(d)
  BY <1>1, <1>2, <1>7, <1>8, <1>9, SameRootMeans DEF GoesBack
<1>10. CASE ~(v < Len(d))
  <2>1. v = Len(d) /\ ~(v <= 0)
    BY <1>5, <1>6, <1>10
  <2>2. IsSep(d[0 + 1])
    BY <1>5, <1>6, <2>1, Zenon
  <2>3. d # <<Drive>>
    BY <2>2 DEF IsSep, Slash, BackSlash, Drive
  <2>4. RootEnd(a, d) = Len(d) /\ RootEnd(a, p) >= Len(d)
    BY <1>7, <1>8, <2>1
  <2> QED  BY <1>1, <1>2, <2>3, <2>4, RootMeans DEF GoesBack
<1> QED  BY <1>9, <1>10

\* The paths the File Manager meets.
Proper(a, p) == p \in Seq(Text) /\ Rooted(a, p)

\* Where the root of a path on POSIX or DOS begins: behind a drive.
RunStart(a, p) == IF a = "djgpp" /\ HasDrive(p) THEN 1 ELSE 0

\* There it is a run of separators.
LEMMA RunRight ==
  ASSUME NEW a, a # "win32", NEW p \in Seq(Text)
  PROVE  /\ RootEnd(a, p) \in 0..Len(p) /\ RootEnd(a, p) >= RunStart(a, p)
         /\ RootEnd(a, p) = Len(p) \/ ~IsSep(p[RootEnd(a, p) + 1])
         /\ \A i \in (RunStart(a, p) + 1)..RootEnd(a, p) : IsSep(p[i])
<1> DEFINE f == RunStart(a, p)
           r == ScanTo(p, f, FALSE)
<1>1. f \in 0..Len(p)
  BY EmptyPath DEF RunStart, HasDrive
<1>2. RootEnd(a, p) = r
  BY DEF RootEnd, RunStart
<1> HIDE DEF f
<1>3. /\ r \in f..Len(p) /\ (r = Len(p) \/ (IsSep(p[r + 1]) <=> FALSE))
      /\ \A k \in f..Len(p) : (IsSep(p[k + 1]) <=> FALSE) => r <= k
  BY <1>1, ScanRight
<1> HIDE DEF r
<1>4. Len(p) \in Nat /\ r \in 0..Len(p) /\ r >= f
  BY <1>1, <1>3
<1>5. ASSUME NEW i \in (f + 1)..r PROVE IsSep(p[i])
  <2>1. i - 1 \in f..Len(p) /\ i - 1 + 1 = i /\ ~(r <= i - 1)
    BY <1>1, <1>4
  <2> QED  BY <1>3, <2>1
<1> QED  BY <1>2, <1>3, <1>4, <1>5 DEF f

\* A path that begins another has the same root, if that is not all of it.
LEMMA RunKept ==
  ASSUME NEW a, a # "win32", NEW d, NEW p, Begins(d, p), d # <<>>
  PROVE  /\ RunStart(a, d) = RunStart(a, p) /\ RootEnd(a, d) <= RootEnd(a, p)
         /\ RootEnd(a, d) < Len(d) \/ RootEnd(a, p) < Len(d) => RootEnd(a, p) = RootEnd(a, d)
<1>1. d \in Seq(Text) /\ p \in Seq(Text) /\ Len(d) <= Len(p) /\ \A i \in 1..Len(d) : p[i] = d[i]
  BY DEF Begins
<1>2. Len(d) \in Nat /\ Len(d) # 0 /\ Len(p) \in Nat /\ Len(p) # 0 /\ p # <<>>
  <2>1. Len(d) \in Nat /\ Len(d) # 0 /\ Len(p) \in Nat
    BY <1>1, EmptyPath, Zenon
  <2> QED  BY <1>1, <2>1
<1>3. HasDrive(d) <=> HasDrive(p)
  <2>1. 1 \in 1..Len(d)
    BY <1>2
  <2> QED  BY <1>1, <1>2, <2>1 DEF HasDrive
<1>4. RunStart(a, d) = RunStart(a, p)
  BY <1>3 DEF RunStart
<1> DEFINE f == RunStart(a, p)
<1>5. f \in 0..Len(d)
  BY <1>2 DEF RunStart
<1>6. RootEnd(a, d) = ScanTo(d, f, FALSE) /\ RootEnd(a, p) = ScanTo(p, f, FALSE)
  BY <1>4 DEF RootEnd, RunStart
<1> HIDE DEF f
<1> QED  BY <1>4, <1>5, <1>6, ScanKept

\* Proper paths of DOS in other words.
LEMMA DosProper ==
  ASSUME NEW p
  PROVE  Proper("djgpp", p) <=>
           /\ p \in Seq(Text) /\ p # <<>>
           /\ HasDrive(p) => Len(p) >= 2 /\ IsSep(p[2])
           /\ RootEnd("djgpp", p) <= IF HasDrive(p) THEN 2 ELSE 1
BY DEF Proper, Rooted

\* Windows and DOS put in a separator only where there is none.
LEMMA JoinTight ==
  ASSUME NEW p \in Seq(Text), NEW name \in FileNames, NEW sep
  PROVE  Tight(p, JoinWith(p, name, sep))
<1>1. CASE p # <<>> /\ IsSep(Last(p))
  <2>1. JoinWith(p, name, sep) = Append(p, name) /\ name \in Text
    BY <1>1, NamesRight DEF JoinWith
  <2>2. Len(JoinWith(p, name, sep)) = Len(p) + 1 /\ Len(p) \in Nat
    BY <2>1, AppendProperties
  <2> QED  BY <2>2 DEF Tight
<1>2. CASE ~(p # <<>> /\ IsSep(Last(p)))
  BY <1>2 DEF Tight, Last
<1> QED  BY <1>1, <1>2

\* A path that is as long as one it goes on is that one.
LEMMA BackSame ==
  ASSUME NEW d, NEW p, Back(d, p), Len(d) = Len(p)
  PROVE  d = p
<1>1. d \in Seq(Text) /\ p \in Seq(Text) /\ \A i \in 1..Len(d) : d[i] = p[i]
  BY DEF Back, Begins
<1> QED  BY <1>1, SeqEqual, Zenon

\* On DOS what is above a joined path is the path, but for separators behind
\* its root.
LEMMA DosBack ==
  ASSUME NEW p, Proper("djgpp", p), NEW name \in FileNames, NEW d,
         d = DosParent(DosJoin(p, name))
  PROVE  Back(d, p) /\ (d = p \/ RootEnd("djgpp", p) < Len(d))
<1> DEFINE q     == DosJoin(p, name)
           L     == Len(q)
           r     == RootEnd("djgpp", p)
           floor == IF HasDrive(q) THEN 2 ELSE 1
           same  == IF Len(q) <= floor THEN q ELSE Cut(q, TrimSeps(q, Len(q), floor))
           t     == TrimSeps(q, L - 2, 0)
<1>1. /\ p \in Seq(Text) /\ p # <<>> /\ (HasDrive(p) => Len(p) >= 2 /\ IsSep(p[2]))
      /\ r <= IF HasDrive(p) THEN 2 ELSE 1
  BY DosProper
<1>2. Joined(p, name, q)
  <2>1. Joined(p, name, Join("djgpp", p, name))
    BY <1>1, JoinShape
  <2> QED  BY <2>1 DEF Join
<1>3. Tight(p, q)
  BY <1>1, JoinTight DEF DosJoin
<1>0. d = DosParent(q)
  OBVIOUS
<1> HIDE DEF q
<1>4. /\ Len(p) \in Nat /\ L \in Nat /\ q \in Seq(Text) /\ L >= 2
      /\ L = Len(p) + 1 \/ L = Len(p) + 2
      /\ \A i \in 1..Len(p) : q[i] = p[i]
      /\ LastSep(q) = L - 1 /\ IsSep(q[L - 1]) /\ ~IsSep(q[L])
  BY <1>1, <1>2, JoinedSep
<1>5. Len(p) >= 1 /\ q # <<>>
  <2>1. Len(p) # 0 /\ q # <<>>
    BY <1>1, <1>4, EmptyPath
  <2> QED  BY <1>4, <2>1
<1>6. HasDrive(q) <=> HasDrive(p)
  <2>1. q[1] = p[1]
    BY <1>4, <1>5
  <2> QED  BY <1>1, <1>5, <2>1 DEF HasDrive
<1>7. same = q
  <2>1. CASE L <= floor
    BY <2>1
  <2>2. CASE ~(L <= floor)
    <3> DEFINE u == TrimSeps(q, L, floor)
    <3>1. floor \in Nat /\ floor <= L
      BY <1>4, <2>2
    <3> HIDE DEF floor
    <3>2. u \in floor..L /\ \A i \in (u + 1)..L : IsSep(q[i])
      BY <1>4, <3>1, TrimStops
    <3> HIDE DEF u
    <3>3. u = L
      <4>1. ~(L \in (u + 1)..L)
        BY <1>4, <3>2
      <4> QED  BY <1>4, <3>1, <3>2, <4>1
    <3>4. Cut(q, L) \in Seq(Text) /\ Len(Cut(q, L)) = L /\ \A i \in 1..L : Cut(q, L)[i] = q[i]
      <4>1. q \in Seq(Text) /\ L \in 0..Len(q)
        BY <1>4
      <4> QED  BY <4>1, PartRight
    <3>5. Cut(q, L) = q
      BY <1>4, <3>4, SeqEqual, Zenon
    <3> QED  BY <2>2, <3>3, <3>5 DEF u, floor
  <2> QED  BY <2>1, <2>2
<1>8. DosParent(q) = IF L - 1 = 0 THEN <<Here>>
                     ELSE IF L - 1 = 1 THEN Cut(q, 1)
                     ELSE IF L - 1 = 2 /\ HasDrive(q) THEN Cut(q, 2)
                     ELSE Cut(q, TrimSeps(q, L - 1 - 1, 0))
  BY <1>4, <1>7 DEF DosParent
<1> HIDE DEF same
<1>9. /\ r \in 0..Len(p) /\ r >= RunStart("djgpp", p)
      /\ r = Len(p) \/ ~IsSep(p[r + 1])
      /\ \A i \in (RunStart("djgpp", p) + 1)..r : IsSep(p[i])
  BY <1>1, RunRight
<1> HIDE DEF r
<1>10. L - 1 # 0 /\ L - 1 - 1 = L - 2 /\ L - 2 \in Nat
  BY <1>4
<1>11. CASE L - 1 = 1
  <2>1. d = Cut(q, 1)
    BY <1>0, <1>8, <1>10, <1>11
  <2>4. L = 2 /\ Len(p) = 1 /\ 1 \in 1..Len(p)
    <3>1. Len(p) \in Nat /\ Len(p) >= 1 /\ L \in Nat /\ (L = Len(p) + 1 \/ L = Len(p) + 2)
      BY <1>4, <1>5, Zenon
    <3>2. \A n, m \in Nat : n >= 1 /\ m - 1 = 1 /\ (m = n + 1 \/ m = n + 2)
                          => m = 2 /\ n = 1 /\ 1 \in 1..n
      OBVIOUS
    <3> QED  BY <1>11, <3>1, <3>2, Zenon
  <2>2. \A i \in (1 + 1)..(L - 2) : IsSep(q[i])
    BY <2>4
  <2>3. Back(Cut(q, 1), p) /\ Len(Cut(q, 1)) = 1
    <3>1. PICK m \in 1..Len(p) : m = 1
      BY <2>4
    <3>2. \A i \in (m + 1)..(L - 2) : IsSep(q[i])
      BY <2>2, <3>1
    <3>3. Back(Cut(q, m), p) /\ Len(Cut(q, m)) = m
      BY <1>1, <1>2, <3>2, CutBack
    <3> QED  BY <3>1, <3>3
  <2> QED  BY <2>1, <2>3, <2>4, BackSame
<1>12. CASE L - 1 # 1 /\ L - 1 = 2 /\ HasDrive(q)
  <2>1. d = Cut(q, 2)
    BY <1>0, <1>8, <1>10, <1>12
  <2>5. Len(p) \in Nat /\ Len(p) >= 2 /\ L \in Nat /\ (L = Len(p) + 1 \/ L = Len(p) + 2)
    BY <1>1, <1>4, <1>6, <1>12, Zenon
  <2>4. L = 3 /\ Len(p) = 2 /\ 2 \in 1..Len(p)
    <3>2. \A n, m \in Nat : n >= 2 /\ m - 1 = 2 /\ (m = n + 1 \/ m = n + 2)
                          => m = 3 /\ n = 2 /\ 2 \in 1..n
      OBVIOUS
    <3> QED  BY <1>12, <2>5, <3>2, Zenon
  <2>2. \A i \in (2 + 1)..(L - 2) : IsSep(q[i])
    BY <2>4
  <2>3. Back(Cut(q, 2), p) /\ Len(Cut(q, 2)) = 2
    <3>1. PICK m \in 1..Len(p) : m = 2
      BY <2>4
    <3>2. \A i \in (m + 1)..(L - 2) : IsSep(q[i])
      BY <2>2, <3>1
    <3>3. Back(Cut(q, m), p) /\ Len(Cut(q, m)) = m
      BY <1>1, <1>2, <3>2, CutBack
    <3> QED  BY <3>1, <3>3
  <2> QED  BY <2>1, <2>3, <2>4, BackSame
<1>13. CASE L - 1 # 1 /\ ~(L - 1 = 2 /\ HasDrive(q))
  <2>1. d = Cut(q, t)
    BY <1>0, <1>8, <1>10, <1>13
  <2>2. t \in 0..(L - 2) /\ \A i \in (t + 1)..(L - 2) : IsSep(q[i])
    <3>1. 0 \in Nat /\ 0 <= L - 2 /\ L - 2 \in Nat
      BY <1>10
    <3> QED  BY <3>1, TrimStops, Zenon
  <2> HIDE DEF t
  <2>3. r + 1 <= L - 2 /\ r # Len(p)
    <3>1. CASE L = Len(p) + 1 /\ IsSep(p[Len(p)])
      <4>1. r # Len(p) - 1
        BY <1>4, <1>5, <1>9, <3>1
      <4>2. r # Len(p)
        BY <1>1, <1>4, <1>5, <1>6, <1>9, <1>13, <3>1
      <4> QED  BY <1>4, <1>9, <3>1, <4>1, <4>2
    <3>2. CASE L = Len(p) + 2 /\ ~IsSep(p[Len(p)])
      <4>1. ASSUME r = Len(p) PROVE FALSE
        <5>1. ~(Len(p) \in (RunStart("djgpp", p) + 1)..r) /\ RunStart("djgpp", p) \in Nat
          BY <1>9, <3>2 DEF RunStart
        <5>2. RunStart("djgpp", p) = Len(p)
          BY <1>4, <1>5, <1>9, <4>1, <5>1
        <5>3. HasDrive(p) /\ Len(p) = 1
          BY <1>5, <5>2 DEF RunStart
        <5> QED  BY <1>1, <5>3
      <4> QED  BY <1>4, <1>9, <3>2, <4>1
    <3>3. \/ L = Len(p) + 1 /\ IsSep(p[Len(p)])
          \/ L = Len(p) + 2 /\ ~IsSep(p[Len(p)])
      BY <1>1, <1>2, <1>3 DEF Joined, Tight
    <3> QED  BY <3>1, <3>2, <3>3
  <2>4. r + 1 \in 1..Len(p) /\ ~IsSep(q[r + 1])
    BY <1>4, <1>9, <2>3
  <2>5. t >= r + 1
    <3>1. ~(r + 1 \in (t + 1)..(L - 2))
      BY <2>2, <2>4
    <3> QED  BY <1>10, <1>9, <2>2, <2>3, <3>1
  <2>6. t \in 1..Len(p)
    BY <1>4, <1>9, <2>2, <2>5
  <2>7. Back(Cut(q, t), p) /\ Len(Cut(q, t)) = t
    BY <1>1, <1>2, <2>2, <2>6, CutBack
  <2>8. r < Len(d)
    BY <1>9, <2>1, <2>2, <2>5, <2>7
  <2> QED  BY <2>1, <2>7, <2>8 DEF r
<1> QED  BY <1>11, <1>12, <1>13

\* so the way back leads to the same folder on DOS,
LEMMA DosGoesBack ==
  ASSUME NEW p, Proper("djgpp", p), NEW name \in FileNames
  PROVE  GoesBack("djgpp", p, name)
<1> DEFINE d == DosParent(DosJoin(p, name))
<1>1. Parent("djgpp", Join("djgpp", p, name)) = d
  BY DEF Parent, Join
<1>2. Back(d, p) /\ (d = p \/ RootEnd("djgpp", p) < Len(d))
  BY DosBack
<1> HIDE DEF d
<1>3. CASE d = p
  BY <1>1, <1>3 DEF GoesBack
<1>4. CASE RootEnd("djgpp", p) < Len(d)
  <2>1. RootEnd("djgpp", d) = RootEnd("djgpp", p)
    BY <1>2, <1>4, RunKept DEF Back
  <2> QED  BY <1>1, <1>2, <2>1, SameRootMeans DEF GoesBack
<1> QED  BY <1>2, <1>3, <1>4

\* What a path is cut to has the same root, if that is not cut.
LEMMA WinCut ==
  ASSUME NEW q, Whole("win32", q), NEW k \in RootLength(q)..Len(q)
  PROVE  RootLength(Cut(q, k)) = RootLength(q)
<1> DEFINE t == Cut(q, k)
           r == RootLength(q)
<1>1. q \in Seq(Text) /\ Len(q) \in Nat /\ (q = <<>> <=> Len(q) = 0)
  BY EmptyPath DEF Whole
<1>2. r \in 0..Len(q)
  BY <1>1, RootRight
<1> HIDE DEF r
<1>3. k \in 0..Len(q) /\ k >= r /\ r \in Nat
  BY <1>1, <1>2 DEF r
<1>4. t \in Seq(Text) /\ Len(t) = k /\ Begins(t, q)
  BY <1>1, <1>3, CutRight
<1> HIDE DEF t
<1>5. \A i \in 1..k : t[i] = q[i]
  BY <1>4 DEF Begins
<1>6. t = <<>> <=> k = 0
  BY <1>4, EmptyPath
<1>7. CASE IsShare(q)
  <2>1. /\ Len(q) >= 2 /\ Share(q) < Len(q) /\ Share(q) < ShareEnd(q)
        /\ Share(q) \in 0..Len(q) /\ ShareEnd(q) \in Share(q)..Len(q) /\ Share(q) >= 2
        /\ r = IF ShareEnd(q) < Len(q) THEN ShareEnd(q) + 1 ELSE ShareEnd(q)
    <3>1. Share(q) < Len(q)
      BY <1>7 DEF Whole
    <3>2. /\ Len(q) >= 2 /\ Share(q) \in 0..Len(q) /\ ShareEnd(q) \in Share(q)..Len(q)
          /\ Share(q) < ShareEnd(q) /\ ScanTo(q, 2, TRUE) <= Share(q)
          /\ ScanTo(q, 2, TRUE) \in 0..Len(q)
          /\ r = IF ShareEnd(q) < Len(q) THEN ShareEnd(q) + 1 ELSE ShareEnd(q)
      BY <1>1, <1>7, <3>1, ShareRight DEF r
    <3>3. ScanTo(q, 2, TRUE) \in 2..Len(q)
      <4>1. 2 \in 0..Len(q)
        BY <1>1, <3>2
      <4> QED  BY <1>1, <4>1, ScanRight
    <3>4. Share(q) >= 2
      <4> DEFINE s == ScanTo(q, 2, TRUE)
      <4>1. s \in 2..Len(q) /\ s <= Share(q)
        BY <3>2, <3>3
      <4> HIDE DEF s
      <4> QED  BY <1>1, <3>2, <4>1
    <3> QED  BY <3>1, <3>2, <3>4
  <2>2. k > Share(q) /\ k >= 2
    BY <1>1, <1>3, <2>1
  <2>3. IsShare(t)
    <3>1. t[1] = q[1] /\ t[2] = q[2]
      BY <1>3, <1>5, <2>2
    <3> QED  BY <1>1, <1>4, <1>6, <1>7, <2>1, <2>2, <3>1 DEF IsShare, HasDrive
  <2>4. Share(q) = Share(t)
    BY <1>4, <1>7, <2>2, <2>3, ShareKept
  <2>5. /\ Share(t) \in 0..Len(t) /\ ShareEnd(t) \in Share(t)..Len(t)
        /\ RootLength(t) = IF ShareEnd(t) < Len(t) THEN ShareEnd(t) + 1 ELSE ShareEnd(t)
    BY <1>4, <2>3, ShareRight
  <2>6. /\ ShareEnd(t) <= ShareEnd(q)
        /\ ShareEnd(t) < Len(t) \/ ShareEnd(q) < Len(t) => ShareEnd(q) = ShareEnd(t)
    BY <1>4, <2>4, <2>5, ShareEndKept
  <2>7. RootLength(t) = r
    <3> HIDE DEF t
    <3>1. CASE ShareEnd(q) < Len(q)
      <4>1. ShareEnd(q) < k
        BY <1>1, <1>3, <2>1, <3>1
      <4>2. ShareEnd(t) = ShareEnd(q)
        BY <1>4, <2>6, <4>1
      <4> QED  BY <1>4, <2>1, <2>5, <3>1, <4>1, <4>2
    <3>2. CASE ~(ShareEnd(q) < Len(q))
      <4>1. ShareEnd(q) = Len(q) /\ k = Len(q)
        BY <1>1, <1>3, <2>1, <3>2
      <4>2. ShareEnd(t) = k
        BY <1>1, <1>3, <1>4, <2>4, <2>5, <2>6, <4>1
      <4> QED  BY <1>4, <2>1, <2>5, <4>1, <4>2
    <3> QED  BY <3>1, <3>2
  <2> QED  BY <2>7 DEF t, r
<1>8. CASE HasDrive(q)
  <2>1. r = (IF Len(q) >= 2 /\ IsSep(q[2]) THEN 2 ELSE 1)
    BY <1>8 DEF RootLength, r
  <2>2. k >= 1
    BY <1>3, <2>1
  <2>3. t[1] = q[1]
    BY <1>3, <1>5, <2>2
  <2>4. HasDrive(t)
    BY <1>3, <1>6, <1>8, <2>2, <2>3 DEF HasDrive
  <2>5. RootLength(t) = (IF k >= 2 /\ IsSep(t[2]) THEN 2 ELSE 1)
    BY <1>4, <2>4 DEF RootLength
  <2>6. k >= 2 => t[2] = q[2] /\ Len(q) >= 2
    BY <1>1, <1>3, <1>5
  <2>7. RootLength(t) = r
    BY <1>3, <2>1, <2>2, <2>5, <2>6
  <2> QED  BY <2>7 DEF t, r
<1>9. CASE ~IsShare(q) /\ ~HasDrive(q)
  <2>1. r = IF q # <<>> /\ IsSep(q[1]) THEN 1 ELSE 0
    BY <1>9 DEF RootLength, r
  <2>2. k >= 1 => t[1] = q[1] /\ q # <<>>
    BY <1>1, <1>3, <1>5
  <2>3. k >= 2 => t[2] = q[2] /\ Len(q) >= 2
    BY <1>1, <1>3, <1>5
  <2>4. t # <<>> => k >= 1
    BY <1>3, <1>6
  <2>5. ~HasDrive(t)
    BY <1>9, <2>2, <2>4 DEF HasDrive
  <2>6. ~IsShare(t)
    <3> SUFFICES ASSUME IsShare(t) PROVE FALSE
      OBVIOUS
    <3>1. k >= 2 /\ IsSep(t[1]) /\ IsSep(t[2])
      BY <1>4 DEF IsShare
    <3>2. k >= 1
      BY <1>3, <3>1
    <3> QED  BY <1>9, <2>2, <2>3, <3>1, <3>2 DEF IsShare
  <2>7. RootLength(t) = IF t # <<>> /\ IsSep(t[1]) THEN 1 ELSE 0
    BY <2>5, <2>6 DEF RootLength
  <2>8. RootLength(t) = r
    <3>1. CASE t = <<>>
      <4>1. k = 0
        BY <1>6, <3>1
      <4> QED  BY <1>3, <2>1, <2>7, <3>1, <4>1
    <3>2. CASE t # <<>>
      BY <2>1, <2>2, <2>4, <2>7, <3>2
    <3> QED  BY <3>1, <3>2
  <2> QED  BY <2>8 DEF t, r
<1> QED  BY <1>7, <1>8, <1>9

\* Proper paths of Windows in other words.
LEMMA WinProper ==
  ASSUME NEW p
  PROVE  Proper("win32", p) <=>
           /\ Whole("win32", p) /\ p # <<>>
           /\ HasDrive(p) => Len(p) >= 2 /\ IsSep(p[2])
BY DEF Proper, Rooted, Whole

\* What WinParent cuts a path to.
LEMMA WinParentIs ==
  ASSUME NEW q, Whole("win32", q), q # <<>>
  PROVE  \E k \in RootLength(q)..Len(q) :
           /\ WinParent(q) = IF k = 0 THEN <<Here>> ELSE Cut(q, k)
           /\ ~IsSep(q[Len(q)]) /\ IsSep(q[Len(q) - 1]) /\ RootLength(q) <= Len(q) - 1 =>
                IF RootLength(q) = Len(q) - 1 THEN k = Len(q) - 1
                ELSE /\ k \in 0..(Len(q) - 2) /\ \A i \in (k + 1)..(Len(q) - 2) : IsSep(q[i])
                     /\ k = RootLength(q) \/ ~IsSep(q[k])
<1> DEFINE root   == RootLength(q)
           L      == Len(q)
           length == TrimSeps(q, L, root)
           S      == {root} \cup {i \in (root + 1)..length : IsSep(q[i])}
           cursor == Max(S)
           upto   == IF cursor <= root THEN root ELSE cursor - 1
           k      == TrimSeps(q, upto, root)
<1>1. q \in Seq(Text) /\ L \in Nat /\ L # 0
  BY EmptyPath DEF Whole
<1>2. root \in 0..L
  BY <1>1, RootRight
<1>3. WinParent(q) = IF (cursor <= root /\ root = 0) \/ k = 0 THEN <<Here>> ELSE Cut(q, k)
  BY DEF WinParent
<1> HIDE DEF root
<1>4. length \in root..L /\ \A i \in (length + 1)..L : IsSep(q[i])
  <2>1. root \in Nat /\ root <= L
    BY <1>1, <1>2
  <2> QED  BY <1>1, <2>1, TrimStops
<1> HIDE DEF length
<1>5. S \in SUBSET (0..L) /\ S # {}
  BY <1>1, <1>2, <1>4
<1>6. cursor \in S /\ \A x \in S : x <= cursor
  BY <1>1, <1>5, MaxRight
<1> HIDE DEF cursor
<1>7. cursor \in root..L /\ cursor <= length
  BY <1>1, <1>2, <1>4, <1>6
<1>8. upto \in root..L /\ upto \in Nat
  BY <1>1, <1>2, <1>7
<1>9. /\ k \in root..upto /\ \A i \in (k + 1)..upto : IsSep(q[i])
      /\ k = root \/ ~IsSep(q[k])
  <2> HIDE DEF upto
  <2>1. root \in Nat /\ root <= upto
    BY <1>1, <1>2, <1>8
  <2> QED  BY <1>8, <2>1, TrimStops
<1>10. cursor <= root /\ root = 0 => k = 0
  <2> HIDE DEF k
  <2> QED  BY <1>2, <1>7, <1>8, <1>9
<1>11. ASSUME ~IsSep(q[L]), IsSep(q[L - 1]), root <= L - 1
       PROVE  upto = IF root = L - 1 THEN L - 1 ELSE L - 2
  <2>1. length = L
    <3>1. ~(L \in (length + 1)..L)
      BY <1>4, <1>11
    <3> QED  BY <1>1, <1>2, <1>4, <3>1
  <2>2. cursor # L
    BY <1>1, <1>2, <1>6, <1>11
  <2>3. CASE root = L - 1
    BY <1>1, <1>2, <1>7, <2>2, <2>3
  <2>4. CASE root # L - 1
    <3>1. L - 1 \in S
      BY <1>1, <1>2, <1>11, <2>1, <2>4
    <3>2. L - 1 <= cursor
      BY <1>6, <3>1
    <3>3. cursor = L - 1
      BY <1>1, <1>2, <1>7, <2>2, <3>2
    <3> QED  BY <1>1, <1>2, <1>11, <2>4, <3>3
  <2> QED  BY <2>3, <2>4
<1> HIDE DEF upto, k
<1>12. k \in root..L
  BY <1>1, <1>2, <1>8, <1>9
<1>13. ASSUME ~IsSep(q[L]), IsSep(q[L - 1]), root <= L - 1
       PROVE  IF root = L - 1 THEN k = L - 1
              ELSE /\ k \in 0..(L - 2) /\ \A i \in (k + 1)..(L - 2) : IsSep(q[i])
                   /\ k = root \/ ~IsSep(q[k])
  <2>1. CASE root = L - 1
    BY <1>1, <1>2, <1>9, <1>11, <1>13, <2>1
  <2>2. CASE root # L - 1
    BY <1>1, <1>2, <1>9, <1>11, <1>13, <2>2
  <2> QED  BY <2>1, <2>2
<1>14. WinParent(q) = IF k = 0 THEN <<Here>> ELSE Cut(q, k)
  BY <1>3, <1>10
<1> QED  BY <1>12, <1>13, <1>14 DEF root, L

\* A path with no root begins with no separator.
LEMMA NoRoot ==
  ASSUME NEW q \in Seq(Text), q # <<>>, RootLength(q) = 0
  PROVE  ~IsSep(q[1])
<1>1. CASE HasDrive(q)
  BY <1>1 DEF RootLength
<1>2. CASE IsShare(q)
  <2> DEFINE s == ScanTo(q, 2, TRUE)
  <2>1. /\ Len(q) \in Nat /\ Len(q) >= 2 /\ s \in 0..Len(q) /\ s <= Share(q) /\ Share(q) \in 0..Len(q)
        /\ ShareEnd(q) \in Share(q)..Len(q)
        /\ RootLength(q) = IF ShareEnd(q) < Len(q) THEN ShareEnd(q) + 1 ELSE ShareEnd(q)
    BY <1>2, ShareRight
  <2>2. s \in 2..Len(q)
    <3>1. 2 \in 0..Len(q)
      BY <2>1
    <3> QED  BY <3>1, ScanRight
  <2> HIDE DEF s
  <2> QED  BY <2>1, <2>2
<1>3. CASE ~HasDrive(q) /\ ~IsShare(q)
  BY <1>3 DEF RootLength
<1> QED  BY <1>1, <1>2, <1>3

\* and on Windows.
LEMMA WinGoesBack ==
  ASSUME NEW p, Proper("win32", p), NEW name \in FileNames
  PROVE  GoesBack("win32", p, name)
<1> DEFINE q == WinJoin(p, name)
           L == Len(q)
           r == RootLength(q)
<1>1. /\ Whole("win32", p) /\ p \in Seq(Text) /\ p # <<>>
      /\ HasDrive(p) => Len(p) >= 2 /\ IsSep(p[2])
  BY WinProper DEF Whole
<1>2. Joined(p, name, q)
  <2>1. Joined(p, name, Join("win32", p, name))
    BY <1>1, JoinShape
  <2> QED  BY <2>1 DEF Join
<1>3. Tight(p, q)
  BY <1>1, JoinTight DEF WinJoin
<1>4. Parent("win32", Join("win32", p, name)) = WinParent(q)
  BY DEF Parent, Join
<1> HIDE DEF q
<1>5. SameRoot("win32", p, q) /\ Whole("win32", q)
  BY <1>1, <1>2, <1>3, WinRoot
<1>6. \A s : RootEnd("win32", s) = RootLength(s)
  BY DEF RootEnd
<1>7. /\ Len(p) \in Nat /\ L \in Nat /\ q \in Seq(Text) /\ L >= 2
      /\ L = Len(p) + 1 \/ L = Len(p) + 2
      /\ \A i \in 1..Len(p) : q[i] = p[i]
      /\ IsSep(q[L - 1]) /\ ~IsSep(q[L])
  BY <1>1, <1>2, JoinedSep
<1>8. r \in 0..(L - 1) /\ \A i \in 1..Len(p) : i <= r <=> i <= RootLength(p)
  BY <1>5, <1>6 DEF SameRoot
<1>9. RootLength(p) \in 0..Len(p) /\ Len(p) # 0 /\ q # <<>>
  BY <1>1, <1>7, EmptyPath, RootRight
<1>10. PICK k \in r..L :
         /\ WinParent(q) = IF k = 0 THEN <<Here>> ELSE Cut(q, k)
         /\ ~IsSep(q[L]) /\ IsSep(q[L - 1]) /\ r <= L - 1 =>
              IF r = L - 1 THEN k = L - 1
              ELSE /\ k \in 0..(L - 2) /\ \A i \in (k + 1)..(L - 2) : IsSep(q[i])
                   /\ k = r \/ ~IsSep(q[k])
  BY <1>5, <1>9, WinParentIs
<1>11. RootLength(Cut(q, k)) = r
  BY <1>5, WinCut
<1> HIDE DEF r
<1>12. r <= L - 1 /\ r \in Nat
  BY <1>7, <1>8
<1> HIDE DEF L
<1>13. CASE r = L - 1
  <2>1. k = L - 1 /\ k # 0 /\ WinParent(q) = Cut(q, k)
    BY <1>7, <1>10, <1>12, <1>13
  <2>2. CASE L = Len(p) + 1
    <3>1. k \in 1..Len(p) /\ k = Len(p) /\ \A i \in (k + 1)..(Len(q) - 2) : IsSep(q[i])
      BY <1>7, <1>9, <2>1, <2>2 DEF L
    <3>2. Back(Cut(q, k), p) /\ Len(Cut(q, k)) = k
      BY <1>1, <1>2, <3>1, CutBack
    <3>3. Cut(q, k) = p
      BY <3>1, <3>2, BackSame
    <3> QED  BY <1>4, <2>1, <3>3 DEF GoesBack
  <2>3. CASE L = Len(p) + 2
    <3>1. k = Len(p) + 1 /\ k \in 0..Len(q)
      BY <1>7, <2>1, <2>3 DEF L
    <3>2. /\ Cut(q, k) \in Seq(Text) /\ Len(Cut(q, k)) = k
          /\ \A i \in 1..k : Cut(q, k)[i] = q[i]
      BY <1>7, <3>1, PartRight
    <3>3. Back(p, Cut(q, k))
      <4>1. \A i \in 1..Len(p) : Cut(q, k)[i] = p[i]
        BY <1>7, <3>1, <3>2
      <4>2. \A i \in (Len(p) + 1)..Len(Cut(q, k)) : IsSep(Cut(q, k)[i])
        <5>1. \A i \in (Len(p) + 1)..Len(Cut(q, k)) : i = k /\ i = L - 1 /\ i \in 1..k
          BY <1>7, <2>1, <3>1, <3>2
        <5> QED  BY <1>7, <3>2, <5>1
      <4>3. Len(p) <= Len(Cut(q, k))
        BY <1>7, <3>1, <3>2
      <4> QED  BY <1>1, <3>2, <4>1, <4>2, <4>3 DEF Back, Begins
    <3>4. RootLength(p) = Len(p)
      <4>1. Len(p) \in 1..Len(p) /\ Len(p) <= r
        BY <1>7, <1>9, <1>13, <2>3
      <4>2. Len(p) <= RootLength(p)
        BY <1>8, <4>1
      <4> QED  BY <1>7, <1>9, <4>2
    <3>5. p # <<Drive>>
      BY <1>1 DEF HasDrive
    <3>6. RootEnd("win32", p) = Len(p) /\ RootEnd("win32", Cut(q, k)) >= Len(p)
      BY <1>6, <1>7, <1>11, <1>13, <2>3, <3>4
    <3>7. Meaning("win32", p) = Meaning("win32", Cut(q, k))
      BY <3>3, <3>5, <3>6, RootMeans
    <3> QED  BY <1>4, <2>1, <3>7 DEF GoesBack
  <2> QED  BY <1>7, <2>2, <2>3
<1>14. CASE r # L - 1
  <2>1. k \in 0..(L - 2) /\ \A i \in (k + 1)..(L - 2) : IsSep(q[i])
    BY <1>7, <1>10, <1>12, <1>14
  <2>2. k # 0
    <3> SUFFICES ASSUME k = 0 PROVE FALSE
      OBVIOUS
    <3>1. r = 0
      BY <1>7, <1>10, <1>12
    <3>2. ~IsSep(q[1])
      BY <1>7, <1>9, <3>1, NoRoot DEF r
    <3>3. L - 1 = 1 \/ 1 \in (k + 1)..(L - 2)
      BY <1>7
    <3> QED  BY <1>7, <2>1, <3>2, <3>3
  <2>3. WinParent(q) = Cut(q, k)
    BY <1>10, <2>2
  <2>4. k \in 1..Len(p)
    BY <1>7, <2>1, <2>2
  <2>5. Back(Cut(q, k), p)
    BY <1>1, <1>2, <2>1, <2>4, CutBack DEF L
  <2>6. RootLength(p) = r
    <3>1. r <= Len(p)
      BY <1>7, <1>12, <1>14
    <3>2. RootLength(p) # 0 => RootLength(p) \in 1..Len(p)
      BY <1>7, <1>9
    <3>3. RootLength(p) <= r
      BY <1>7, <1>8, <1>9, <1>12, <3>2
    <3>4. r # 0 => r \in 1..Len(p)
      BY <1>7, <1>12, <3>1
    <3>5. r <= RootLength(p)
      BY <1>7, <1>8, <1>9, <1>12, <3>4
    <3> QED  BY <1>9, <1>12, <3>3, <3>5
  <2>7. Meaning("win32", Cut(q, k)) = Meaning("win32", p)
    BY <1>6, <1>11, <2>5, <2>6, SameRootMeans
  <2> QED  BY <1>4, <2>3, <2>7 DEF GoesBack
<1> QED  BY <1>13, <1>14

\* So it leads, in every adapter, from every path the File Manager meets.
LEMMA ProperGoesBack ==
  ASSUME NEW a, NEW p, Proper(a, p), NEW name \in FileNames
  PROVE  GoesBack(a, p, name)
<1>1. p \in Seq(Text) /\ p # <<>>
  BY DEF Proper, Rooted
<1> QED  BY <1>1, PosixGoesBack, DosGoesBack, WinGoesBack

\* The last separator of a path is one.
LEMMA LastSepFound ==
  ASSUME NEW p \in Seq(Text), LastSep(p) # 0
  PROVE  LastSep(p) \in 1..Len(p) /\ IsSep(p[LastSep(p)])
<1> DEFINE S == {0} \cup {i \in DOMAIN p : IsSep(p[i])}
<1>1. Len(p) \in Nat /\ S \in SUBSET (0..Len(p)) /\ S # {} /\ DOMAIN p = 1..Len(p)
  OBVIOUS
<1>2. Max(S) \in S
  BY <1>1, MaxRight
<1>3. LastSep(p) \in S
  BY <1>2 DEF LastSep
<1> QED  BY <1>1, <1>3

\* The simplest path.
LEMMA HereProper == \A a : Proper(a, <<Here>>)
<1> SUFFICES ASSUME NEW a PROVE Proper(a, <<Here>>)
  OBVIOUS
<1> DEFINE p == <<Here>>
<1>1. p \in Seq(Text) /\ p # <<>> /\ Len(p) = 1 /\ p[1] = Here
  BY DEF Text
<1> HIDE DEF p
<1>2. ~HasDrive(p)
  BY <1>1 DEF HasDrive, Here, Drive
<1>3. ~IsShare(p)
  BY <1>1 DEF IsShare
<1>4. a = "djgpp" => RootEnd(a, p) <= 1
  <2>1. RootEnd(a, p) \in 0..1
    BY <1>1, RootEndRight
  <2> QED  BY <2>1
<1>5. Proper(a, p)
  BY <1>1, <1>2, <1>3, <1>4 DEF Proper, Rooted
<1> QED  BY <1>5 DEF p

\* On DOS there is but one separator in the root of what is above a path.
LEMMA DosParentProper ==
  ASSUME NEW p, Proper("djgpp", p)
  PROVE  Proper("djgpp", DosParent(p))
<1> DEFINE r     == RootEnd("djgpp", p)
           floor == IF HasDrive(p) THEN 2 ELSE 1
           n     == IF Len(p) <= floor THEN Len(p) ELSE TrimSeps(p, Len(p), floor)
           q     == IF Len(p) <= floor THEN p ELSE Cut(p, TrimSeps(p, Len(p), floor))
           last  == LastSep(q)
           k     == TrimSeps(q, last - 1, 0)
<1>1. /\ p \in Seq(Text) /\ p # <<>> /\ (HasDrive(p) => Len(p) >= 2 /\ IsSep(p[2]))
      /\ r <= IF HasDrive(p) THEN 2 ELSE 1
  BY DosProper
<1>2. Len(p) \in Nat /\ Len(p) # 0
  BY <1>1, EmptyPath
<1>3. /\ r \in 0..Len(p) /\ r >= RunStart("djgpp", p)
      /\ r = Len(p) \/ ~IsSep(p[r + 1])
  BY <1>1, RunRight
<1> HIDE DEF r
<1>4. n \in 1..Len(p) /\ (HasDrive(p) => n >= 2)
  <2>1. CASE Len(p) <= floor
    BY <1>1, <1>2, <2>1
  <2>2. CASE ~(Len(p) <= floor)
    <3>1. floor \in Nat /\ floor <= Len(p) /\ floor >= 1 /\ (HasDrive(p) => floor = 2)
      BY <1>2, <2>2
    <3> HIDE DEF floor
    <3>2. TrimSeps(p, Len(p), floor) \in floor..Len(p)
      BY <1>2, <3>1, TrimStops
    <3> QED  BY <1>2, <2>2, <3>1, <3>2
  <2> QED  BY <2>1, <2>2
<1>5. q \in Seq(Text) /\ Len(q) = n /\ \A i \in 1..n : q[i] = p[i]
  <2>1. CASE Len(p) <= floor
    BY <1>1, <2>1
  <2>2. CASE ~(Len(p) <= floor)
    <3>1. q = Cut(p, n)
      BY <2>2
    <3> HIDE DEF q, n
    <3>2. n \in 0..Len(p)
      BY <1>2, <1>4
    <3> QED  BY <1>1, <3>1, <3>2, PartRight
  <2> QED  BY <2>1, <2>2
<1>6. DosParent(p) = IF last = 0 THEN <<Here>>
                     ELSE IF last = 1 THEN Cut(q, 1)
                     ELSE IF last = 2 /\ HasDrive(q) THEN Cut(q, 2)
                     ELSE Cut(q, k)
  BY DEF DosParent
<1> HIDE DEF q, n, floor
<1>7. last # 0 => last \in 1..n /\ IsSep(q[last])
  BY <1>5, LastSepFound
<1>8. last \in 0..n
  BY <1>5, LastSepRight
<1> HIDE DEF last
<1>9. HasDrive(q) <=> HasDrive(p)
  <2>1. q # <<>> /\ q[1] = p[1]
    BY <1>2, <1>4, <1>5, EmptyPath
  <2> QED  BY <1>1, <2>1 DEF HasDrive
\* What is cut to some length is proper.
<1>10. ASSUME NEW m \in 1..n, HasDrive(p) => m >= 2, r < m \/ m <= IF HasDrive(p) THEN 2 ELSE 1
       PROVE  Proper("djgpp", Cut(q, m))
  <2> DEFINE d == Cut(q, m)
  <2>1. m \in 0..n
    OBVIOUS
  <2>2. d \in Seq(Text) /\ Len(d) = m /\ \A i \in 1..m : d[i] = q[i]
    BY <1>5, <2>1, PartRight
  <2> HIDE DEF d
  <2>3. Len(d) <= Len(p) /\ Len(d) # 0 /\ \A i \in 1..Len(d) : p[i] = d[i]
    BY <1>2, <1>4, <1>5, <2>2
  <2>4. Begins(d, p) /\ d # <<>>
    BY <1>1, <2>2, <2>3, EmptyPath DEF Begins
  <2>5. /\ RootEnd("djgpp", d) <= r /\ RootEnd("djgpp", d) \in 0..m
    BY <2>2, <2>4, RunKept, RootEndRight DEF r
  <2>6. d[1] = p[1] /\ (HasDrive(p) => d[2] = p[2])
    BY <1>2, <1>4, <1>10, <2>2, <2>3
  <2>7. HasDrive(d) <=> HasDrive(p)
    BY <1>1, <2>4, <2>6 DEF HasDrive
  <2>8. RootEnd("djgpp", d) <= IF HasDrive(p) THEN 2 ELSE 1
    BY <1>1, <1>2, <1>3, <1>4, <1>10, <2>5
  <2>9. Proper("djgpp", d)
    BY <1>1, <1>10, <2>2, <2>4, <2>6, <2>7, <2>8, DosProper
  <2> QED  BY <2>9 DEF d
<1>11. CASE last = 0
  BY <1>6, <1>11, HereProper
<1>12. CASE last = 1
  <2>1. IsSep(p[1])
    BY <1>4, <1>5, <1>7, <1>12
  <2>2. ~HasDrive(p)
    BY <2>1 DEF HasDrive, IsSep, Slash, BackSlash, Drive
  <2>3. PICK m \in 1..n : m = 1
    BY <1>2, <1>4
  <2>4. Proper("djgpp", Cut(q, m))
    BY <1>10, <2>2, <2>3
  <2> QED  BY <1>6, <1>12, <2>3, <2>4
<1>13. CASE last = 2 /\ HasDrive(q)
  <2>1. PICK m \in 1..n : m = 2
    BY <1>2, <1>4, <1>9, <1>13
  <2>2. Proper("djgpp", Cut(q, m))
    BY <1>9, <1>10, <1>13, <2>1
  <2> QED  BY <1>6, <1>13, <2>1, <2>2
<1>14. CASE last \notin {0, 1} /\ ~(last = 2 /\ HasDrive(q))
  <2>1. last - 1 \in Nat /\ last >= 2 /\ last <= n /\ last \in Nat /\ 0 <= last - 1
    BY <1>4, <1>8, <1>14
  <2>2. k \in 0..(last - 1) /\ \A i \in (k + 1)..(last - 1) : IsSep(q[i])
    <3>1. 0 \in Nat
      OBVIOUS
    <3> QED  BY <2>1, <3>1, TrimStops, Zenon
  <2>3. DosParent(p) = Cut(q, k)
    BY <1>6, <1>14
  <2> HIDE DEF k
  <2>4. IsSep(p[last])
    BY <1>5, <1>7, <1>14
  <2>5. r + 1 <= last - 1
    <3>1. r # last - 1
      BY <1>2, <1>3, <1>4, <2>1, <2>4
    <3>2. HasDrive(p) => last >= 3 /\ r <= 2
      BY <1>1, <1>9, <1>14, <2>1
    <3>3. ~HasDrive(p) => r <= 1
      BY <1>1
    <3> QED  BY <1>3, <2>1, <3>1, <3>2, <3>3
  <2>6. ~IsSep(q[r + 1])
    <3>1. r + 1 \in 1..n /\ r # Len(p)
      BY <1>2, <1>3, <1>4, <2>1, <2>5
    <3> QED  BY <1>3, <1>5, <3>1
  <2>7. r < k
    <3>1. ~(r + 1 \in (k + 1)..(last - 1))
      BY <2>2, <2>6
    <3> QED  BY <1>3, <2>1, <2>2, <2>5, <3>1
  <2>8. k \in 1..n
    BY <1>3, <1>4, <2>1, <2>2, <2>7
  <2>9. HasDrive(p) => k >= 2
    BY <1>3, <2>2, <2>7 DEF RunStart
  <2> QED  BY <1>10, <2>3, <2>7, <2>8, <2>9
<1> QED  BY <1>11, <1>12, <1>13, <1>14

\* On POSIX a path stays one.
LEMMA PosixProper ==
  ASSUME NEW a, a \notin {"win32", "djgpp"}, NEW p
  PROVE  Proper(a, p) <=> p \in Seq(Text) /\ p # <<>>
BY DEF Proper, Rooted

\* What is above a proper POSIX path is one: it is never empty.
LEMMA PosixParentProper ==
  ASSUME NEW a, a \notin {"win32", "djgpp"}, NEW p, Proper(a, p)
  PROVE  Proper(a, PosixParent(p))
<1>1. p \in Seq(Text)
  BY PosixProper
<1>2. PosixParent(p) # <<>>
  BY DEF PosixParent
<1> QED  BY <1>1, <1>2, PosixParentRight, PosixProper

\* On Windows the separator of a drive is not cut off.
LEMMA WinParentProper ==
  ASSUME NEW p, Proper("win32", p)
  PROVE  Proper("win32", WinParent(p))
<1>1. /\ Whole("win32", p) /\ p \in Seq(Text) /\ p # <<>>
      /\ HasDrive(p) => Len(p) >= 2 /\ IsSep(p[2])
  BY WinProper DEF Whole
<1>2. Len(p) \in Nat /\ Len(p) # 0 /\ RootLength(p) \in 0..Len(p)
  BY <1>1, EmptyPath, RootRight
<1>3. PICK k \in RootLength(p)..Len(p) : WinParent(p) = IF k = 0 THEN <<Here>> ELSE Cut(p, k)
  BY <1>1, WinParentIs
<1>4. k \in 0..Len(p) /\ k >= RootLength(p)
  BY <1>2
<1>5. CASE k = 0
  BY <1>3, <1>5, HereProper
<1>6. CASE k # 0
  <2> DEFINE d == Cut(p, k)
  <2>1. WinParent(p) = d
    BY <1>3, <1>6
  <2>2. d \in Seq(Text) /\ Len(d) = k /\ \A i \in 1..k : d[i] = p[i]
    BY <1>1, <1>4, PartRight
  <2> HIDE DEF d
  <2>3. Whole("win32", d)
    BY <1>1, <2>1, WinParentRight
  <2>4. d # <<>>
    BY <1>6, <2>2, EmptyPath
  <2>5. ASSUME HasDrive(d) PROVE Len(d) >= 2 /\ IsSep(d[2])
    <3>1. d[1] = p[1]
      BY <1>4, <1>6, <2>2
    <3>2. HasDrive(p)
      BY <1>1, <2>4, <2>5, <3>1 DEF HasDrive
    <3>3. RootLength(p) = 2
      BY <1>1, <3>2 DEF RootLength
    <3>4. k >= 2 /\ 2 \in 1..k
      BY <1>4, <3>3
    <3> QED  BY <1>1, <2>2, <3>2, <3>4
  <2> QED  BY <2>1, <2>3, <2>4, <2>5, WinProper
<1> QED  BY <1>5, <1>6

\* A name behind a path changes nothing of its root.
LEMMA DosJoinProper ==
  ASSUME NEW p, Proper("djgpp", p), NEW name \in FileNames, NEW q,
         Joined(p, name, q), Tight(p, q), SameRoot("djgpp", p, q)
  PROVE  Proper("djgpp", q)
<1> DEFINE r == RootEnd("djgpp", p)
           s == RootEnd("djgpp", q)
<1>1. /\ p \in Seq(Text) /\ p # <<>> /\ (HasDrive(p) => Len(p) >= 2 /\ IsSep(p[2]))
      /\ r <= IF HasDrive(p) THEN 2 ELSE 1
  BY DosProper
<1>2. /\ Len(p) \in Nat /\ Len(q) \in Nat /\ q \in Seq(Text) /\ Len(q) >= 2
      /\ Len(q) = Len(p) + 1 \/ Len(q) = Len(p) + 2
      /\ \A i \in 1..Len(p) : q[i] = p[i]
  BY <1>1, JoinedSep
<1>3. Len(p) # 0 /\ q # <<>>
  BY <1>1, <1>2, EmptyPath
<1>4. HasDrive(q) <=> HasDrive(p)
  <2>1. q[1] = p[1]
    BY <1>2, <1>3
  <2> QED  BY <1>1, <1>3, <2>1 DEF HasDrive
<1>5. HasDrive(p) => IsSep(q[2])
  BY <1>1, <1>2
<1>6. s \in 0..(Len(q) - 1) /\ \A i \in 1..Len(p) : i <= s <=> i <= r
  BY DEF SameRoot
<1>7. r \in 0..Len(p)
  BY <1>1, RootEndRight
<1>8. \A i \in (RunStart("djgpp", p) + 1)..r : IsSep(p[i])
  BY <1>1, RunRight
<1> HIDE DEF r, s
<1>9. s <= IF HasDrive(p) THEN 2 ELSE 1
  <2> DEFINE b == IF HasDrive(p) THEN 2 ELSE 1
  <2>1. b \in Nat /\ r <= b /\ b <= Len(p)
    BY <1>1, <1>2, <1>3
  <2> HIDE DEF b
  <2>2. CASE b < Len(p)
    <3>1. b + 1 \in 1..Len(p) /\ ~(b + 1 <= r)
      BY <1>2, <1>7, <2>1, <2>2
    <3>2. ~(b + 1 <= s)
      BY <1>6, <3>1
    <3> QED  BY <1>2, <1>6, <2>1, <3>2 DEF b
  <2>3. CASE b = Len(p) /\ Len(q) = Len(p) + 1
    BY <1>2, <1>6, <2>1, <2>3 DEF b
  <2>4. CASE b = Len(p) /\ Len(q) = Len(p) + 2
    <3>1. CASE r < Len(p)
      <4>1. Len(p) \in 1..Len(p) /\ ~(Len(p) <= r)
        BY <1>2, <1>3, <1>7, <3>1
      <4>2. ~(Len(p) <= s)
        BY <1>6, <4>1
      <4> QED  BY <1>2, <1>6, <2>1, <2>4, <4>2 DEF b
    <3>2. CASE r = Len(p)
      \* Then the path ends with a separator, and there is none to be put in.
      <4>1. ~IsSep(p[Len(p)])
        BY <1>1, <2>4 DEF Tight
      <4>2. Len(p) \in (RunStart("djgpp", p) + 1)..r
        BY <1>1, <1>2, <1>3, <3>2 DEF RunStart
      <4> QED  BY <1>8, <4>1, <4>2
    <3> QED  BY <1>2, <1>7, <3>1, <3>2
  <2> QED  BY <1>2, <2>1, <2>2, <2>3, <2>4
<1> QED  BY <1>2, <1>3, <1>4, <1>5, <1>9, DosProper DEF s

\* Whatever is joined to a proper Windows path is one: a drive keeps its separator.
LEMMA WinJoinProper ==
  ASSUME NEW p, Proper("win32", p), NEW name \in FileNames, NEW q,
         Joined(p, name, q), Whole("win32", q)
  PROVE  Proper("win32", q)
<1>1. /\ p \in Seq(Text) /\ p # <<>> /\ (HasDrive(p) => Len(p) >= 2 /\ IsSep(p[2]))
  BY WinProper DEF Whole
<1>2. /\ Len(p) \in Nat /\ Len(q) \in Nat /\ q \in Seq(Text) /\ Len(q) >= 2
      /\ \A i \in 1..Len(p) : q[i] = p[i]
  BY <1>1, JoinedSep
<1>3. Len(p) # 0 /\ q # <<>>
  BY <1>1, <1>2, EmptyPath
<1>4. HasDrive(q) <=> HasDrive(p)
  <2>1. q[1] = p[1]
    BY <1>2, <1>3
  <2> QED  BY <1>1, <1>3, <2>1 DEF HasDrive
<1>5. HasDrive(p) => IsSep(q[2])
  BY <1>1, <1>2
<1> QED  BY <1>2, <1>3, <1>4, <1>5, WinProper

\* So a path stays proper on the way up and on the way down.
LEMMA ProperPaths ==
  ASSUME NEW a, NEW p, Proper(a, p)
  PROVE  /\ Proper(a, Parent(a, p))
         /\ \A name \in FileNames :
              /\ Joined(p, name, Join(a, p, name))
              /\ SameRoot(a, p, Join(a, p, name)) /\ Proper(a, Join(a, p, name))
<1>1. p \in Seq(Text) /\ Whole(a, p)
  BY DEF Proper, Rooted, Whole
<1>2. Proper(a, Parent(a, p))
  BY PosixParentProper, DosParentProper, WinParentProper DEF Parent
<1>3. ASSUME NEW name \in FileNames
      PROVE  /\ Joined(p, name, Join(a, p, name))
             /\ SameRoot(a, p, Join(a, p, name)) /\ Proper(a, Join(a, p, name))
  <2> DEFINE q == Join(a, p, name)
  <2>1. Joined(p, name, q)
    BY <1>1, JoinShape
  <2>2. a \in {"win32", "djgpp"} => Tight(p, q)
    BY <1>1, JoinTight DEF Join, WinJoin, DosJoin
  <2> HIDE DEF q
  <2>3. q \in Seq(Text) /\ q # <<>>
    <3>1. q \in Seq(Text) /\ Len(q) # 0
      BY <1>1, <2>1, JoinedSep
    <3> QED  BY <3>1, EmptyPath
  <2>4. CASE a = "win32"
    <3>1. SameRoot("win32", p, q) /\ Whole("win32", q)
      BY <1>1, <2>1, <2>2, <2>4, WinRoot
    <3> QED  BY <2>1, <2>4, <3>1, WinJoinProper DEF q
  <2>5. CASE a # "win32"
    <3>1. SameRoot(a, p, q)
      BY <1>1, <2>1, <2>5, PosixRoot
    <3>2. CASE a = "djgpp"
      BY <2>1, <2>2, <3>1, <3>2, DosJoinProper DEF q
    <3>3. CASE a # "djgpp"
      BY <2>1, <2>3, <2>5, <3>1, <3>3, PosixProper DEF q
    <3> QED  BY <3>2, <3>3
  <2> QED  BY <2>4, <2>5
<1> QED  BY <1>2, <1>3

-----------------------------------------------------------------------------
(***************************************************************************)
(* Where a path leads.                                                     *)
(***************************************************************************)
\* What a path refers to from one of its separators and names to the next.
RightWay(p, way) ==
  /\ DOMAIN way = 0..Len(p) /\ way[0] = 1
  /\ \A i \in 1..Len(p) :
       way[i] = IF Skipped(adapter, p, i) THEN way[i - 1] ELSE Inside(way[i - 1], p[i])

WaysRight == \A p : Len(p) \in Nat => RightWay(p, Way(p))

\* That is what following a path does, place by place.
LEMMA WayRight == WaysRight
<1> SUFFICES ASSUME NEW p, Len(p) \in Nat PROVE RightWay(p, Way(p))
  BY DEF WaysRight
<1> DEFINE L == Len(p)
           Turn(f, i) == IF Skipped(adapter, p, i) THEN f[i - 1] ELSE Inside(f[i - 1], p[i])
           Upto(f, n) == DOMAIN f = 0..n /\ f[0] = 1 /\ \A i \in 1..n : f[i] = Turn(f, i)
           S == {n \in 0..L : \E f : Upto(f, n)}
<1>1. L \in Nat
  OBVIOUS
<1>2. 0 \in S
  <2>1. Upto([i \in 0..0 |-> 1], 0)
    OBVIOUS
  <2> HIDE DEF Upto, L
  <2> QED  BY <1>1, <2>1
<1>3. ASSUME NEW n \in 0..L, n < L, n \in S PROVE n + 1 \in S
  <2> HIDE DEF L
  <2>1. PICK f : Upto(f, n)
    BY <1>3
  <2>2. n \in Nat /\ n + 1 \in 0..L
    BY <1>1, <1>3
  <2> HIDE DEF Turn
  <2> DEFINE v == Turn(f, n + 1)
             g == [i \in 0..(n + 1) |-> IF i = n + 1 THEN v ELSE f[i]]
  <2>3. g[n + 1] = v /\ \A i \in 0..n : g[i] = f[i]
    BY <2>2
  <2>4. DOMAIN g = 0..(n + 1) /\ g[0] = 1
    BY <2>1, <2>2, <2>3
  <2> HIDE DEF g, v
  <2>5. ASSUME NEW i \in 1..(n + 1) PROVE g[i] = Turn(g, i)
    <3>1. i - 1 \in 0..n /\ (i \in 1..n \/ i = n + 1)
      BY <2>2
    <3>2. g[i - 1] = f[i - 1]
      BY <2>3, <3>1
    <3>3. Turn(g, i) = Turn(f, i)
      BY <3>2 DEF Turn
    <3>4. g[i] = Turn(f, i)
      BY <2>1, <2>2, <2>3, <3>1 DEF v
    <3> QED  BY <3>3, <3>4
  <2>6. Upto(g, n + 1)
    BY <2>4, <2>5
  <2> QED  BY <2>2, <2>6
<1>4. L \in S
  <2> HIDE DEF S, L
  <2>1. 0..L \subseteq S
    BY <1>1, <1>2, <1>3, Stepwise
  <2> QED  BY <1>1, <2>1
<1>5. PICK f : Upto(f, L)
  BY <1>4
<1> DEFINE Fixed(h) == h = [i \in 0..L |-> IF i = 0 THEN 1
                              ELSE IF i <= RootEnd(adapter, p) \/ ~IsName(p[i]) THEN h[i - 1]
                              ELSE Inside(h[i - 1], p[i])]
<1>6. Fixed(f)
  <2> DEFINE g == [i \in 0..L |-> IF i = 0 THEN 1
                     ELSE IF i <= RootEnd(adapter, p) \/ ~IsName(p[i]) THEN f[i - 1]
                     ELSE Inside(f[i - 1], p[i])]
  <2>1. \A i \in 0..L : f[i] = g[i]
    BY <1>1, <1>5 DEF Skipped
  <2>2. f = [i \in 0..L |-> f[i]]
    BY <1>5
  <2> QED  BY <2>1, <2>2
<1> DEFINE h == CHOOSE h : Fixed(h)
<1>7. Fixed(h)
  BY <1>6
<1>8. Way(p) = h
  BY DEF Way
<1> HIDE DEF h
<1>9. DOMAIN h = 0..L /\ h[0] = 1
  BY <1>1, <1>7
<1>10. ASSUME NEW i \in 1..L
       PROVE  h[i] = IF Skipped(adapter, p, i) THEN h[i - 1] ELSE Inside(h[i - 1], p[i])
  <2>1. i \in 0..L /\ i # 0
    BY <1>1
  <2> QED  BY <1>7, <2>1 DEF Skipped
<1> QED  BY <1>8, <1>9, <1>10 DEF RightWay

\* The path of a name in a folder refers to what has that name in it.
JoinsRight == \A p, name : Proper(adapter, p) /\ name \in FileNames =>
                At(Join(adapter, p, name)) = Inside(At(p), name)

\* So it is for all adapters: the separators in between lead nowhere.
LEMMA JoinRight == JoinsRight
<1> SUFFICES ASSUME NEW p, NEW name \in FileNames, Proper(adapter, p)
             PROVE  At(Join(adapter, p, name)) = Inside(At(p), name)
  BY DEF JoinsRight
<1> DEFINE q   == Join(adapter, p, name)
           way == Way(p)
           on  == Way(q)
           L   == Len(p)
<1>1. Joined(p, name, q) /\ SameRoot(adapter, p, q)
  BY ProperPaths
<1>2. At(q) = on[Len(q)] /\ At(p) = way[L]
  BY DEF At
<1> HIDE DEF q
<1>3. p \in Seq(Text) /\ q \in Seq(Text) /\ Len(q) \in Nat /\ L \in Nat
  BY <1>1 DEF Joined, Proper
<1>4. RightWay(p, way) /\ RightWay(q, on)
  BY <1>3, WayRight DEF WaysRight
<1> HIDE DEF way, on
<1>5. /\ \A i \in 1..L : q[i] = p[i] /\ (Skipped(adapter, q, i) <=> Skipped(adapter, p, i))
      /\ RootEnd(adapter, q) \in 0..(Len(q) - 1) /\ q[Len(q)] = name
      /\ Len(q) = L + 1 \/ (Len(q) = L + 2 /\ IsSep(q[L + 1]))
  BY <1>1 DEF Joined, Begins, SameRoot
<1>6. /\ on[0] = 1 /\ way[0] = 1
      /\ \A i \in 1..Len(q) :
           on[i] = IF Skipped(adapter, q, i) THEN on[i - 1] ELSE Inside(on[i - 1], q[i])
      /\ \A i \in 1..L :
           way[i] = IF Skipped(adapter, p, i) THEN way[i - 1] ELSE Inside(way[i - 1], p[i])
  BY <1>4 DEF RightWay
<1> HIDE DEF L
<1> DEFINE S == {i \in 0..L : on[i] = way[i]}
<1>7. 0..L \subseteq S
  <2>1. 0 \in S
    BY <1>3, <1>6
  <2>2. ASSUME NEW n \in 0..L, n < L, n \in S PROVE n + 1 \in S
    <3>1. n + 1 \in 1..L /\ n + 1 \in 1..Len(q) /\ n + 1 - 1 = n /\ n + 1 \in 0..L
      BY <1>3, <1>5, <2>2
    <3>2. on[n] = way[n]
      BY <2>2
    <3>3. on[n + 1] = IF Skipped(adapter, q, n + 1) THEN on[n] ELSE Inside(on[n], q[n + 1])
      BY <1>6, <3>1
    <3>4. way[n + 1] = IF Skipped(adapter, p, n + 1) THEN way[n] ELSE Inside(way[n], p[n + 1])
      BY <1>6, <3>1
    <3>5. q[n + 1] = p[n + 1] /\ (Skipped(adapter, q, n + 1) <=> Skipped(adapter, p, n + 1))
      BY <1>5, <3>1
    <3>6. on[n + 1] = way[n + 1]
      <4>1. CASE Skipped(adapter, p, n + 1)
        BY <3>2, <3>3, <3>4, <3>5, <4>1
      <4>2. CASE ~Skipped(adapter, p, n + 1)
        <5>1. on[n + 1] = Inside(on[n], q[n + 1])
          BY <3>3, <3>5, <4>2
        <5>2. way[n + 1] = Inside(way[n], p[n + 1])
          BY <3>4, <4>2
        <5> QED  BY <3>2, <3>5, <5>1, <5>2
      <4> QED  BY <4>1, <4>2
    <3> QED  BY <3>1, <3>6
  <2> HIDE DEF S
  <2> QED  BY <1>3, <2>1, <2>2, Stepwise
<1>8. on[L] = way[L]
  BY <1>3, <1>7
<1>9. on[Len(q) - 1] = way[L]
  <2>1. CASE Len(q) = L + 1
    BY <1>3, <1>8, <2>1
  <2>2. CASE Len(q) = L + 2 /\ IsSep(q[L + 1])
    <3>1. Skipped(adapter, q, L + 1)
      BY <2>2 DEF Skipped, IsName
    <3>2. PICK m \in 1..Len(q) : m = L + 1
      BY <1>3, <2>2
    <3>3. m - 1 = L /\ Len(q) - 1 = m
      BY <1>3, <2>2, <3>2
    <3>4. on[m] = on[m - 1]
      BY <1>6, <3>1, <3>2
    <3> QED  BY <1>8, <3>3, <3>4
  <2> QED  BY <1>5, <2>1, <2>2
<1>10. ~Skipped(adapter, q, Len(q))
  <2>1. ~(Len(q) <= RootEnd(adapter, q))
    BY <1>3, <1>5
  <2> QED  BY <1>5, <2>1, NamesRight DEF Skipped, IsName
<1>11. Len(q) \in 1..Len(q)
  BY <1>3, <1>5
<1>12. on[Len(q)] = Inside(way[L], name)
  BY <1>5, <1>6, <1>9, <1>10, <1>11
<1> QED  BY <1>2, <1>12 DEF q, L

-----------------------------------------------------------------------------
(***************************************************************************)
(* The state of the File Manager, its list a sequence.                     *)
(***************************************************************************)
IsList(items) == items \in Seq({items[i] : i \in DOMAIN items})

FmOK(f) ==
  /\ f = [cwd |-> f.cwd, items |-> f.items, selected |-> f.selected, scroll |-> f.scroll,
          hidden |-> f.hidden, error |-> f.error, prompt |-> f.prompt, input |-> f.input]
  /\ IsList(f.items) /\ f.selected \in Int /\ f.scroll \in Nat

\* The selected row is one of the list and among those drawn.
InView(f) ==
  f.items # <<>> =>
    f.selected \in f.scroll..(f.scroll + Rows - 1) /\ f.selected < Len(f.items)

CallOK ==
  /\ call = [stage |-> call.stage, name |-> call.name, to |-> call.to, names |-> call.names,
             keep |-> call.keep, old |-> call.old, preserve |-> call.preserve,
             made |-> call.made]
  /\ IsFiniteSet(call.names) /\ call.old \in Nat
  /\ call.keep = None \/ (call.to = None /\ call.preserve)
  /\ call.stage \in {"look", "open", "entries"} => fm.items = <<>>

ViewInv ==
  /\ FmOK(fm) /\ InView(fm) /\ fm.selected \in Nat
  /\ CallOK /\ IsFiniteSet(entries)

\* The length of a list.
LEMMA ListRight ==
  ASSUME NEW items, IsList(items)
  PROVE  Len(items) \in Nat /\ DOMAIN items = 1..Len(items) /\ (items = <<>> <=> Len(items) = 0)
BY DEF IsList

\* What has as many places as there are items is a list.
LEMMA SortedRight ==
  ASSUME NEW items, IsFiniteSet(items)
  PROVE  IsList(Sorted(items))
<1> DEFINE s == Sorted(items)
<1>1. Cardinality(items) \in Nat
  BY FS_CardinalityType
<1>2. DOMAIN s = 1..Cardinality(items)
  BY DEF Sorted
<1>3. s = [i \in DOMAIN s |-> s[i]]
  <2> DEFINE item(i) == CHOOSE item \in items :
                          Cardinality({other \in items : Before(other, item)}) = i - 1
  <2>1. s = [i \in 1..Cardinality(items) |-> item(i)]
    BY DEF Sorted
  <2> HIDE DEF item, s
  <2> QED  BY <2>1
<1> HIDE DEF s
<1>4. s \in [1..Cardinality(items) -> {s[i] : i \in DOMAIN s}]
  BY <1>2, <1>3
<1>5. IsList(s)
  <2> DEFINE n == Cardinality(items)
             T == {s[i] : i \in DOMAIN s}
  <2>1. n \in Nat /\ s \in [1..n -> T]
    BY <1>1, <1>4
  <2> HIDE DEF n, T
  <2>2. s \in Seq(T)
    BY <2>1
  <2> QED  BY <2>2 DEF T, IsList
<1> QED  BY <1>5 DEF s

\* The view after a clamp: the selection as it was, if it was on the list.
LEMMA ClampRight ==
  ASSUME NEW f, FmOK(f), f.items # <<>> => f.selected \in Nat
  PROVE  LET g == ClampView(f)
         IN  /\ FmOK(g) /\ InView(g) /\ g.selected \in Nat
             /\ g.items = f.items
             /\ f.selected \in 0..(Len(f.items) - 1) => g.selected = f.selected
<1> DEFINE count    == Len(f.items)
           selected == IF f.selected >= count THEN count - 1 ELSE f.selected
           scroll   == IF selected < f.scroll THEN selected
                       ELSE IF selected >= f.scroll + Rows THEN selected - Rows + 1 ELSE f.scroll
           most     == IF count > Rows THEN count - Rows ELSE 0
           scroll1  == IF scroll > most THEN most ELSE scroll
           g        == ClampView(f)
<1>1. count \in Nat /\ (f.items = <<>> <=> count = 0) /\ Rows \in Nat \ {0}
  BY ListRight, FileManagerAssumption DEF FmOK
<1>2. f.scroll \in Nat /\ f.selected \in Int
  BY DEF FmOK
<1>3. CASE count = 0
  <2>1. g = [f EXCEPT !.selected = 0, !.scroll = 0]
    BY <1>3 DEF ClampView
  <2> HIDE DEF g
  <2>2. /\ g = [cwd |-> f.cwd, items |-> f.items, selected |-> 0, scroll |-> 0,
               hidden |-> f.hidden, error |-> f.error, prompt |-> f.prompt, input |-> f.input]
    BY <2>1 DEF FmOK
  <2>3. FmOK(g) /\ g.items = f.items /\ g.selected = 0
    BY <2>2 DEF FmOK
  <2> QED  BY <1>1, <1>3, <2>3 DEF InView, g
<1>4. CASE count # 0
  <2>1. g = [f EXCEPT !.selected = selected, !.scroll = scroll1]
    BY <1>4 DEF ClampView
  <2>2. f.selected \in Nat
    BY <1>1, <1>4
  <2>3. selected \in Nat /\ selected < count
    BY <1>1, <1>4, <2>2
  <2>4. f.selected \in 0..(count - 1) => selected = f.selected
    BY <1>1, <1>4, <2>2
  <2> HIDE DEF g, selected, count
  <2>5. scroll \in Nat /\ scroll <= selected /\ selected <= scroll + Rows - 1
    BY <1>1, <1>2, <2>3
  <2> HIDE DEF scroll
  <2>6. scroll1 \in Nat /\ selected \in scroll1..(scroll1 + Rows - 1)
    BY <1>1, <2>3, <2>5
  <2> HIDE DEF scroll1
  <2>7. /\ g = [cwd |-> f.cwd, items |-> f.items, selected |-> selected, scroll |-> scroll1,
               hidden |-> f.hidden, error |-> f.error, prompt |-> f.prompt, input |-> f.input]
    BY <2>1 DEF FmOK
  <2>8. /\ FmOK(g) /\ g.items = f.items /\ g.selected = selected /\ g.scroll = scroll1
    BY <2>3, <2>6, <2>7 DEF FmOK
  <2>9. InView(g)
    BY <2>3, <2>6, <2>8 DEF InView, count
  <2> QED  BY <2>3, <2>4, <2>8, <2>9 DEF g, count
<1> QED  BY <1>3, <1>4

\* The rows of a name are rows, and the first of them has the name.
LEMMA PlacesRight ==
  ASSUME NEW f, FmOK(f), NEW name, Places(f, name) # {}
  PROVE  /\ Min(Places(f, name)) \in 0..(Len(f.items) - 1) /\ f.items # <<>>
         /\ f.items[Min(Places(f, name)) + 1].name = name
<1>1. Len(f.items) \in Nat /\ (f.items = <<>> <=> Len(f.items) = 0)
  BY ListRight DEF FmOK
<1>2. Places(f, name) \in SUBSET Nat
  BY <1>1 DEF Places
<1>3. Min(Places(f, name)) \in Places(f, name)
  BY <1>2, MinRight
<1>4. Min(Places(f, name)) \in 0..(Len(f.items) - 1)
  BY <1>3 DEF Places
<1>5. f.items[Min(Places(f, name)) + 1].name = name
  BY <1>3 DEF Places
<1> QED  BY <1>1, <1>4, <1>5

\* Another selection in the same list.
LEMMA SelectRight ==
  ASSUME NEW f, FmOK(f), NEW selected \in Int
  PROVE  LET g == [f EXCEPT !.selected = selected]
         IN  FmOK(g) /\ g.items = f.items /\ g.selected = selected
<1> DEFINE g == [f EXCEPT !.selected = selected]
<1>1. g = [cwd |-> f.cwd, items |-> f.items, selected |-> selected, scroll |-> f.scroll,
           hidden |-> f.hidden, error |-> f.error, prompt |-> f.prompt, input |-> f.input]
  BY DEF FmOK
<1> HIDE DEF g
<1>2. FmOK(g) /\ g.items = f.items /\ g.selected = selected
  BY <1>1 DEF FmOK
<1> QED  BY <1>2 DEF g

\* The view is right and the entry of that name is selected, if there is one.
Selects(g, f, name) ==
  /\ FmOK(g) /\ InView(g) /\ g.selected \in Nat /\ g.items = f.items
  /\ Places(f, name) # {} => g.selected = Min(Places(f, name)) /\ SelectedName(g) = name

\* Clamping a selection of the first row with a name keeps it.
LEMMA ClampSelects ==
  ASSUME NEW f, FmOK(f), NEW name, f.items # <<>> => f.selected \in Nat,
         Places(f, name) # {} => f.selected = Min(Places(f, name))
  PROVE  Selects(ClampView(f), f, name)
<1> DEFINE g == ClampView(f)
<1>1. /\ FmOK(g) /\ InView(g) /\ g.selected \in Nat /\ g.items = f.items
      /\ f.selected \in 0..(Len(f.items) - 1) => g.selected = f.selected
  BY ClampRight
<1> HIDE DEF g
<1>2. ASSUME Places(f, name) # {}
      PROVE  g.selected = Min(Places(f, name)) /\ SelectedName(g) = name
  <2>1. /\ f.selected \in 0..(Len(f.items) - 1) /\ f.items[f.selected + 1].name = name
    BY <1>2, PlacesRight
  <2>2. g.selected = f.selected
    BY <1>1, <2>1
  <2>3. g.selected < Len(g.items)
    BY <1>1, <2>1, <2>2, ListRight DEF FmOK
  <2> QED  BY <1>1, <1>2, <2>1, <2>2, <2>3 DEF SelectedName
<1> QED  BY <1>1, <1>2 DEF Selects, g

\* So it is selected, if it is in the list.
LEMMA SelectNameRight ==
  ASSUME NEW f, FmOK(f), f.selected \in Nat, NEW name
  PROVE  Selects(SelectName(f, name), f, name)
<1>1. CASE Places(f, name) = {}
  BY <1>1, ClampSelects DEF SelectName
<1>2. CASE Places(f, name) # {}
  <2> DEFINE least == Min(Places(f, name))
             g     == [f EXCEPT !.selected = least]
  <2>1. least \in Nat
    BY <1>2, PlacesRight, ListRight DEF FmOK
  <2> HIDE DEF least
  <2>2. FmOK(g) /\ g.items = f.items /\ g.selected = least
    BY <2>1, SelectRight
  <2>3. SelectName(f, name) = ClampView(g)
    BY <1>2 DEF SelectName, least
  <2> HIDE DEF g
  <2>4. Places(g, name) = Places(f, name)
    BY <2>2 DEF Places
  <2>5. Selects(ClampView(g), g, name)
    BY <2>1, <2>2, <2>4, ClampSelects DEF least
  <2> QED  BY <2>2, <2>3, <2>4, <2>5 DEF Selects
<1> QED  BY <1>1, <1>2

-----------------------------------------------------------------------------
(***************************************************************************)
(* The steps.                                                              *)
(***************************************************************************)
Kept ==
  /\ fm'.items # <<>> =>
       fm'.selected \in fm'.scroll..(fm'.scroll + Rows - 1) /\ fm'.selected < Len(fm'.items)
  /\ call.stage = "entries" /\ fm'.items # <<>> =>
       \A n \in {call.to, call.keep} \ {None} : Places(fm', n) # {} => n = SelectedName(fm')

StepOK == ViewInv' /\ [Kept]_fm

\* No call runs.
LEMMA NoCallRight ==
  /\ NoCall = [stage |-> NoCall.stage, name |-> NoCall.name, to |-> NoCall.to,
               names |-> NoCall.names, keep |-> NoCall.keep, old |-> NoCall.old,
               preserve |-> NoCall.preserve, made |-> NoCall.made]
  /\ NoCall.stage = "idle" /\ NoCall.names = {} /\ NoCall.old = 0 /\ NoCall.keep = None
BY DEF NoCall

\* The list that a listing shows, with the selection it was to have.
LEMMA ShowStep ==
  ASSUME ViewInv, ShowEntries
  PROVE  StepOK
<1> DEFINE items == Shown(Looked \cup {Item(Up, "folder")}, fm.hidden)
           f     == [fm EXCEPT !.items = Sorted(items)]
           kept  == IF Places(f, call.keep) # {} THEN Min(Places(f, call.keep))
                    ELSE IF call.old < Len(f.items) THEN call.old ELSE Len(f.items) - 1
           f1    == IF call.preserve THEN [f EXCEPT !.selected = kept] ELSE f
           g     == ClampView(f1)
<1>1. /\ call.stage = "entries" /\ call' = NoCall /\ UNCHANGED files
      /\ fm' = IF call.to = None THEN g ELSE SelectName(g, call.to)
  BY DEF ShowEntries, Stop
<1>2. IsFiniteSet(items)
  <2> DEFINE S    == {n \in call.names : Target(n) # 0}
             look == [n \in S |-> Item(n, kinds[Target(n)])]
  <2>1. IsFiniteSet(S)
    BY FS_Subset DEF ViewInv, CallOK
  <2>2. look \in Surjection(S, Looked)
    BY DEF Surjection, Looked
  <2>3. IsFiniteSet(Looked)
    BY <2>1, <2>2, FS_Surjection
  <2>4. IsFiniteSet(Looked \cup {Item(Up, "folder")})
    BY <2>3, FS_AddElement
  <2> QED  BY <2>4, FS_Subset DEF Shown
<1>3. IsList(Sorted(items))
  BY <1>2, SortedRight
<1> HIDE DEF items
<1>4. FmOK(f) /\ f.items = Sorted(items) /\ f.selected \in Nat
  <2>1. f = [cwd |-> fm.cwd, items |-> Sorted(items), selected |-> fm.selected,
             scroll |-> fm.scroll, hidden |-> fm.hidden, error |-> fm.error,
             prompt |-> fm.prompt, input |-> fm.input]
    BY DEF ViewInv, FmOK
  <2> HIDE DEF f
  <2> QED  BY <1>3, <2>1 DEF FmOK, ViewInv
<1> HIDE DEF f
<1>5. Len(f.items) \in Nat /\ (f.items = <<>> <=> Len(f.items) = 0) /\ call.old \in Nat
  BY <1>4, ListRight DEF FmOK, ViewInv, CallOK
<1>6. kept \in Int /\ (f.items # <<>> => kept \in Nat)
  BY <1>4, <1>5, PlacesRight
<1>7. /\ FmOK(f1) /\ f1.items = f.items /\ (f.items # <<>> => f1.selected \in Nat)
      /\ call.preserve => f1.selected = kept
  <2> HIDE DEF kept
  <2> QED  BY <1>4, <1>6, SelectRight
<1>8. call.preserve /\ Places(f, call.keep) # {} => f1.selected = Min(Places(f, call.keep))
  BY <1>7
<1> HIDE DEF kept, f1
<1>9. \A n : Places(f1, n) = Places(f, n)
  BY <1>7 DEF Places
<1>10. /\ FmOK(g) /\ InView(g) /\ g.selected \in Nat /\ g.items = f1.items
       /\ call.preserve => Selects(g, f1, call.keep)
  BY <1>7, <1>8, <1>9, ClampRight, ClampSelects
<1> HIDE DEF g
<1>11. \A n : Places(g, n) = Places(f, n)
  <2>1. g.items = f1.items
    BY <1>10
  <2>2. \A n : Places(g, n) = Places(f1, n)
    BY <2>1 DEF Places
  <2> QED  BY <1>9, <2>2
<1>12. /\ FmOK(fm') /\ InView(fm') /\ fm'.selected \in Nat /\ fm'.items = f.items
       /\ call.to # None => Selects(fm', g, call.to)
  <2>1. CASE call.to = None
    BY <1>1, <1>7, <1>10, <2>1
  <2>2. CASE call.to # None
    <3>1. Selects(fm', g, call.to)
      BY <1>1, <1>10, <2>2, SelectNameRight
    <3> QED  BY <1>7, <1>10, <3>1 DEF Selects
  <2> QED  BY <2>1, <2>2
<1>13. \A n : Places(fm', n) = Places(f, n)
  BY <1>12 DEF Places
<1>14. ASSUME NEW n \in {call.to, call.keep} \ {None}, Places(fm', n) # {}
       PROVE  n = SelectedName(fm')
  <2>1. CASE n = call.to
    BY <1>11, <1>12, <1>13, <1>14, <2>1 DEF Selects
  <2>2. CASE n = call.keep
    <3>1. call.to = None /\ call.preserve
      BY <1>14, <2>2 DEF ViewInv, CallOK
    <3>2. fm' = g /\ Selects(g, f1, call.keep)
      BY <1>1, <1>10, <3>1
    <3> QED  BY <1>9, <1>13, <1>14, <2>2, <3>2 DEF Selects
  <2> QED  BY <1>14, <2>1, <2>2
<1>15. CallOK'
  BY <1>1, NoCallRight, FS_EmptySet DEF CallOK
<1>16. ViewInv'
  BY <1>1, <1>12, <1>15 DEF ViewInv, files
<1>17. Kept
  BY <1>12, <1>14 DEF Kept, InView
<1> QED  BY <1>16, <1>17 DEF StepOK

\* A step that leaves the list and the selection, whatever else it changes.
LEMMA SameList ==
  ASSUME ViewInv, FmOK(fm'), CallOK', IsFiniteSet(entries'),
         fm'.items = fm.items, fm'.selected = fm.selected, fm'.scroll = fm.scroll
  PROVE  StepOK
<1>1. InView(fm')
  BY DEF ViewInv, InView
<1>2. ViewInv'
  BY <1>1 DEF ViewInv
<1>3. Kept
  BY <1>1 DEF Kept, InView, ViewInv, CallOK
<1> QED  BY <1>2, <1>3 DEF StepOK

\* A state of the File Manager from its fields.
State(cwd, items, selected, scroll, hidden, error, prompt, input) ==
  [cwd |-> cwd, items |-> items, selected |-> selected, scroll |-> scroll,
   hidden |-> hidden, error |-> error, prompt |-> prompt, input |-> input]

\* Such a one is as it should be if its list is and the selection is a number.
LEMMA StateRight ==
  ASSUME NEW c, NEW i, NEW s, NEW r, NEW h, NEW e, NEW p, NEW t,
         NEW f, f = State(c, i, s, r, h, e, p, t),
         IsList(i), s \in Int, r \in Nat
  PROVE  FmOK(f) /\ f.items = i /\ f.selected = s /\ f.scroll = r
BY DEF FmOK, State

\* The list and the selection of two states are the same.
Same(f, g) ==
  FmOK(g) /\ g.items = f.items /\ g.selected = f.selected /\ g.scroll = f.scroll

\* So they are after any other field is replaced.
LEMMA OtherField ==
  ASSUME NEW f, FmOK(f), NEW new
  PROVE  /\ Same(f, [f EXCEPT !.cwd = new]) /\ Same(f, [f EXCEPT !.hidden = new])
         /\ Same(f, [f EXCEPT !.error = new])
         /\ Same(f, [f EXCEPT !.prompt = new]) /\ Same(f, [f EXCEPT !.input = new])
<1>1. f = State(f.cwd, f.items, f.selected, f.scroll, f.hidden, f.error, f.prompt, f.input)
  BY DEF FmOK, State
<1>2. PICK c, i, s, r, h, e, p, t : f = State(c, i, s, r, h, e, p, t)
  BY <1>1, Zenon
<1>3. ASSUME NEW cwd, NEW hidden, NEW error, NEW prompt, NEW input
      PROVE  Same(f, State(cwd, i, s, r, hidden, error, prompt, input))
  <2>1. f.items = i /\ f.selected = s /\ f.scroll = r
    BY <1>2 DEF State
  <2>2. IsList(i) /\ s \in Int /\ r \in Nat
    BY <2>1 DEF FmOK
  <2> QED  BY <2>1, <2>2 DEF Same, FmOK, State
<1>4. [f EXCEPT !.cwd = new] = State(new, i, s, r, h, e, p, t)
  BY <1>2 DEF State
<1>5. [f EXCEPT !.hidden = new] = State(c, i, s, r, new, e, p, t)
  BY <1>2 DEF State
<1>6. [f EXCEPT !.error = new] = State(c, i, s, r, h, new, p, t)
  BY <1>2 DEF State
<1>7. [f EXCEPT !.prompt = new] = State(c, i, s, r, h, e, new, t)
  BY <1>2 DEF State
<1>8. [f EXCEPT !.input = new] = State(c, i, s, r, h, e, p, new)
  BY <1>2 DEF State
<1> DEFINE g1 == [f EXCEPT !.cwd = new]
           g2 == [f EXCEPT !.hidden = new]
           g3 == [f EXCEPT !.error = new]
           g4 == [f EXCEPT !.prompt = new]
           g5 == [f EXCEPT !.input = new]
<1> HIDE DEF g1, g2, g3, g4, g5
<1>9. Same(f, g1) /\ Same(f, g2) /\ Same(f, g3) /\ Same(f, g4) /\ Same(f, g5)
  BY <1>3, <1>4, <1>5, <1>6, <1>7, <1>8 DEF g1, g2, g3, g4, g5
<1> QED  BY <1>9 DEF g1, g2, g3, g4, g5

\* One after the other.
LEMMA SameTwice ==
  ASSUME NEW f, NEW g, NEW h, Same(f, g), Same(g, h)
  PROVE  Same(f, h) /\ FmOK(g)
BY DEF Same

\* The replacements the keys make.
LEMMA OtherFields ==
  ASSUME NEW f, FmOK(f), NEW error, NEW prompt, NEW input
  PROVE  /\ Same(f, [f EXCEPT !.prompt = prompt, !.input = input])
         /\ Same(f, [f EXCEPT !.input = input, !.error = error])
         /\ Same(f, [f EXCEPT !.prompt = prompt, !.input = input, !.error = error])
<1> DEFINE g == [f EXCEPT !.prompt = prompt]
           h == [g EXCEPT !.input = input]
           k == [f EXCEPT !.input = input]
<1>1. Same(f, g) /\ Same(f, k)
  BY OtherField, Zenon
<1>2. FmOK(g) /\ FmOK(k)
  BY <1>1 DEF Same
<1>3. Same(g, h)
  BY <1>2, OtherField, Zenon
<1>4. Same(k, [k EXCEPT !.error = error])
  BY <1>2, OtherField, Zenon
<1>5. Same(f, h) /\ FmOK(h)
  BY <1>1, <1>3 DEF Same
<1>6. Same(h, [h EXCEPT !.error = error])
  BY <1>5, OtherField, Zenon
<1>7. Same(f, [h EXCEPT !.error = error])
  BY <1>5, <1>6, SameTwice, Zenon
<1>8. Same(f, [k EXCEPT !.error = error])
  BY <1>1, <1>4, SameTwice, Zenon
<1> QED  BY <1>5, <1>7, <1>8, Zenon

\* A change of the other fields only.
SameView(f) == Same(fm, f)

\* As all that keys do outside the list are.
LEMMA SameViews ==
  ASSUME ViewInv
  PROVE  /\ SameView(fm) /\ SameView(Closed)
         /\ SameView([fm EXCEPT !.error = TRUE])
         /\ SameView([Closed EXCEPT !.error = FALSE])
         /\ \A cwd : SameView([fm EXCEPT !.cwd = cwd])
         /\ SameView([fm EXCEPT !.hidden = ~@])
         /\ \A prompt, input, error :
              /\ SameView([fm EXCEPT !.prompt = prompt, !.input = input, !.error = error])
              /\ SameView([fm EXCEPT !.input = input, !.error = error])
<1>1. FmOK(fm)
  BY DEF ViewInv
<1>2. Same(fm, fm)
  BY <1>1 DEF Same
<1>3. Same(fm, Closed)
  BY <1>1, OtherFields, Zenon DEF Closed
<1>4. FmOK(Closed)
  BY <1>3, SameTwice, <1>2, Zenon DEF Same
<1>5. Same(Closed, [Closed EXCEPT !.error = FALSE])
  BY <1>4, OtherField, Zenon
<1>6. Same(fm, [Closed EXCEPT !.error = FALSE])
  BY <1>3, <1>5, SameTwice, Zenon
<1>7. /\ Same(fm, [fm EXCEPT !.error = TRUE])
      /\ \A cwd : Same(fm, [fm EXCEPT !.cwd = cwd])
      /\ Same(fm, [fm EXCEPT !.hidden = ~@])
  BY <1>1, OtherField, Zenon
<1>8. \A prompt, input, error :
        /\ Same(fm, [fm EXCEPT !.prompt = prompt, !.input = input, !.error = error])
        /\ Same(fm, [fm EXCEPT !.input = input, !.error = error])
  BY <1>1, OtherFields, Zenon
<1> QED  BY <1>2, <1>3, <1>6, <1>7, <1>8, Zenon DEF SameView

\* A step to such a state is right.
LEMMA SameViewStep ==
  ASSUME ViewInv, SameView(fm'), CallOK', IsFiniteSet(entries')
  PROVE  StepOK
BY SameList DEF SameView, Same

\* A call that fails leaves the list, and the next finds none running.
LEMMA FailStep ==
  ASSUME ViewInv, Fail, IsFiniteSet(entries')
  PROVE  StepOK
<1>1. fm' = [fm EXCEPT !.error = TRUE] /\ call' = NoCall
  BY DEF Fail, Stop
<1>2. CallOK'
  BY <1>1, NoCallRight, FS_EmptySet DEF CallOK
<1>3. SameView(fm')
  BY <1>1, SameViews, Zenon
<1> QED  BY <1>2, <1>3, SameViewStep

\* A list that is emptied.
LEMMA Emptied ==
  ASSUME NEW f, FmOK(f)
  PROVE  LET g == [f EXCEPT !.items = <<>>, !.selected = 0, !.scroll = 0, !.error = FALSE]
         IN  FmOK(g) /\ g.items = <<>> /\ g.selected = 0
<1> DEFINE f1 == [f EXCEPT !.items = <<>>]
           f2 == [f1 EXCEPT !.selected = 0]
           f3 == [f2 EXCEPT !.scroll = 0]
           g  == [f3 EXCEPT !.error = FALSE]
<1>1. f = State(f.cwd, f.items, f.selected, f.scroll, f.hidden, f.error, f.prompt, f.input)
  BY DEF FmOK, State
<1>2. PICK c, i, s, r, h, e, p, t : f = State(c, i, s, r, h, e, p, t)
  BY <1>1, Zenon
<1>3. f1 = State(c, <<>>, s, r, h, e, p, t)
  BY <1>2 DEF State
<1> HIDE DEF f1
<1>4. f2 = State(c, <<>>, 0, r, h, e, p, t)
  BY <1>3 DEF State
<1> HIDE DEF f2
<1>5. f3 = State(c, <<>>, 0, 0, h, e, p, t)
  BY <1>4 DEF State
<1> HIDE DEF f3
<1>6. FmOK(f3) /\ f3.items = <<>> /\ f3.selected = 0
  BY <1>5 DEF FmOK, State, IsList
<1>7. Same(f3, g)
  BY <1>6, OtherField, Zenon
<1>8. g = [f EXCEPT !.items = <<>>, !.selected = 0, !.scroll = 0, !.error = FALSE]
  BY Zenon DEF f1, f2, f3
<1> HIDE DEF g
<1>9. FmOK(g) /\ g.items = <<>> /\ g.selected = 0
  BY <1>6, <1>7 DEF Same
<1> QED  BY <1>8, <1>9, Zenon

\* The call that begins one.
CallState(stage, name, to, names, keep, old, preserve, made) ==
  [stage |-> stage, name |-> name, to |-> to, names |-> names,
   keep |-> keep, old |-> old, preserve |-> preserve, made |-> made]

\* What is to be known of it.
CallIs(c, to, names, keep, old, preserve) ==
  /\ c = [stage |-> c.stage, name |-> c.name, to |-> c.to, names |-> c.names,
          keep |-> c.keep, old |-> c.old, preserve |-> c.preserve, made |-> c.made]
  /\ c.to = to /\ c.names = names /\ c.keep = keep /\ c.old = old /\ c.preserve = preserve

\* So it is known of a call made of these fields ...
LEMMA CallRight ==
  ASSUME NEW g, NEW n, NEW t, NEW a, NEW k, NEW o, NEW p, NEW m,
         NEW c, c = CallState(g, n, t, a, k, o, p, m)
  PROVE  CallIs(c, t, a, k, o, p)
BY DEF CallState, CallIs

\* ... and of the one a reload makes.
LEMMA ReloadCall ==
  ASSUME NEW stage, NEW keep, NEW old, NEW preserve, NEW to
  PROVE  CallIs([NoCall EXCEPT !.stage = stage, !.keep = keep, !.old = old,
                               !.preserve = preserve, !.to = to],
                to, {}, keep, old, preserve)
<1>0. NoCall = CallState("idle", None, None, {}, None, 0, FALSE, 0)
  BY DEF NoCall, CallState
<1> PICK g, n, t, a, k, o, p, m : NoCall = CallState(g, n, t, a, k, o, p, m) /\ a = {}
  BY <1>0, Zenon
<1> DEFINE c1 == [NoCall EXCEPT !.stage = stage]
           c2 == [c1 EXCEPT !.keep = keep]
           c3 == [c2 EXCEPT !.old = old]
           c4 == [c3 EXCEPT !.preserve = preserve]
<1>1. c1 = CallState(stage, n, t, a, k, o, p, m)
  BY DEF CallState
<1> HIDE DEF c1
<1>2. c2 = CallState(stage, n, t, a, keep, o, p, m)
  BY <1>1 DEF CallState
<1> HIDE DEF c2
<1>3. c3 = CallState(stage, n, t, a, keep, old, p, m)
  BY <1>2 DEF CallState
<1> HIDE DEF c3
<1>4. c4 = CallState(stage, n, t, a, keep, old, preserve, m)
  BY <1>3 DEF CallState
<1> HIDE DEF c4
<1> DEFINE c5 == [c4 EXCEPT !.to = to]
<1>5. c5 = CallState(stage, n, to, a, keep, old, preserve, m)
  BY <1>4 DEF CallState
<1>6. [NoCall EXCEPT !.stage = stage, !.keep = keep, !.old = old,
                     !.preserve = preserve, !.to = to] = c5
  BY Zenon DEF c1, c2, c3, c4
<1> HIDE DEF c5
<1>7. CallIs(c5, to, {}, keep, old, preserve)
  BY <1>5, CallRight
<1> QED  BY <1>6, <1>7, Zenon

\* A listing begins with an empty list.
LEMMA ReloadStep ==
  ASSUME ViewInv, NEW f, SameView(f), NEW preserve \in BOOLEAN, NEW to,
         ~preserve \/ to = None, Reload(f, preserve, to), IsFiniteSet(entries')
  PROVE  StepOK
<1>1. fm' = [f EXCEPT !.items = <<>>, !.selected = 0, !.scroll = 0, !.error = FALSE]
  BY DEF Reload
<1>2. FmOK(f)
  BY DEF SameView, Same
<1> DEFINE g == [f EXCEPT !.items = <<>>, !.selected = 0, !.scroll = 0, !.error = FALSE]
<1>3. FmOK(g) /\ g.items = <<>> /\ g.selected = 0
  BY <1>2, Emptied
<1> HIDE DEF g
<1>4. fm' = g
  BY <1>1 DEF g
<1>5. FmOK(fm') /\ fm'.items = <<>> /\ fm'.selected = 0
  BY <1>3, <1>4
<1>6. f.selected \in Nat
  BY DEF ViewInv, SameView, Same
<1> DEFINE stage == IF adapter \in {"win32", "djgpp"} THEN "look" ELSE "open"
           keep  == IF preserve THEN SelectedName(f) ELSE None
           old   == IF preserve THEN f.selected ELSE 0
           c     == [NoCall EXCEPT !.stage = stage, !.keep = keep, !.old = old,
                                   !.preserve = preserve, !.to = to]
<1>7. call' = c
  BY Zenon DEF Reload
<1>8. old \in Nat /\ (keep = None \/ (preserve /\ to = None))
  BY <1>6
<1> HIDE DEF stage, keep, old
<1>9. CallIs(c, to, {}, keep, old, preserve)
  BY ReloadCall, Zenon
<1> HIDE DEF c
<1>10. CallOK'
  BY <1>5, <1>7, <1>8, <1>9, FS_EmptySet DEF CallOK, CallIs
<1>11. ViewInv'
  BY <1>5, <1>10 DEF ViewInv, InView
<1>12. Kept
  BY <1>5 DEF Kept
<1> QED  BY <1>11, <1>12 DEF StepOK

\* So it is after a new name, a new file and a new folder.
LEMMA DoneStep ==
  ASSUME ViewInv, NEW to, Done(to), IsFiniteSet(entries')
  PROVE  StepOK
BY SameViews, ReloadStep DEF Done

\* The next call of a rename or a creation.
LEMMA GotoStep ==
  ASSUME ViewInv, NEW stage, stage \notin {"look", "open", "entries"},
         NEW name, NEW to, NEW made, Goto(stage, name, to, made), IsFiniteSet(entries')
  PROVE  StepOK
<1>1. /\ fm' = fm
      /\ call' = [stage |-> stage, name |-> name, to |-> to, names |-> {}, keep |-> None,
                  old |-> 0, preserve |-> FALSE, made |-> made]
  BY DEF Goto, NoCall
<1>2. CallOK'
  BY <1>1, FS_EmptySet DEF CallOK
<1> QED  BY <1>1, <1>2, SameViews, SameViewStep

\* What it does to the folders leaves finitely many entries.
LEMMA MoveOverStep ==
  ASSUME ViewInv, NEW name, NEW to, MoveOver(name, to)
  PROVE  StepOK
<1>1. IsFiniteSet((entries \ (Entry(name) \cup Entry(to))) \cup {NewEntry(to, Target(name))})
  BY FS_Subset, FS_AddElement DEF ViewInv
<1> QED  BY <1>1, DoneStep DEF MoveOver

\* The calls of a listing.
LEMMA ListStep ==
  ASSUME ViewInv, LookAtFolder \/ ReadNames \/ ShowEntries \/ ListFails
  PROVE  StepOK
<1>1. CASE LookAtFolder
  <2>1. /\ UNCHANGED <<fm, entries>> /\ call.stage = "look"
        /\ call' = [call EXCEPT !.stage = "open"]
    BY <1>1 DEF LookAtFolder, files
  <2>2. CallOK'
    BY <2>1 DEF ViewInv, CallOK
  <2> QED  BY <2>1, <2>2, SameViews, SameViewStep DEF ViewInv
<1>2. CASE ReadNames
  <2> DEFINE inside == {e \in entries : e.in = Cwd}
             named  == [e \in inside |-> e.name]
  <2>1. /\ UNCHANGED <<fm, entries>> /\ call.stage = "open"
        /\ call' = [call EXCEPT !.stage = "entries", !.names = NamesOf(Cwd)]
    BY <1>2 DEF ReadNames, files
  <2>2. IsFiniteSet(inside)
    BY FS_Subset DEF ViewInv
  <2>3. named \in Surjection(inside, NamesOf(Cwd))
    BY DEF Surjection, NamesOf
  <2>4. IsFiniteSet(NamesOf(Cwd))
    BY <2>2, <2>3, FS_Surjection
  <2>5. CallOK'
    BY <2>1, <2>4 DEF ViewInv, CallOK
  <2> QED  BY <2>1, <2>5, SameViews, SameViewStep DEF ViewInv
<1>3. CASE ShowEntries
  BY <1>3, ShowStep
<1>4. CASE ListFails
  BY <1>4, FailStep DEF ListFails, files, ViewInv
<1> QED  BY <1>1, <1>2, <1>3, <1>4

\* The calls of a rename, and what undoes the first half of one.
LEMMA RenameStep ==
  ASSUME ViewInv,
         RenameAtOnce \/ PortableRename \/ DosRename \/ Undo \/ UndoFails
  PROVE  StepOK
<1>1. CASE RenameAtOnce \/ Move
  BY <1>1, MoveOverStep DEF RenameAtOnce, Move
<1>2. ASSUME NEW next \in {"link", "destination"}, LookAtSource(next) PROVE StepOK
  BY <1>2, GotoStep DEF LookAtSource, files, ViewInv
<1>3. CASE LookAtDestination
  BY <1>3, GotoStep DEF LookAtDestination, files, ViewInv
<1>4. CASE Link
  <2>1. IsFiniteSet(entries')
    BY <1>4, FS_AddElement DEF Link, ViewInv
  <2> QED  BY <1>4, <2>1, GotoStep DEF Link
<1>5. ASSUME NEW name, RemoveFile(name) PROVE IsFiniteSet(entries')
  BY <1>5, FS_Subset DEF RemoveFile, ViewInv
<1>6. CASE Unlink
  BY <1>5, <1>6, DoneStep DEF Unlink
<1>7. CASE UnlinkFails
  BY <1>7, GotoStep DEF UnlinkFails, files, ViewInv
<1>8. CASE Undo
  BY <1>5, <1>8, FailStep DEF Undo
<1>9. CASE UndoFails \/ RenameFails
  BY <1>9, FailStep DEF UndoFails, RenameFails, files, ViewInv
<1> QED  BY <1>1, <1>2, <1>3, <1>4, <1>6, <1>7, <1>8, <1>9 DEF PortableRename, DosRename

\* Keys that make something.
LEMMA MakeStep ==
  ASSUME ViewInv, MakeFolder \/ MakeFile
  PROVE  StepOK
<1>1. PICK kind \in {"folder", "file"} : Make(kind)
  BY DEF MakeFolder, MakeFile
<1>2. IsFiniteSet(entries')
  BY <1>1, FS_AddElement DEF Make, ViewInv
<1> QED  BY <1>2, DoneStep, GotoStep DEF MakeFolder, MakeFile

\* Keys that call nothing, and those that list the folder again.
LEMMA KeyStep ==
  ASSUME ViewInv,
         \/ Cancel \/ KeyFails \/ MoveSelection
         \/ \E mode : StartPrompt(mode)
         \/ \E text : Type(text)
         \/ GoUp \/ Refresh \/ ToggleHidden \/ EnterFolder
  PROVE  StepOK
<1>1. /\ IsFiniteSet(entries) /\ CallOK /\ FmOK(fm) /\ fm.selected \in Nat /\ InView(fm)
  BY DEF ViewInv
<1>2. ASSUME UNCHANGED <<call, entries>>, SameView(fm') PROVE StepOK
  <2> call' = call /\ fm'.items = fm.items
    BY <1>2 DEF SameView, Same
  <2>1. CallOK'
    BY <1>1 DEF CallOK
  <2> QED  BY <1>1, <1>2, <2>1, SameViewStep
<1>3. CASE Cancel
  BY <1>2, <1>3, SameViews DEF Cancel, files
<1>4. CASE KeyFails
  BY <1>1, <1>4, FailStep DEF KeyFails, files
<1>5. CASE MoveSelection
  <2> DEFINE last == IF fm.items = <<>> THEN 0 ELSE Len(fm.items) - 1
  <2>1. /\ UNCHANGED <<call, entries>> /\ call.stage = "idle"
        /\ \E to \in {0, last} \cup {fm.selected + d : d \in {1, Page, -1, -Page}} :
             fm' = ClampView([fm EXCEPT !.selected =
                                IF to < 0 THEN 0 ELSE IF to > last THEN last ELSE to])
    BY <1>5 DEF MoveSelection, Browsing, Idle, files
  <2>2. last \in Nat
    BY <1>1, ListRight DEF FmOK
  <2>3. PICK to \in {0, last} \cup {fm.selected + d : d \in {1, Page, -1, -Page}} :
          fm' = ClampView([fm EXCEPT !.selected =
                             IF to < 0 THEN 0 ELSE IF to > last THEN last ELSE to])
    BY <2>1
  <2>4. to \in Int
    BY <1>1, <2>2, FileManagerAssumption
  <2> DEFINE new == IF to < 0 THEN 0 ELSE IF to > last THEN last ELSE to
             f   == [fm EXCEPT !.selected = new]
  <2>5. new \in Nat
    BY <2>2, <2>4
  <2> HIDE DEF new, last
  <2>6. FmOK(f) /\ f.items = fm.items /\ f.selected = new
    BY <1>1, <2>5, SelectRight
  <2> HIDE DEF f
  <2>7. /\ FmOK(fm') /\ InView(fm') /\ fm'.selected \in Nat /\ fm'.items = fm.items
    BY <2>3, <2>5, <2>6, ClampRight DEF f, new
  <2>8. CallOK'
    BY <1>1, <2>1, <2>7 DEF CallOK
  <2>9. ViewInv'
    BY <1>1, <2>1, <2>7, <2>8 DEF ViewInv
  <2>10. Kept
    BY <2>1, <2>7 DEF Kept, InView
  <2> QED  BY <2>9, <2>10 DEF StepOK
<1>6. ASSUME NEW mode, StartPrompt(mode) PROVE StepOK
  <2>1. UNCHANGED <<call, entries>>
    BY <1>6 DEF StartPrompt, files
  <2>2. CASE fm' = [fm EXCEPT !.error = TRUE]
    BY <1>2, <2>1, <2>2, SameViews, Zenon
  <2>3. ASSUME NEW text, fm' = [fm EXCEPT !.prompt = mode, !.input = text, !.error = FALSE]
        PROVE  StepOK
    <3>1. SameView(fm')
      BY <2>3, SameViews, Zenon
    <3> QED  BY <1>2, <2>1, <3>1
  <2> QED  BY <1>6, <2>2, <2>3 DEF StartPrompt
<1>7. ASSUME NEW text, Type(text) PROVE StepOK
  BY <1>2, <1>7, SameViews DEF Type, files
<1>8. CASE GoUp
  BY <1>1, <1>8, SameViews, ReloadStep DEF GoUp, files
<1>9. CASE Refresh \/ ToggleHidden
  BY <1>1, <1>9, SameViews, ReloadStep DEF Refresh, ToggleHidden, files
<1>10. CASE EnterFolder
  BY <1>1, <1>10, SameViews, ReloadStep DEF EnterFolder, files
<1> QED  BY <1>3, <1>4, <1>5, <1>6, <1>7, <1>8, <1>9, <1>10

\* Other programs see neither the list nor the call.
LEMMA OthersStep ==
  ASSUME ViewInv, OtherMakes \/ OtherRemoves \/ OtherRenames
  PROVE  StepOK
<1>1. UNCHANGED <<fm, call>>
  BY DEF OtherMakes, OtherRemoves, OtherRenames, Other
<1>2. IsFiniteSet(entries')
  <2>1. CASE OtherMakes
    BY <2>1, FS_AddElement DEF OtherMakes, ViewInv
  <2>2. CASE OtherRemoves
    BY <2>2, FS_Subset DEF OtherRemoves, ViewInv
  <2>3. CASE OtherRenames
    <3>1. PICK e, over, renamed : entries' = (entries \ (over \cup {e})) \cup {renamed}
      BY <2>3 DEF OtherRenames
    <3>2. IsFiniteSet(entries \ (over \cup {e}))
      BY FS_Subset DEF ViewInv
    <3> QED  BY <3>1, <3>2, FS_AddElement
  <2> QED  BY <2>1, <2>2, <2>3
<1>3. CallOK'
  BY <1>1 DEF ViewInv, CallOK
<1> QED  BY <1>1, <1>2, <1>3, SameViews, SameViewStep

\* Every step keeps the view, and the selection.
LEMMA NextStep ==
  ASSUME ViewInv, [Next]_vars
  PROVE  StepOK
<1>1. CASE PosixList \/ WinList \/ DosList
  BY <1>1, ListStep DEF PosixList, WinList, DosList
<1>2. CASE NativeRename \/ WinRename \/ PortableRename \/ DosRename \/ Undo \/ UndoFails
  BY <1>2, RenameStep DEF NativeRename, WinRename
<1>3. CASE MakeFolder \/ MakeFile
  BY <1>3, MakeStep
<1>4. CASE OtherMakes \/ OtherRemoves \/ OtherRenames
  BY <1>4, OthersStep
<1>5. CASE UNCHANGED vars
  <2>1. CallOK' /\ UNCHANGED <<fm, entries>>
    BY <1>5 DEF vars, files, ViewInv, CallOK
  <2> QED  BY <2>1, SameViews, SameViewStep DEF ViewInv
<1> QED  BY <1>1, <1>2, <1>3, <1>4, <1>5, KeyStep DEF Next

\* The folder that the program starts in is listed.
LEMMA StartRight ==
  ASSUME Init
  PROVE  ViewInv
<1>1. PICK items \in Firsts :
        entries = {[in |-> 1, name |-> items[i].name, what |-> i + 1] : i \in DOMAIN items}
  BY DEF Init
<1>2. IsFiniteSet(entries)
  <2> DEFINE made == [i \in DOMAIN items |-> [in |-> 1, name |-> items[i].name, what |-> i + 1]]
  <2>1. items \in Seq([name : FileNames, kind : {"file", "folder"}])
    BY FileManagerAssumption
  <2>2. IsFiniteSet(DOMAIN items)
    BY <2>1, FS_Interval
  <2>3. made \in Surjection(DOMAIN items, entries)
    BY <1>1 DEF Surjection
  <2> QED  BY <2>2, <2>3, FS_Surjection
<1> DEFINE names == {n \in NamesOf(1) : FALSE \/ n \notin Hidden}
           shown == {Item(Up, "folder")} \cup {Item(n, kinds[Find(1, n)]) : n \in names}
<1>3. IsFiniteSet(shown)
  <2> DEFINE inside == {e \in entries : e.in = 1}
             named  == [e \in inside |-> e.name]
             look   == [n \in names |-> Item(n, kinds[Find(1, n)])]
             looked == {Item(n, kinds[Find(1, n)]) : n \in names}
  <2>1. IsFiniteSet(inside)
    BY <1>2, FS_Subset
  <2>2. named \in Surjection(inside, NamesOf(1))
    BY DEF Surjection, NamesOf
  <2>3. IsFiniteSet(NamesOf(1))
    BY <2>1, <2>2, FS_Surjection
  <2>4. IsFiniteSet(names)
    BY <2>3, FS_Subset
  <2>5. look \in Surjection(names, looked)
    BY DEF Surjection
  <2>6. IsFiniteSet(looked)
    BY <2>4, <2>5, FS_Surjection
  <2> QED  BY <2>6, FS_AddElement, FS_EmptySet, FS_Union
<1>4. Sorted(ItemsOf(1, FALSE)) = Sorted(shown)
  BY DEF ItemsOf
<1> HIDE DEF shown
<1>5. IsList(Sorted(ItemsOf(1, FALSE)))
  BY <1>3, <1>4, SortedRight
<1>6. PICK cwd : fm = [cwd |-> cwd, items |-> Sorted(ItemsOf(1, FALSE)), selected |-> 0, scroll |-> 0,
                       hidden |-> FALSE, error |-> FALSE, prompt |-> "none", input |-> None]
  BY DEF Init
<1>7. FmOK(fm) /\ fm.selected = 0 /\ fm.scroll = 0
  <2>1. fm = State(cwd, Sorted(ItemsOf(1, FALSE)), 0, 0, FALSE, FALSE, "none", None)
    BY <1>6 DEF State
  <2>2. PICK c, i, s, r, h, e, p, t :
          fm = State(c, i, s, r, h, e, p, t) /\ IsList(i) /\ s = 0 /\ r = 0
    BY <1>5, <2>1, Zenon
  <2> QED  BY <2>2, StateRight
<1>8. InView(fm)
  <2>1. Len(fm.items) \in Nat /\ (fm.items # <<>> => Len(fm.items) # 0)
    BY <1>7, ListRight DEF FmOK
  <2>2. Rows \in Nat \ {0}
    BY FileManagerAssumption
  <2> QED  BY <1>7, <2>1, <2>2 DEF InView
<1>9. CallOK
  BY NoCallRight, FS_EmptySet DEF CallOK, Init
<1> QED  BY <1>2, <1>7, <1>8, <1>9 DEF ViewInv

(***************************************************************************)
(* The invariant of the list: the selected row exists and is drawn, there  *)
(* is no list while it is being read, and a listing selects either a new   *)
(* name or, when the list is only refreshed, what was selected.            *)
(***************************************************************************)
THEOREM ViewInductive == Spec => []ViewInv
<1>1. Init => ViewInv
  BY StartRight
<1>2. ViewInv /\ [Next]_vars => ViewInv'
  BY NextStep DEF StepOK
<1> QED  BY <1>1, <1>2, PTL DEF Spec

(***************************************************************************)
(* The selection is always a row of the list and on the screen, and after  *)
(* a listing it is the entry that was made, renamed or selected before,    *)
(* wherever others put it in the list: fm_clamp_view, fm_reload and        *)
(* fm_select_name, for lists of any length and any number of rows.         *)
(***************************************************************************)
THEOREM SelectionRight == Spec => SelectionKept
<1>1. ViewInv /\ [Next]_vars => [Kept]_fm
  BY NextStep DEF StepOK
<1> QED  BY <1>1, ViewInductive, PTL DEF Spec, SelectionKept, Kept

-----------------------------------------------------------------------------
(***************************************************************************)
(* The path of the folder, the names a call is given, and kinds.           *)
(***************************************************************************)
Reading == {"look", "open", "entries"}
Moving   == {"link", "destination", "move", "unlink"}

KindsOK == kinds \in Seq({"file", "folder"}) /\ Len(kinds) >= 1

PromptOK ==
  /\ Proper(adapter, fm.cwd)
  /\ fm.input \in FileNames \cup {None}
  /\ fm.prompt = "rename" => SelectedName(fm) \in FileNames
  /\ call.stage \in Reading => fm.prompt = "none"

\* A call has the names it is about: two, or the one of a new file.
NamedOK ==
  /\ call.stage \in Moving => call.name \in FileNames
  /\ call.stage \in Moving \cup {"undo"} => call.to \in FileNames /\ call.to # call.name
  /\ call.stage = "undo" => call.made \in Nat /\ (call.made = 0 => call.name \in FileNames)

NamesInv == KindsOK /\ PromptOK /\ NamedOK

\* A file or folder more.
LEMMA KindsRight ==
  ASSUME KindsOK, NEW kind \in {"file", "folder"}, kinds' = Append(kinds, kind)
  PROVE  /\ KindsOK' /\ Len(kinds') = Len(kinds) + 1 /\ kinds'[Len(kinds')] = kind
         /\ \A o \in 1..Len(kinds) : kinds'[o] = kinds[o]
BY AppendProperties DEF KindsOK

\* Nothing but the kinds changes.
LEMMA NamesSame ==
  ASSUME NamesInv, UNCHANGED <<adapter, fm, call>>, KindsOK'
  PROVE  NamesInv'
BY DEF NamesInv, PromptOK, NamedOK, SelectedName

\* A listing begins, without a prompt.
LEMMA NamesReload ==
  ASSUME KindsOK', NEW f, FmOK(f), NEW preserve, NEW to, Reload(f, preserve, to),
         Proper(adapter, f.cwd), f.input \in FileNames \cup {None}, f.prompt = "none"
  PROVE  NamesInv'
<1>1. /\ fm' = [f EXCEPT !.items = <<>>, !.selected = 0, !.scroll = 0, !.error = FALSE]
      /\ UNCHANGED adapter
      /\ call'.stage \in {"look", "open"}
  BY DEF Reload, NoCall
<1>2. fm'.cwd = f.cwd /\ fm'.input = f.input /\ fm'.prompt = "none"
  BY <1>1 DEF FmOK
<1>3. PromptOK' /\ NamedOK'
  BY <1>1, <1>2 DEF PromptOK, NamedOK, Reading, Moving
<1> QED  BY <1>3 DEF NamesInv

\* A call fails, or the last one is done.
LEMMA NamesStop ==
  ASSUME ViewInv, NamesInv, KindsOK', Fail
  PROVE  NamesInv'
<1>1. /\ fm' = [fm EXCEPT !.error = TRUE] /\ call' = NoCall /\ UNCHANGED adapter
  BY DEF Fail, Stop
<1>2. /\ fm'.cwd = fm.cwd /\ fm'.input = fm.input /\ fm'.prompt = fm.prompt
      /\ fm'.items = fm.items /\ fm'.selected = fm.selected
  BY <1>1 DEF ViewInv, FmOK
<1>3. PromptOK' /\ NamedOK'
  BY <1>1, <1>2 DEF NamesInv, PromptOK, NamedOK, Reading, Moving, NoCall, SelectedName
<1> QED  BY <1>3 DEF NamesInv

\* The next call of a rename.
LEMMA NamesGoto ==
  ASSUME NamesInv, KindsOK', NEW stage \in Moving \cup {"undo"}, NEW name, NEW to, NEW made,
         Goto(stage, name, to, made),
         stage \in Moving => name \in FileNames,
         to \in FileNames, to # name,
         stage = "undo" => made \in Nat /\ (made = 0 => name \in FileNames)
  PROVE  NamesInv'
<1>1. /\ UNCHANGED <<adapter, fm>>
      /\ call'.stage = stage /\ call'.name = name /\ call'.to = to /\ call'.made = made
  BY DEF Goto, NoCall
<1>2. PromptOK' /\ NamedOK'
  BY <1>1 DEF NamesInv, PromptOK, NamedOK, Reading, Moving, SelectedName
<1> QED  BY <1>2 DEF NamesInv

\* So it is when the call of a key ends.
LEMMA NamesDone ==
  ASSUME ViewInv, NamesInv, KindsOK', NEW to, Done(to)
  PROVE  NamesInv'
<1>1. SameView(Closed)
  BY SameViews
<1>2. Closed.cwd = fm.cwd /\ Closed.input = None /\ Closed.prompt = "none"
  BY DEF ViewInv, FmOK, Closed
<1> QED  BY <1>1, <1>2, NamesReload DEF Done, SameView, Same, NamesInv, PromptOK

\* What the prompt renames has a name, and a new one.
LEMMA RenameNames ==
  ASSUME NamesInv, Commits("rename")
  PROVE  SelectedName(fm) \in FileNames /\ fm.input \in FileNames /\ fm.input # SelectedName(fm)
BY DEF NamesInv, PromptOK, Commits, SameName

\* What a clamp and a selection leave alone.
Fields(f) == {"cwd", "items", "selected", "scroll", "hidden", "error", "prompt", "input"} = DOMAIN f

SameRest(f, g) ==
  /\ Fields(g) /\ g.cwd = f.cwd /\ g.items = f.items /\ g.hidden = f.hidden
  /\ g.error = f.error /\ g.prompt = f.prompt /\ g.input = f.input

\* Another selection leaves the rest alone,
LEMMA SelectRest ==
  ASSUME NEW f, Fields(f), NEW selected, NEW scroll
  PROVE  /\ SameRest(f, [f EXCEPT !.selected = selected])
         /\ SameRest(f, [f EXCEPT !.selected = selected, !.scroll = scroll])
BY DEF Fields, SameRest

\* a clamp does,
LEMMA ClampRest ==
  ASSUME NEW f, Fields(f)
  PROVE  SameRest(f, ClampView(f))
<1>1. CASE Len(f.items) = 0
  BY <1>1, SelectRest DEF ClampView
<1>2. CASE Len(f.items) # 0
  <2> DEFINE count    == Len(f.items)
             selected == IF f.selected >= count THEN count - 1 ELSE f.selected
             scroll   == IF selected < f.scroll THEN selected
                         ELSE IF selected >= f.scroll + Rows THEN selected - Rows + 1 ELSE f.scroll
             most     == IF count > Rows THEN count - Rows ELSE 0
             upto     == IF scroll > most THEN most ELSE scroll
  <2>1. ClampView(f) = [f EXCEPT !.selected = selected, !.scroll = upto]
    BY <1>2 DEF ClampView
  <2> HIDE DEF selected, upto
  <2> DEFINE g == [f EXCEPT !.selected = selected, !.scroll = upto]
  <2>2. SameRest(f, g)
    BY SelectRest
  <2> HIDE DEF g
  <2> QED  BY <2>1, <2>2 DEF g
<1> QED  BY <1>1, <1>2

\* and so does the selection of a name.
LEMMA SelectNameRest ==
  ASSUME NEW f, Fields(f), NEW name
  PROVE  SameRest(f, SelectName(f, name))
<1>1. CASE Places(f, name) = {}
  BY <1>1, ClampRest DEF SelectName
<1>2. CASE Places(f, name) # {}
  <2> DEFINE g == [f EXCEPT !.selected = Min(Places(f, name))]
  <2>1. SameRest(f, g)
    BY SelectRest
  <2>2. SelectName(f, name) = ClampView(g)
    BY <1>2 DEF SelectName
  <2> HIDE DEF g
  <2>3. SameRest(g, ClampView(g))
    BY <2>1, ClampRest DEF SameRest
  <2> QED  BY <2>1, <2>2, <2>3 DEF SameRest
<1> QED  BY <1>1, <1>2

\* A listing ends with what is to be shown, sorted.
LEMMA ShownRight ==
  ASSUME ViewInv, ShowEntries
  PROVE  /\ fm'.items = Sorted(Shown(Looked \cup {Item(Up, "folder")}, fm.hidden))
         /\ fm'.cwd = fm.cwd /\ fm'.hidden = fm.hidden /\ fm'.error = fm.error
         /\ fm'.prompt = fm.prompt /\ fm'.input = fm.input
         /\ call.stage = "entries" /\ call' = NoCall
         /\ UNCHANGED <<adapter, files, current, missed>>
<1> DEFINE items == Sorted(Shown(Looked \cup {Item(Up, "folder")}, fm.hidden))
           f     == [fm EXCEPT !.items = items]
           kept  == IF Places(f, call.keep) # {} THEN Min(Places(f, call.keep))
                    ELSE IF call.old < Len(f.items) THEN call.old ELSE Len(f.items) - 1
           f1    == IF call.preserve THEN [f EXCEPT !.selected = kept] ELSE f
           g     == ClampView(f1)
<1>1. /\ call.stage = "entries" /\ call' = NoCall /\ UNCHANGED <<adapter, files, current, missed>>
      /\ fm' = IF call.to = None THEN g ELSE SelectName(g, call.to)
  BY DEF ShowEntries, Stop
<1> HIDE DEF items, kept
<1>2. Fields(fm)
  BY DEF ViewInv, FmOK, Fields
<1>3. Fields(f) /\ f.items = items /\ f.cwd = fm.cwd /\ f.hidden = fm.hidden
      /\ f.error = fm.error /\ f.prompt = fm.prompt /\ f.input = fm.input
  BY <1>2 DEF Fields
<1> HIDE DEF f
<1>4. SameRest(f, f1)
  BY <1>3, SelectRest DEF SameRest
<1> HIDE DEF f1
<1>5. SameRest(f1, g)
  BY <1>4, ClampRest DEF SameRest
<1> HIDE DEF g
<1>6. SameRest(g, fm')
  BY <1>1, <1>5, SelectNameRest DEF SameRest
<1>7. fm'.items = items
  BY <1>3, <1>4, <1>5, <1>6 DEF SameRest
<1> QED  BY <1>1, <1>3, <1>4, <1>5, <1>6, <1>7 DEF SameRest, items

\* Every step keeps the names.
LEMMA NamesStep ==
  ASSUME ViewInv, ViewInv', NamesInv, [Next]_vars
  PROVE  NamesInv'
<1>0. KindsOK
  BY DEF NamesInv
<1>1. CASE PosixList \/ WinList \/ DosList
  <2>1. CASE LookAtFolder
    <3>1. UNCHANGED <<adapter, kinds, fm>> /\ call'.stage = "open" /\ call.stage = "look"
      BY <2>1 DEF LookAtFolder, files, ViewInv, CallOK
    <3> QED  BY <1>0, <3>1 DEF NamesInv, KindsOK, PromptOK, NamedOK, Reading, Moving, SelectedName
  <2>2. CASE ReadNames
    <3>1. UNCHANGED <<adapter, kinds, fm>> /\ call'.stage = "entries" /\ call.stage = "open"
      BY <2>2 DEF ReadNames, files, ViewInv, CallOK
    <3> QED  BY <1>0, <3>1 DEF NamesInv, KindsOK, PromptOK, NamedOK, Reading, Moving, SelectedName
  <2>3. CASE ShowEntries
    <3>1. /\ fm'.cwd = fm.cwd /\ fm'.prompt = fm.prompt /\ fm'.input = fm.input
          /\ call.stage = "entries" /\ call'.stage = "idle" /\ UNCHANGED <<adapter, kinds>>
      BY <2>3, ShownRight DEF files, NoCall
    <3> QED  BY <1>0, <3>1 DEF NamesInv, KindsOK, PromptOK, NamedOK, Reading, Moving
  <2>4. CASE ListFails
    BY <1>0, <2>4, NamesStop DEF ListFails, files, KindsOK
  <2> QED  BY <1>1, <2>1, <2>2, <2>3, <2>4 DEF PosixList, WinList, DosList
<1>2. CASE NativeRename \/ WinRename \/ PortableRename \/ DosRename \/ Undo \/ UndoFails
  <2>1. ASSUME NEW name, NEW to, MoveOver(name, to) PROVE NamesInv'
    BY <1>0, <2>1, NamesDone DEF MoveOver, KindsOK
  <2>2. ASSUME NEW next \in {"link", "destination"}, LookAtSource(next) PROVE NamesInv'
    BY <1>0, <2>2, RenameNames, NamesGoto DEF LookAtSource, files, KindsOK, Moving
  <2>3. CASE LookAtDestination
    BY <1>0, <2>3, NamesGoto DEF LookAtDestination, files, KindsOK, Moving, NamesInv, NamedOK
  <2>4. CASE Link
    BY <1>0, <2>4, NamesGoto DEF Link, KindsOK, Moving, NamesInv, NamedOK
  <2>5. CASE Unlink
    BY <1>0, <2>5, NamesDone DEF Unlink, RemoveFile, KindsOK
  <2>6. CASE UnlinkFails
    BY <1>0, <2>6, NamesGoto DEF UnlinkFails, files, KindsOK, Moving, NamesInv, NamedOK
  <2>7. CASE Undo
    BY <1>0, <2>7, NamesStop DEF Undo, RemoveFile, KindsOK
  <2>8. CASE UndoFails \/ RenameFails
    BY <1>0, <2>8, NamesStop DEF UndoFails, RenameFails, files, KindsOK
  <2> QED  BY <1>2, <2>1, <2>2, <2>3, <2>4, <2>5, <2>6, <2>7, <2>8
           DEF NativeRename, WinRename, RenameAtOnce, PortableRename, DosRename, Move
<1>3. CASE MakeFolder \/ MakeFile
  <2>1. PICK kind \in {"folder", "file"} : Make(kind)
    BY <1>3 DEF MakeFolder, MakeFile
  <2>2. KindsOK' /\ Len(kinds') \in Nat \ {0}
    BY <1>0, <2>1, KindsRight DEF Make, KindsOK
  <2>3. fm.input \in FileNames /\ None \notin FileNames
    BY <1>3, FileManagerAssumption DEF MakeFolder, MakeFile, Commits, NamesInv, PromptOK
  <2>4. Done(fm.input) \/ Goto("undo", None, fm.input, Len(kinds'))
    BY <1>3 DEF MakeFolder, MakeFile
  <2> QED  BY <2>2, <2>3, <2>4, NamesDone, NamesGoto DEF Moving
<1>4. CASE OtherMakes \/ OtherRemoves \/ OtherRenames
  <2>1. UNCHANGED <<adapter, fm, call>>
    BY <1>4 DEF OtherMakes, OtherRemoves, OtherRenames, Other
  <2>2. KindsOK'
    BY <1>0, <1>4, KindsRight DEF OtherMakes, OtherRemoves, OtherRenames, KindsOK
  <2> QED  BY <2>1, <2>2, NamesSame
<1>5. CASE UNCHANGED vars
  BY <1>0, <1>5, NamesSame DEF vars, files, KindsOK
<1>6. CASE Cancel \/ MoveSelection \/ (\E text \in FileNames \cup {None} : Type(text))
            \/ (\E mode \in {"rename", "folder", "file"} : StartPrompt(mode))
  <2>1. /\ UNCHANGED <<adapter, kinds, call>> /\ call.stage = "idle"
    BY <1>6 DEF Cancel, MoveSelection, Type, StartPrompt, Browsing, Idle, files
  <2>2. /\ fm'.cwd = fm.cwd /\ fm'.input \in FileNames \cup {None}
        /\ fm'.prompt = "rename" => SelectedName(fm') \in FileNames
    <3>1. FmOK(fm) /\ Fields(fm) /\ PromptOK
      BY DEF ViewInv, FmOK, Fields, NamesInv
    <3>2. CASE Cancel
      <4>1. /\ fm' = [Closed EXCEPT !.error = FALSE]
            /\ Closed = [fm EXCEPT !.prompt = "none", !.input = None]
        BY <3>2 DEF Cancel, Closed
      <4>2. fm'.cwd = fm.cwd /\ fm'.prompt = "none" /\ fm'.input = None
        BY <3>1, <4>1 DEF Fields
      <4> QED  BY <4>2
    <3>3. CASE MoveSelection
      <4>1. PICK to : fm' = ClampView([fm EXCEPT !.selected = to])
        BY <3>3, Zenon DEF MoveSelection
      <4> DEFINE f == [fm EXCEPT !.selected = to]
      <4>2. SameRest(fm, f)
        BY <3>1, SelectRest
      <4> HIDE DEF f
      <4>3. SameRest(f, fm')
        BY <4>1, <4>2, ClampRest DEF SameRest, f
      <4>4. fm.prompt = "none"
        BY <3>3 DEF MoveSelection, Browsing
      <4> QED  BY <3>1, <4>2, <4>3, <4>4 DEF SameRest, PromptOK
    <3>4. ASSUME NEW text \in FileNames \cup {None}, Type(text)
          PROVE  /\ fm'.cwd = fm.cwd /\ fm'.input \in FileNames \cup {None}
                 /\ fm'.prompt = "rename" => SelectedName(fm') \in FileNames
      <4>1. fm' = [fm EXCEPT !.input = text, !.error = FALSE]
        BY <3>4 DEF Type
      <4>2. /\ fm'.cwd = fm.cwd /\ fm'.prompt = fm.prompt /\ fm'.input = text
            /\ fm'.items = fm.items /\ fm'.selected = fm.selected
        BY <3>1, <4>1 DEF Fields
      <4> QED  BY <3>1, <4>2 DEF PromptOK, SelectedName
    <3>5. ASSUME NEW mode, StartPrompt(mode)
          PROVE  /\ fm'.cwd = fm.cwd /\ fm'.input \in FileNames \cup {None}
                 /\ fm'.prompt = "rename" => SelectedName(fm') \in FileNames
      <4>1. CASE mode = "rename" /\ SelectedName(fm) \notin FileNames
        <5>1. fm' = [fm EXCEPT !.error = TRUE] /\ fm.prompt = "none"
          BY <3>5, <4>1 DEF StartPrompt, Browsing
        <5>2. fm'.cwd = fm.cwd /\ fm'.prompt = fm.prompt /\ fm'.input = fm.input
          BY <3>1, <5>1 DEF Fields
        <5> QED  BY <3>1, <5>1, <5>2 DEF PromptOK
      <4>2. CASE ~(mode = "rename" /\ SelectedName(fm) \notin FileNames)
        <5>1. PICK text \in {None} \cup (IF mode = "rename" THEN {SelectedName(fm)} ELSE {}) :
                fm' = [fm EXCEPT !.prompt = mode, !.input = text, !.error = FALSE]
          BY <3>5, <4>2 DEF StartPrompt
        <5>2. /\ fm'.cwd = fm.cwd /\ fm'.prompt = mode /\ fm'.input = text
              /\ fm'.items = fm.items /\ fm'.selected = fm.selected
          BY <3>1, <5>1 DEF Fields
        <5>3. SelectedName(fm') = SelectedName(fm)
          BY <5>2 DEF SelectedName
        <5> QED  BY <4>2, <5>1, <5>2, <5>3
      <4> QED  BY <4>1, <4>2
    <3> QED  BY <1>6, <3>2, <3>3, <3>4, <3>5
  <2> QED  BY <1>0, <2>1, <2>2
           DEF NamesInv, KindsOK, PromptOK, NamedOK, Reading, Moving
<1>7. CASE KeyFails
  BY <1>0, <1>7, NamesStop DEF KeyFails, files, KindsOK
<1>8. CASE GoUp \/ Refresh \/ ToggleHidden \/ EnterFolder
  <2>1. UNCHANGED kinds /\ fm.prompt = "none" /\ FmOK(fm) /\ Proper(adapter, fm.cwd)
        /\ fm.input \in FileNames \cup {None}
    BY <1>8 DEF GoUp, Refresh, ToggleHidden, EnterFolder, Browsing, files, NamesInv, PromptOK,
                ViewInv
  <2>2. ASSUME NEW cwd, Proper(adapter, cwd), Reload([fm EXCEPT !.cwd = cwd], FALSE, None)
        PROVE  NamesInv'
    <3> DEFINE f == [fm EXCEPT !.cwd = cwd]
    <3>1. f.cwd = cwd /\ f.input = fm.input /\ f.prompt = fm.prompt
      BY <2>1 DEF FmOK
    <3>2. FmOK(f)
      BY SameViews DEF SameView, Same
    <3> HIDE DEF f
    <3>3. KindsOK'
      BY <1>0, <2>1 DEF KindsOK
    <3>4. Reload(f, FALSE, None)
      BY <2>2 DEF f
    <3> QED  BY <2>1, <2>2, <3>1, <3>2, <3>3, <3>4, NamesReload
  <2>3. CASE GoUp
    BY <2>1, <2>2, <2>3, ProperPaths DEF GoUp
  <2>4. CASE EnterFolder
    BY <2>1, <2>2, <2>4, ProperPaths DEF EnterFolder
  <2>5. CASE Refresh
    BY <1>0, <2>1, <2>5, NamesReload DEF Refresh, KindsOK
  <2>6. CASE ToggleHidden
    <3> DEFINE f == [fm EXCEPT !.hidden = ~@]
    <3>1. f.cwd = fm.cwd /\ f.input = fm.input /\ f.prompt = fm.prompt
      BY <2>1 DEF FmOK
    <3>2. FmOK(f) /\ Reload(f, TRUE, None)
      BY <2>6, SameViews DEF SameView, Same, ToggleHidden
    <3> HIDE DEF f
    <3> QED  BY <1>0, <2>1, <3>1, <3>2, NamesReload DEF KindsOK
  <2> QED  BY <1>8, <2>3, <2>4, <2>5, <2>6
<1> QED  BY <1>1, <1>2, <1>3, <1>4, <1>5, <1>6, <1>7, <1>8 DEF Next

-----------------------------------------------------------------------------
(***************************************************************************)
(* Folders: an entry is of a folder and of something that exists, and no   *)
(* two entries of a folder have a name.                                    *)
(***************************************************************************)
Entries(n) == [in : 1..n, name : FileNames, what : 1..n]

TreeInv ==
  /\ entries \subseteq Entries(Len(kinds))
  /\ \A e, d \in entries : e.in = d.in /\ e.name = d.name => e = d

\* What a name refers to is what its entry says.
Finds(folder, name) ==
  /\ \A e \in entries : e.in = folder /\ e.name = name => Find(folder, name) = e.what
  /\ \/ Find(folder, name) = 0 /\ \A e \in entries : ~(e.in = folder /\ e.name = name)
     \/ \E e \in entries : e.in = folder /\ e.name = name /\ e.what = Find(folder, name)

FindsRight == TreeInv => \A folder, name : Finds(folder, name)

\* So Find finds the entry of a name, if there is one.
LEMMA FindRight == FindsRight
<1> SUFFICES ASSUME TreeInv, NEW folder, NEW name
             PROVE  Finds(folder, name)
  BY DEF FindsRight
<1> DEFINE found == {e \in entries : e.in = folder /\ e.name = name}
<1>1. CASE found = {}
  BY <1>1 DEF Find, Finds
<1>2. CASE found # {}
  <2>1. PICK e \in found : e = CHOOSE d \in found : TRUE
    BY <1>2
  <2>2. Find(folder, name) = e.what /\ e \in entries /\ e.in = folder /\ e.name = name
    BY <1>2, <2>1 DEF Find
  <2>3. \A d \in entries : d.in = folder /\ d.name = name => d = e
    BY <2>2 DEF TreeInv
  <2> QED  BY <2>2, <2>3 DEF Finds
<1> QED  BY <1>1, <1>2

\* It exists.
LEMMA FindTyped ==
  ASSUME TreeInv, NamesInv, NEW folder, NEW name
  PROVE  /\ Find(folder, name) \in 0..Len(kinds) /\ Inside(folder, name) \in 0..Len(kinds)
         /\ Len(kinds) \in Nat \ {0}
<1>1. Len(kinds) \in Nat \ {0}
  BY DEF NamesInv, KindsOK
<1>2. Find(folder, name) \in 0..Len(kinds)
  <2>1. CASE Find(folder, name) = 0
    BY <1>1, <2>1
  <2>2. CASE Find(folder, name) # 0
    <3>1. PICK e \in entries : e.what = Find(folder, name)
      BY <2>2, FindRight DEF FindsRight, Finds
    <3>2. e.what \in 1..Len(kinds)
      BY DEF TreeInv, Entries
    <3> QED  BY <1>1, <3>1, <3>2
  <2> QED  BY <2>1, <2>2
<1> QED  BY <1>1, <1>2 DEF Inside

\* And so does what a path refers to.
LEMMA WayTyped ==
  ASSUME TreeInv, NamesInv, NEW p, Len(p) \in Nat
  PROVE  /\ \A i \in 0..Len(p) : Way(p)[i] \in 0..Len(kinds)
         /\ At(p) \in 0..Len(kinds)
<1> DEFINE L == Len(p)
           way == Way(p)
           S == {i \in 0..L : way[i] \in 0..Len(kinds)}
<1>1. RightWay(p, way) /\ L \in Nat
  BY WayRight DEF WaysRight
<1>2. 0 \in S
  BY <1>1, FindTyped DEF RightWay
<1>3. ASSUME NEW n \in 0..L, n < L, n \in S PROVE n + 1 \in S
  <2>1. PICK m \in 1..L : m = n + 1
    BY <1>1, <1>3
  <2>2. m - 1 = n /\ m \in 0..L
    BY <1>1, <2>1
  <2>3. way[m] = IF Skipped(adapter, p, m) THEN way[m - 1] ELSE Inside(way[m - 1], p[m])
    BY <1>1 DEF RightWay
  <2>4. way[m] \in 0..Len(kinds)
    BY <1>3, <2>2, <2>3, FindTyped
  <2> QED  BY <2>1, <2>2, <2>4
<1> HIDE DEF S, L, way
<1>4. 0..L \subseteq S
  BY <1>1, <1>2, <1>3, Stepwise
<1>5. L \in 0..L
  BY <1>1
<1> QED  BY <1>4, <1>5 DEF S, L, way, At

\* What a name in the folder of the File Manager refers to.
LEMMA TargetRight ==
  ASSUME NamesInv, NEW name \in FileNames
  PROVE  Target(name) = Inside(Cwd, name)
BY JoinRight DEF JoinsRight, NamesInv, PromptOK, Target, Cwd

\* If it is something, the folder is one, and has an entry for it, and no other.
LEMMA TargetFound ==
  ASSUME NamesInv, TreeInv, NEW name \in FileNames
  PROVE  /\ Cwd \in 0..Len(kinds) /\ Target(name) \in 0..Len(kinds)
         /\ Target(name) # 0 =>
              /\ Is(Cwd, "folder") /\ Cwd \in 1..Len(kinds) /\ Target(name) = Find(Cwd, name)
              /\ Target(name) \in 1..Len(kinds)
              /\ \E e \in entries : Entry(name) = {e} /\ e.what = Target(name)
         /\ Is(Cwd, "folder") /\ Target(name) = 0 => Find(Cwd, name) = 0 /\ Entry(name) = {}
         /\ Is(Cwd, "folder") => Cwd \in 1..Len(kinds)
<1>1. Target(name) = Inside(Cwd, name)
  BY TargetRight
<1>2. Len(fm.cwd) \in Nat
  BY DEF NamesInv, PromptOK, Proper
<1>3. Cwd \in 0..Len(kinds) /\ Len(kinds) \in Nat /\ Target(name) \in 0..Len(kinds)
  BY <1>1, <1>2, WayTyped, FindTyped DEF Cwd
<1>4. Is(Cwd, "folder") => Cwd \in 1..Len(kinds)
  BY <1>3 DEF Is
<1>5. ASSUME Target(name) # 0
      PROVE  /\ Is(Cwd, "folder") /\ Target(name) = Find(Cwd, name)
             /\ \E e \in entries : Entry(name) = {e} /\ e.what = Target(name)
  <2>1. Is(Cwd, "folder") /\ Target(name) = Find(Cwd, name)
    BY <1>1, <1>5 DEF Inside
  <2>2. PICK e \in entries : e.in = Cwd /\ e.name = name /\ e.what = Find(Cwd, name)
    BY <1>5, <2>1, FindRight DEF FindsRight, Finds
  <2>3. Entry(name) = {e}
    BY <2>2 DEF Entry, TreeInv
  <2> QED  BY <2>1, <2>2, <2>3
<1>6. ASSUME Is(Cwd, "folder"), Target(name) = 0
      PROVE  Find(Cwd, name) = 0 /\ Entry(name) = {}
  <2>1. Find(Cwd, name) = 0
    BY <1>1, <1>6 DEF Inside
  <2>2. \A e \in entries : ~(e.in = Cwd /\ e.name = name)
    <3>1. ASSUME NEW e \in entries, e.in = Cwd, e.name = name PROVE FALSE
      <4>1. e.what = 0
        BY <2>1, <3>1, FindRight DEF FindsRight, Finds
      <4>2. e.what \in 1..Len(kinds)
        BY DEF TreeInv, Entries
      <4> QED  BY <1>3, <4>1, <4>2
    <3> QED  BY <3>1
  <2> QED  BY <2>1, <2>2 DEF Entry
<1> QED  BY <1>3, <1>4, <1>5, <1>6

\* An entry for a name that has none.
LEMMA TreeAdd ==
  ASSUME TreeInv, Len(kinds) \in Nat, Len(kinds') \in Nat, Len(kinds) <= Len(kinds'),
         NEW rest, rest \subseteq entries, NEW r \in Entries(Len(kinds')),
         \A e \in rest : ~(e.in = r.in /\ e.name = r.name),
         entries' = rest \cup {r}
  PROVE  TreeInv'
<1>1. Entries(Len(kinds)) \subseteq Entries(Len(kinds'))
  <2>1. 1..Len(kinds) \subseteq 1..Len(kinds')
    OBVIOUS
  <2> QED  BY <2>1 DEF Entries
<1>2. entries' \subseteq Entries(Len(kinds'))
  BY <1>1 DEF TreeInv
<1>3. ASSUME NEW e \in entries', NEW d \in entries', e.in = d.in, e.name = d.name
      PROVE  e = d
  BY <1>3 DEF TreeInv
<1> QED  BY <1>2, <1>3 DEF TreeInv

\* A rename, and the files it makes.
LEMMA TreeNew ==
  ASSUME NamesInv, TreeInv, KindsOK', Len(kinds) <= Len(kinds'),
         NEW to \in FileNames, NEW what \in 1..Len(kinds'), Is(Cwd, "folder"),
         NEW rest, rest \subseteq entries, rest \cap Entry(to) = {},
         entries' = rest \cup {NewEntry(to, what)}
  PROVE  TreeInv'
<1>1. Len(kinds) \in Nat /\ Len(kinds') \in Nat
  BY DEF NamesInv, KindsOK
<1>2. Cwd \in 1..Len(kinds')
  <2>1. Cwd \in 1..Len(kinds)
    BY TargetFound
  <2> QED  BY <1>1, <2>1
<1> DEFINE r == NewEntry(to, what)
<1>3. r \in Entries(Len(kinds')) /\ r.in = Cwd /\ r.name = to
  BY <1>2 DEF NewEntry, Entries
<1>4. \A e \in rest : ~(e.in = r.in /\ e.name = r.name)
  BY <1>3 DEF Entry
<1> HIDE DEF r
<1>5. entries' = rest \cup {r}
  BY DEF r
<1> QED  BY <1>1, <1>3, <1>4, <1>5, TreeAdd

\* A rename leaves one entry for the new name.
LEMMA MoveOverTree ==
  ASSUME NamesInv, TreeInv, NEW name \in FileNames, NEW to \in FileNames, MoveOver(name, to)
  PROVE  TreeInv'
<1>1. /\ Target(name) # 0 /\ kinds' = kinds
      /\ entries' = (entries \ (Entry(name) \cup Entry(to))) \cup {NewEntry(to, Target(name))}
  BY DEF MoveOver, Replaceable
<1>2. Is(Cwd, "folder") /\ Target(name) \in 1..Len(kinds)
  BY <1>1, TargetFound
<1>3. KindsOK' /\ Len(kinds) <= Len(kinds')
  BY <1>1 DEF NamesInv, KindsOK
<1> DEFINE rest == entries \ (Entry(name) \cup Entry(to))
<1>4. rest \subseteq entries /\ rest \cap Entry(to) = {}
  OBVIOUS
<1> HIDE DEF rest
<1>5. entries' = rest \cup {NewEntry(to, Target(name))}
  BY <1>1 DEF rest
<1>6. Target(name) \in 1..Len(kinds')
  BY <1>1, <1>2
<1> QED  BY <1>2, <1>3, <1>4, <1>5, <1>6, TreeNew

\* A new file or folder gets an entry for a name that had none.
LEMMA MakeTree ==
  ASSUME NamesInv, TreeInv, NEW kind \in {"folder", "file"}, fm.input \in FileNames, Make(kind)
  PROVE  TreeInv'
<1>1. /\ Target(fm.input) = 0 /\ Is(Cwd, "folder") /\ kinds' = Append(kinds, kind)
      /\ entries' = entries \cup {NewEntry(fm.input, Len(kinds'))}
  BY DEF Make
<1>2. KindsOK' /\ Len(kinds') = Len(kinds) + 1 /\ Len(kinds) \in Nat
  BY <1>1, KindsRight DEF NamesInv, KindsOK
<1>3. Entry(fm.input) = {}
  BY <1>1, TargetFound
<1>4. Len(kinds') \in 1..Len(kinds') /\ Len(kinds) <= Len(kinds')
  BY <1>2
<1> QED  BY <1>1, <1>2, <1>3, <1>4, TreeNew

\* And so does a second name of a file.
LEMMA LinkTree ==
  ASSUME NamesInv, TreeInv, Link
  PROVE  TreeInv'
<1>1. /\ call.stage = "link" /\ Is(Target(call.name), "file") /\ Target(call.to) = 0
      /\ entries' = entries \cup {NewEntry(call.to, Target(call.name))} /\ kinds' = kinds
  BY DEF Link
<1>2. call.name \in FileNames /\ call.to \in FileNames
  BY <1>1 DEF NamesInv, NamedOK, Moving
<1>3. Is(Cwd, "folder") /\ Target(call.name) \in 1..Len(kinds') /\ Entry(call.to) = {}
  BY <1>1, <1>2, TargetFound DEF Is
<1>4. KindsOK' /\ Len(kinds) <= Len(kinds')
  BY <1>1 DEF NamesInv, KindsOK
<1> QED  BY <1>1, <1>2, <1>3, <1>4, TreeNew

\* Other programs keep the folders in order too.
LEMMA OtherTree ==
  ASSUME NamesInv, TreeInv, OtherMakes \/ OtherRemoves \/ OtherRenames
  PROVE  TreeInv'
<1>0. Len(kinds) \in Nat
  BY DEF NamesInv, KindsOK
<1>1. CASE OtherMakes
  <2>1. PICK folder \in {o \in DOMAIN kinds : kinds[o] = "folder"}, name \in FileNames,
              kind \in {"file", "folder"} :
          /\ Find(folder, name) = 0 /\ kinds' = Append(kinds, kind)
          /\ entries' = entries \cup {[in |-> folder, name |-> name, what |-> Len(kinds')]}
    BY <1>1 DEF OtherMakes
  <2>2. Len(kinds') = Len(kinds) + 1 /\ folder \in 1..Len(kinds)
    BY <2>1, KindsRight DEF NamesInv, KindsOK
  <2>3. ASSUME NEW e \in entries, e.in = folder, e.name = name PROVE FALSE
    <3>1. e.what = 0
      BY <2>1, <2>3, FindRight DEF FindsRight, Finds
    <3>2. e.what \in 1..Len(kinds)
      BY DEF TreeInv, Entries
    <3> QED  BY <1>0, <3>1, <3>2
  <2> DEFINE r == [in |-> folder, name |-> name, what |-> Len(kinds')]
  <2>4. r.in = folder /\ r.name = name
    OBVIOUS
  <2>5. folder \in 1..Len(kinds') /\ Len(kinds') \in 1..Len(kinds') /\ Len(kinds) <= Len(kinds')
    BY <1>0, <2>2
  <2>6. r \in Entries(Len(kinds'))
    BY <2>5 DEF Entries
  <2> HIDE DEF r
  <2>7. entries' = entries \cup {r}
    BY <2>1 DEF r
  <2>8. \A e \in entries : ~(e.in = r.in /\ e.name = r.name)
    BY <2>3, <2>4
  <2>9. Len(kinds') \in Nat /\ Len(kinds) <= Len(kinds')
    BY <1>0, <2>2
  <2> QED  BY <1>0, <2>6, <2>7, <2>8, <2>9, TreeAdd
<1>2. CASE OtherRemoves
  BY <1>2 DEF OtherRemoves, TreeInv
<1>3. CASE OtherRenames
  <2>1. PICK e \in entries, name \in FileNames :
          /\ kinds' = kinds
          /\ entries' = (entries \ ({o \in entries : o.in = e.in /\ o.name = name} \cup {e}))
                          \cup {[e EXCEPT !.name = name]}
    BY <1>3 DEF OtherRenames
  <2> DEFINE r    == [e EXCEPT !.name = name]
             rest == entries \ ({o \in entries : o.in = e.in /\ o.name = name} \cup {e})
  <2>2. e \in Entries(Len(kinds))
    BY DEF TreeInv
  <2>3. r \in Entries(Len(kinds)) /\ r.in = e.in /\ r.name = name
    BY <2>2 DEF Entries
  <2> HIDE DEF r
  <2>4. rest \subseteq entries /\ \A o \in rest : ~(o.in = r.in /\ o.name = r.name)
    BY <2>3
  <2>5. entries' = rest \cup {r}
    BY <2>1 DEF r
  <2>6. Len(kinds') \in Nat /\ Len(kinds) <= Len(kinds') /\ r \in Entries(Len(kinds'))
    BY <1>0, <2>1, <2>3
  <2> HIDE DEF rest
  <2> QED  BY <1>0, <2>4, <2>5, <2>6, TreeAdd
<1> QED  BY <1>1, <1>2, <1>3

\* Which actions leave the folders as they are.
LEMMA FilesSame ==
  ASSUME [Next]_vars
  PROVE  \/ UNCHANGED files
         \/ RenameAtOnce \/ Move \/ Link \/ Unlink \/ Undo \/ MakeFolder \/ MakeFile
         \/ OtherMakes \/ OtherRemoves \/ OtherRenames
<1>1. CASE PosixList \/ WinList \/ DosList
  BY <1>1 DEF PosixList, WinList, DosList, LookAtFolder, ReadNames, ShowEntries, ListFails
<1>2. CASE NativeRename \/ WinRename \/ PortableRename \/ DosRename \/ UndoFails
  BY <1>2 DEF NativeRename, WinRename, PortableRename, DosRename, UndoFails, LookAtSource,
              LookAtDestination, UnlinkFails, RenameFails
<1>3. CASE Cancel \/ KeyFails \/ MoveSelection \/ GoUp \/ Refresh \/ ToggleHidden \/ EnterFolder
  BY <1>3 DEF Cancel, KeyFails, MoveSelection, GoUp, Refresh, ToggleHidden, EnterFolder
<1>4. CASE \/ \E mode \in {"rename", "folder", "file"} : StartPrompt(mode)
           \/ \E text \in FileNames \cup {None} : Type(text)
  BY <1>4 DEF StartPrompt, Type
<1> QED  BY <1>1, <1>2, <1>3, <1>4 DEF Next, vars

\* Every step does.
LEMMA TreeStep ==
  ASSUME NamesInv, TreeInv, [Next]_vars
  PROVE  TreeInv'
<1>1. CASE UNCHANGED files
  BY <1>1 DEF files, TreeInv
<1>2. CASE RenameAtOnce
  BY <1>2, RenameNames, MoveOverTree DEF RenameAtOnce
<1>3. CASE Move
  <2>1. call.name \in FileNames /\ call.to \in FileNames
    BY <1>3 DEF Move, NamesInv, NamedOK, Moving
  <2> QED  BY <1>3, <2>1, MoveOverTree DEF Move
<1>4. CASE Unlink \/ Undo
  BY <1>4 DEF Unlink, Undo, RemoveFile, TreeInv
<1>5. CASE MakeFolder \/ MakeFile
  <2>1. fm.input \in FileNames
    BY <1>5 DEF MakeFolder, MakeFile, Commits, NamesInv, PromptOK
  <2> QED  BY <1>5, <2>1, MakeTree DEF MakeFolder, MakeFile
<1> QED  BY <1>1, <1>2, <1>3, <1>4, <1>5, LinkTree, OtherTree, FilesSame

-----------------------------------------------------------------------------
(***************************************************************************)
(* What a step leaves of the way along a path.                             *)
(***************************************************************************)
\* The ways before and after a step, each from one place to the next.
LEMMA Ways ==
  ASSUME NEW p, Len(p) \in Nat, UNCHANGED adapter
  PROVE  /\ Way(p)[0] = 1 /\ Way(p)'[0] = 1
         /\ \A i \in 1..Len(p) :
              \/ Skipped(adapter, p, i) /\ Way(p)[i] = Way(p)[i - 1] /\ Way(p)'[i] = Way(p)'[i - 1]
              \/ /\ Way(p)[i] = Inside(Way(p)[i - 1], p[i])
                 /\ Way(p)'[i] = Inside(Way(p)[i - 1], p[i])'
<1> DEFINE way == Way(p)
<1>1. RightWay(p, way)
  BY WayRight DEF WaysRight
<1>2. RightWay(p, way)'
  <2>1. WaysRight'
    BY WayRight, PTL
  <2> QED  BY <2>1 DEF WaysRight
<1> QED  BY <1>1, <1>2 DEF RightWay

\* A way from folder to folder that a step leaves alone.
LEMMA WayKept ==
  ASSUME NEW p, Len(p) \in Nat, UNCHANGED adapter, Is(At(p), "folder"),
         \A folder, name : Is(Inside(folder, name), "folder") =>
           Inside(folder, name)' = Inside(folder, name)
  PROVE  (\A i \in 0..Len(p) : Way(p)'[i] = Way(p)[i]) /\ At(p)' = At(p)
<1> DEFINE way  == Way(p)
           L    == Len(p)
           S    == {n \in 0..L : \/ ~Is(way[n], "folder")
                                \/ \A i \in 0..n : way'[i] = way[i]}
<1>1. /\ way[0] = 1 /\ way'[0] = 1
      /\ \A i \in 1..L :
           \/ Skipped(adapter, p, i) /\ way[i] = way[i - 1] /\ way'[i] = way'[i - 1]
           \/ way[i] = Inside(way[i - 1], p[i]) /\ way'[i] = Inside(way[i - 1], p[i])'
  BY Ways
<1>2. L \in Nat
  OBVIOUS
<1>3. 0 \in S
  BY <1>1, <1>2
<1>4. ASSUME NEW n \in 0..L, n < L, n \in S PROVE n + 1 \in S
  <2>1. PICK m \in 1..L : m = n + 1 /\ m - 1 = n
    BY <1>2, <1>4
  <2>2. CASE ~Is(way[n], "folder")
    <3>1. way[m] = way[n] \/ way[m] = 0
      BY <1>1, <2>1, <2>2 DEF Inside
    <3>2. ~Is(way[m], "folder")
      BY <2>2, <3>1 DEF Is
    <3> QED  BY <1>2, <2>1, <3>2
  <2>3. CASE Is(way[n], "folder") /\ \A i \in 0..n : way'[i] = way[i]
    <3>1. way'[n] = way[n]
      BY <2>3, <1>4
    <3>2. way'[m] = way[m] \/ ~Is(way[m], "folder")
      <4>1. CASE way[m] = way[n] /\ way'[m] = way'[n]
        BY <3>1, <4>1
      <4>2. CASE way[m] = Inside(way[n], p[m]) /\ way'[m] = Inside(way[n], p[m])'
        <5>1. way'[n] = way[n]
          BY <3>1
        <5>2. PICK folder : folder = way[n]
          OBVIOUS
        <5>3. Inside(way[n], p[m])' = Inside(folder, p[m])'
          BY <5>1, <5>2 DEF Inside, Find, Is
        <5> QED  BY <4>2, <5>2, <5>3
      <4> QED  BY <1>1, <2>1, <4>1, <4>2
    <3>3. \A i \in 0..m : i \in 0..n \/ i = m
      BY <1>2, <2>1
    <3> QED  BY <1>2, <2>1, <2>3, <3>2, <3>3
  <2> QED  BY <1>4, <2>2, <2>3
<1> HIDE DEF S, L, way
<1>5. 0..L \subseteq S
  BY <1>2, <1>3, <1>4, Stepwise
<1>6. L \in S
  BY <1>2, <1>5
<1>7. \A i \in 0..L : way'[i] = way[i]
  BY <1>6 DEF S, way, L, At
<1> QED  BY <1>2, <1>7 DEF way, At, L

\* A way that other programs touch: it is as it was, or broken, or it has been
\* led through what they touched.
LEMMA WayTouched ==
  ASSUME NEW p, Len(p) \in Nat, UNCHANGED adapter, TreeInv, NamesInv,
         \A name : \A folder \in 0..Len(kinds) :
           \/ Inside(folder, name)' = Inside(folder, name)
           \/ Inside(folder, name)' = 0
           \/ Inside(folder, name)' \in touched',
         \A name : Inside(0, name)' = 0
  PROVE  \/ \A i \in 0..Len(p) : Way(p)'[i] = Way(p)[i]
         \/ At(p)' = 0
         \/ \E i \in 0..Len(p) : Way(p)'[i] \in touched'
<1> DEFINE way  == Way(p)
           L    == Len(p)
           S    == {n \in 0..L : \/ \A i \in 0..n : way'[i] = way[i]
                                \/ way'[n] = 0
                                \/ \E i \in 0..n : way'[i] \in touched'}
<1>1. /\ way[0] = 1 /\ way'[0] = 1
      /\ \A i \in 1..L :
           \/ Skipped(adapter, p, i) /\ way[i] = way[i - 1] /\ way'[i] = way'[i - 1]
           \/ way[i] = Inside(way[i - 1], p[i]) /\ way'[i] = Inside(way[i - 1], p[i])'
  BY Ways
<1>2. L \in Nat /\ \A i \in 0..L : way[i] \in 0..Len(kinds)
  BY WayTyped
<1>3. 0 \in S
  BY <1>1, <1>2
<1>4. ASSUME NEW n \in 0..L, n < L, n \in S PROVE n + 1 \in S
  <2>1. PICK m \in 1..L : m = n + 1 /\ m - 1 = n
    BY <1>2, <1>4
  <2>2. m \in 0..L /\ \A i \in 0..m : i \in 0..n \/ i = m
    BY <1>2, <2>1
  <2>3. 0..n \subseteq 0..m /\ n \in 0..n /\ m \in 0..m
    BY <1>2, <2>1
  <2>4. ASSUME NEW folder, way'[n] = folder
        PROVE  Inside(way[n], p[m])' = Inside(folder, p[m])'
    BY <2>4 DEF Inside, Find, Is
  <2>5. CASE \A i \in 0..n : way'[i] = way[i]
    <3>1. way'[n] = way[n] /\ way[n] \in 0..Len(kinds)
      BY <1>2, <2>3, <2>5
    <3>2. PICK folder \in 0..Len(kinds) : folder = way[n]
      BY <3>1
    <3>3. way'[m] = way[m] \/ way'[m] = 0 \/ way'[m] \in touched'
      BY <1>1, <2>1, <2>4, <3>1, <3>2
    <3> QED  BY <2>1, <2>2, <2>3, <2>5, <3>3
  <2>6. CASE way'[n] = 0
    <3>1. way'[m] = 0
      BY <1>1, <2>1, <2>4, <2>6
    <3> QED  BY <2>1, <2>2, <3>1
  <2>7. CASE \E i \in 0..n : way'[i] \in touched'
    BY <2>1, <2>2, <2>3, <2>7
  <2> QED  BY <1>4, <2>5, <2>6, <2>7
<1> HIDE DEF S, L, way
<1>5. 0..L \subseteq S
  BY <1>2, <1>3, <1>4, Stepwise
<1>6. L \in S
  BY <1>2, <1>5
<1> QED  BY <1>6 DEF S, way, L, At

-----------------------------------------------------------------------------
(***************************************************************************)
(* Other programs.                                                         *)
(***************************************************************************)
Gone(o) == o = 0 \/ o \in touched

Others == OtherMakes \/ OtherRemoves \/ OtherRenames

\* What is a file or a folder stays one.
KindsKept ==
  \A o \in 0..Len(kinds) : Is(o, "folder")' = Is(o, "folder") /\ Is(o, "file")' = Is(o, "file")

\* As long as only new ones are added.
LEMMA KindsStay ==
  ASSUME KindsOK, \/ UNCHANGED kinds
                  \/ \E kind \in {"file", "folder"} : kinds' = Append(kinds, kind)
  PROVE  KindsKept
<1>1. \A o \in 1..Len(kinds) : kinds'[o] = kinds[o]
  BY KindsRight
<1>2. ASSUME NEW o \in 0..Len(kinds), NEW kind PROVE Is(o, kind)' = Is(o, kind)
  <2>1. CASE o = 0
    BY <2>1 DEF Is
  <2>2. CASE o # 0
    <3>1. o \in 1..Len(kinds)
      BY <2>2 DEF KindsOK
    <3> QED  BY <1>1, <3>1 DEF Is
  <2> QED  BY <2>1, <2>2
<1> QED  BY <1>2 DEF KindsKept

\* Others change neither the File Manager nor its call.
LEMMA OtherKinds ==
  ASSUME KindsOK, Others
  PROVE  /\ KindsKept
         /\ UNCHANGED <<adapter, fm, call>> /\ acts' = acts + 1 /\ ~current'
         /\ ~Idle => touched \subseteq touched'
<1>1. KindsKept
  BY KindsStay DEF Others, OtherMakes, OtherRemoves, OtherRenames
<1> QED  BY <1>1 DEF Others, OtherMakes, OtherRemoves, OtherRenames, Other

\* What a name refers to when others have been at work, unless it is as before.
LEMMA OtherFinds ==
  ASSUME NamesInv, TreeInv, TreeInv', Others, ~Idle, NEW folder, NEW name
  PROVE  \/ Find(folder, name)' = Find(folder, name)
         \/ Gone(Find(folder, name))' /\ (Find(folder, name) = 0 \/ Find(folder, name) \in touched')
<1>1. /\ \A e \in entries : e.in = folder /\ e.name = name => Find(folder, name) = e.what
      /\ \/ Find(folder, name) = 0 /\ \A e \in entries : ~(e.in = folder /\ e.name = name)
         \/ \E e \in entries : e.in = folder /\ e.name = name /\ e.what = Find(folder, name)
  BY FindRight DEF FindsRight, Finds
<1>2. /\ \A e \in entries' : e.in = folder /\ e.name = name => Find(folder, name)' = e.what
      /\ \/ Find(folder, name)' = 0 /\ \A e \in entries' : ~(e.in = folder /\ e.name = name)
         \/ \E e \in entries' : e.in = folder /\ e.name = name /\ e.what = Find(folder, name)'
  <2>1. FindsRight'
    BY FindRight, PTL
  <2> QED  BY <2>1 DEF FindsRight, Finds
<1> DEFINE was == Find(folder, name)
           is  == Find(folder, name)'
<1> HIDE DEF was, is
<1>3. CASE OtherMakes
  <2>1. PICK at, new : entries' = entries \cup {[in |-> at, name |-> new, what |-> Len(kinds')]}
    BY <1>3 DEF OtherMakes
  <2>2. touched' = touched \cup {Len(kinds')}
    BY <1>3 DEF OtherMakes, Other
  <2> QED  BY <1>1, <1>2, <2>1, <2>2 DEF Gone
<1>4. CASE OtherRemoves
  <2>1. PICK e \in entries : entries' = entries \ {e} /\ touched' = touched \cup {e.what}
    BY <1>4 DEF OtherRemoves, Other
  <2> QED  BY <1>1, <1>2, <2>1 DEF Gone
<1>5. CASE OtherRenames
  <2>1. PICK e \in entries, new \in FileNames :
          /\ entries' = (entries \ ({o \in entries : o.in = e.in /\ o.name = new} \cup {e}))
                          \cup {[e EXCEPT !.name = new]}
          /\ touched' = touched \cup {e.what} \cup
                          {o.what : o \in {o \in entries : o.in = e.in /\ o.name = new}}
          /\ new # e.name
    BY <1>5 DEF OtherRenames, Other
  <2> DEFINE r    == [e EXCEPT !.name = new]
             over == {o \in entries : o.in = e.in /\ o.name = new}
  <2>2. r.in = e.in /\ r.name = new /\ r.what = e.what
    BY DEF TreeInv, Entries
  <2>3. touched' = touched \cup {e.what} \cup {o.what : o \in over}
    BY <2>1
  <2> HIDE DEF r
  <2>4. entries' = (entries \ (over \cup {e})) \cup {r}
    BY <2>1 DEF r
  <2>5. CASE folder = e.in /\ name = e.name
    <3>1. Find(folder, name) = e.what /\ e.what \in touched'
      BY <1>1, <2>3, <2>5
    <3>2. \A d \in entries' : ~(d.in = folder /\ d.name = name)
      BY <2>1, <2>2, <2>4, <2>5 DEF TreeInv
    <3> QED  BY <1>2, <3>1, <3>2 DEF Gone
  <2>6. CASE folder = e.in /\ name = new
    <3>1. Find(folder, name)' = e.what /\ e.what \in touched'
      BY <1>2, <2>2, <2>3, <2>4, <2>6
    <3>2. Find(folder, name) = 0 \/ Find(folder, name) \in touched'
      BY <1>1, <2>3, <2>6
    <3> QED  BY <3>1, <3>2 DEF Gone
  <2>7. CASE ~(folder = e.in /\ name = e.name) /\ ~(folder = e.in /\ name = new)
    <3>1. \A d : d.in = folder /\ d.name = name => (d \in entries' <=> d \in entries)
      BY <2>2, <2>4, <2>7
    <3> QED  BY <1>1, <1>2, <3>1
  <2> QED  BY <2>5, <2>6, <2>7
<1> QED  BY <1>3, <1>4, <1>5 DEF Others

-----------------------------------------------------------------------------
(***************************************************************************)
(* A rename or creation of several calls, and what others do between them. *)
(***************************************************************************)
\* Unless the way to the folder has been led elsewhere: the new name still has
\* nothing the others did not put there when a rename would replace it, and a
\* name is only taken from what has another one or is the new file, or from
\* what the others touched.
RaceInv ==
  /\ acts \in Nat
  /\ \/ Diverted
     \/ /\ call.stage = "move" => Gone(Target(call.to))
        /\ call.stage = "unlink" \/ (call.stage = "undo" /\ call.made = 0) =>
             \/ Target(call.name) = Target(call.to)
             \/ Gone(Target(call.name)) /\ Gone(Target(call.to))
        /\ call.stage = "undo" /\ call.made # 0 =>
             Target(call.to) = call.made \/ Gone(Target(call.to))

\* What a name in its folder refers to after a step.
LEMMA TargetNext ==
  ASSUME NamesInv', NEW name \in FileNames
  PROVE  Target(name)' = Inside(Cwd, name)'
<1>1. JoinsRight'
  BY JoinRight, PTL
<1> QED  BY <1>1 DEF JoinsRight, NamesInv, PromptOK, Target, Cwd

\* The places of the way to the folder.
LEMMA WayPlaces ==
  ASSUME NamesInv, UNCHANGED <<adapter, fm.cwd>>
  PROVE  DOMAIN Way(fm.cwd) = 0..Len(fm.cwd) /\ (DOMAIN Way(fm.cwd))' = 0..Len(fm.cwd)
<1>1. Len(fm.cwd) \in Nat
  BY DEF NamesInv, PromptOK, Proper
<1>2. RightWay(fm.cwd, Way(fm.cwd))
  BY <1>1, WayRight DEF WaysRight
<1>3. WaysRight'
  BY WayRight, PTL
<1>4. RightWay(fm.cwd, Way(fm.cwd))'
  BY <1>1, <1>3 DEF WaysRight
<1> QED  BY <1>2, <1>4 DEF RightWay

\* What the names refer to once others have been at work.
LEMMA OtherTargets ==
  ASSUME NamesInv, NamesInv', TreeInv, TreeInv', Others, ~Idle
  PROVE  \/ Diverted'
         \/ \A n \in FileNames : Target(n)' = 0
         \/ /\ ~Diverted
            /\ \A n \in FileNames :
                 \/ Target(n)' = Target(n)
                 \/ Gone(Target(n))' /\ (Target(n) = 0 \/ Target(n) \in touched')
<1>1. /\ KindsKept /\ UNCHANGED <<adapter, fm>> /\ touched \subseteq touched'
      /\ Len(kinds) \in Nat /\ Len(fm.cwd) \in Nat
  BY OtherKinds DEF NamesInv, KindsOK, PromptOK, Proper
<1>2. ASSUME NEW folder \in 0..Len(kinds), NEW name
      PROVE  \/ Inside(folder, name)' = Inside(folder, name)
             \/ /\ Gone(Inside(folder, name))'
                /\ Inside(folder, name) = 0 \/ Inside(folder, name) \in touched'
  <2>1. \/ Find(folder, name)' = Find(folder, name)
        \/ Gone(Find(folder, name))' /\ (Find(folder, name) = 0 \/ Find(folder, name) \in touched')
    BY OtherFinds
  <2>2. Is(folder, "folder")' = Is(folder, "folder")
    BY <1>1 DEF KindsKept
  <2> QED  BY <2>1, <2>2 DEF Inside, Gone
<1>3. \A name : Inside(0, name)' = 0
  BY DEF Inside, Is
<1> DEFINE p == fm.cwd
<1>4. \/ \A i \in 0..Len(p) : Way(p)'[i] = Way(p)[i]
      \/ At(p)' = 0
      \/ \E i \in 0..Len(p) : Way(p)'[i] \in touched'
  <2> HIDE DEF p
  <2>1. Len(p) \in Nat /\ UNCHANGED p
    BY <1>1 DEF p
  <2> QED  BY <1>1, <1>2, <1>3, <2>1, WayTouched DEF Gone
<1>5. DOMAIN Way(p) = 0..Len(p) /\ (DOMAIN Way(p))' = 0..Len(p)
  BY <1>1, WayPlaces
<1>6. \A n \in FileNames : Target(n) = Inside(Cwd, n) /\ Target(n)' = Inside(Cwd, n)'
  BY TargetRight, TargetNext
<1>7. CASE \A i \in 0..Len(p) : Way(p)'[i] = Way(p)[i]
  <2>1. Diverted => Diverted'
    BY <1>1, <1>5, <1>7 DEF Diverted
  <2>2. Cwd' = Cwd /\ Cwd \in 0..Len(kinds)
    <3>1. Cwd \in 0..Len(kinds)
      BY <1>1, WayTyped DEF Cwd
    <3>2. Len(p) \in 0..Len(p) /\ UNCHANGED p
      BY <1>1
    <3>3. Cwd = Way(p)[Len(p)] /\ Cwd' = Way(p)'[Len(p)]
      BY <3>2 DEF Cwd, At
    <3> QED  BY <1>7, <3>1, <3>2, <3>3
  <2>3. PICK folder \in 0..Len(kinds) : folder = Cwd /\ folder = Cwd'
    BY <2>2
  <2>4. ASSUME NEW n \in FileNames
        PROVE  \/ Target(n)' = Target(n)
               \/ Gone(Target(n))' /\ (Target(n) = 0 \/ Target(n) \in touched')
    <3>1. Target(n) = Inside(folder, n)
      BY <1>6, <2>3
    <3>2. Target(n)' = Inside(folder, n)'
      <4>1. Inside(Cwd, n)' = Inside(folder, n)'
        BY <2>3 DEF Inside, Find, Is
      <4> QED  BY <1>6, <4>1
    <3> QED  BY <1>2, <3>1, <3>2 DEF Gone
  <2> QED  BY <2>1, <2>4
<1>8. CASE At(p)' = 0
  <2>1. Cwd' = 0
    BY <1>8 DEF Cwd
  <2>2. ASSUME NEW n PROVE Inside(Cwd, n)' = 0
    BY <2>1 DEF Inside, Is
  <2> QED  BY <1>6, <2>2
<1>9. CASE \E i \in 0..Len(p) : Way(p)'[i] \in touched'
  BY <1>1, <1>5, <1>9 DEF Diverted
<1> QED  BY <1>4, <1>7, <1>8, <1>9

\* A name in the folder that is given to something, or taken from a file,
\* leaves the way and the other names alone.
LEMMA OneName ==
  ASSUME NamesInv, NamesInv', TreeInv, TreeInv', UNCHANGED <<adapter, fm.cwd>>, KindsKept,
         NEW to \in FileNames, Is(Cwd, "folder"), ~Is(Target(to), "folder"),
         \A d : ~(d.in = Cwd /\ d.name = to) => (d \in entries' <=> d \in entries)
  PROVE  /\ Cwd' = Cwd /\ Is(Cwd, "folder")'
         /\ UNCHANGED touched => (Diverted' <=> Diverted)
         /\ \A n \in FileNames : Target(n) = Find(Cwd, n) /\ Target(n)' = Find(Cwd, n)'
         /\ \A n \in FileNames \ {to} : Target(n)' = Target(n)
<1>1. Len(fm.cwd) \in Nat /\ Len(kinds) \in Nat
  BY DEF NamesInv, KindsOK, PromptOK, Proper
<1>2. \A n \in FileNames : Target(n) = Inside(Cwd, n) /\ Target(n)' = Inside(Cwd, n)'
  BY TargetRight, TargetNext
<1>3. \A n \in FileNames : Target(n) = Find(Cwd, n)
  BY <1>2 DEF Inside
<1>4. ASSUME NEW folder, NEW name, ~(folder = Cwd /\ name = to)
      PROVE  Find(folder, name)' = Find(folder, name)
  <2>1. /\ \A e \in entries : e.in = folder /\ e.name = name => Find(folder, name) = e.what
        /\ \/ Find(folder, name) = 0 /\ \A e \in entries : ~(e.in = folder /\ e.name = name)
           \/ \E e \in entries : e.in = folder /\ e.name = name /\ e.what = Find(folder, name)
    BY FindRight DEF FindsRight, Finds
  <2>2. /\ \A e \in entries' : e.in = folder /\ e.name = name => Find(folder, name)' = e.what
        /\ \/ Find(folder, name)' = 0 /\ \A e \in entries' : ~(e.in = folder /\ e.name = name)
           \/ \E e \in entries' : e.in = folder /\ e.name = name /\ e.what = Find(folder, name)'
    <3>1. FindsRight'
      BY FindRight, PTL
    <3> QED  BY <3>1 DEF FindsRight, Finds
  <2>3. \A d : d.in = folder /\ d.name = name => (d \in entries' <=> d \in entries)
    BY <1>4
  <2> QED  BY <2>1, <2>2, <2>3
<1>5. ASSUME NEW folder, NEW name, Is(Inside(folder, name), "folder")
      PROVE  Inside(folder, name)' = Inside(folder, name)
  <2>1. Is(folder, "folder") /\ Inside(folder, name) = Find(folder, name) /\ Find(folder, name) # 0
    BY <1>5 DEF Inside, Is
  <2>2. folder \in 0..Len(kinds)
    <3>1. PICK e \in entries : e.in = folder
      BY <2>1, FindRight DEF FindsRight, Finds
    <3>2. e.in \in 1..Len(kinds)
      BY DEF TreeInv, Entries
    <3> QED  BY <1>1, <3>1, <3>2
  <2>3. Is(folder, "folder")'
    BY <2>1, <2>2 DEF KindsKept
  <2>4. ~(folder = Cwd /\ name = to)
    BY <1>2, <1>5
  <2>5. Find(folder, name)' = Find(folder, name)
    BY <1>4, <2>4
  <2> QED  BY <2>1, <2>3, <2>5 DEF Inside
<1> DEFINE p == fm.cwd
<1>6. (\A i \in 0..Len(p) : Way(p)'[i] = Way(p)[i]) /\ At(p)' = At(p)
  <2>1. Len(p) \in Nat /\ UNCHANGED p /\ Is(At(p), "folder")
    BY <1>1 DEF Cwd
  <2> HIDE DEF p
  <2> QED  BY <1>5, <2>1, WayKept
<1>7. Cwd' = Cwd
  BY <1>6 DEF Cwd
<1>8. Is(Cwd, "folder")'
  <2>1. Cwd \in 0..Len(kinds)
    BY <1>1, WayTyped DEF Cwd
  <2>2. PICK folder \in 0..Len(kinds) : folder = Cwd /\ folder = Cwd'
    BY <1>7, <2>1
  <2>3. Is(folder, "folder")'
    BY <2>2 DEF KindsKept
  <2> QED  BY <2>2, <2>3 DEF Is
<1>9. \A n \in FileNames : Target(n)' = Find(Cwd, n)'
  BY <1>2, <1>8 DEF Inside
<1>10. ASSUME NEW n \in FileNames \ {to} PROVE Target(n)' = Target(n)
  <2>1. PICK folder : folder = Cwd /\ folder = Cwd'
    BY <1>7
  <2>2. Find(Cwd, n)' = Find(folder, n)'
    BY <2>1 DEF Find
  <2>3. Find(folder, n)' = Find(folder, n)
    BY <1>4
  <2> QED  BY <1>3, <1>9, <2>1, <2>2, <2>3
<1>11. UNCHANGED touched => (Diverted' <=> Diverted)
  <2>1. DOMAIN Way(p) = 0..Len(p) /\ (DOMAIN Way(p))' = 0..Len(p)
    BY WayPlaces
  <2> QED  BY <1>6, <2>1 DEF Diverted
<1> QED  BY <1>3, <1>7, <1>8, <1>9, <1>10, <1>11

Racing == {"move", "unlink", "undo"}

\* After which steps something is taken away, or may be.
LEMMA RacesBegin ==
  ASSUME ViewInv, [Next]_vars
  PROVE  \/ call'.stage \notin Racing /\ acts' = acts
         \/ LookAtDestination \/ Link \/ UnlinkFails
         \/ MakeFile /\ Goto("undo", None, fm.input, Len(kinds'))
         \/ Others \/ UNCHANGED vars
<1>1. ASSUME NEW f, NEW preserve, NEW to, Reload(f, preserve, to)
      PROVE  call'.stage \notin Racing /\ acts' = acts
  <2>1. call'.stage \in {"look", "open"} /\ acts' = acts
    BY <1>1 DEF Reload, NoCall
  <2> QED  BY <2>1 DEF Racing
<1>2. ASSUME NEW f, Stop(f) PROVE call'.stage \notin Racing /\ acts' = acts
  BY <1>2 DEF Stop, NoCall, Racing
<1>3. CASE PosixList \/ WinList \/ DosList
  <2>1. CASE LookAtFolder \/ ReadNames
    <3>1. call'.stage \in {"open", "entries"} /\ acts' = acts
      BY <2>1 DEF LookAtFolder, ReadNames, world, ViewInv, CallOK
    <3> QED  BY <3>1 DEF Racing
  <2>2. CASE ShowEntries \/ ListFails
    <3>1. \E f : Stop(f)
      BY <2>2 DEF ShowEntries, ListFails, Fail
    <3> QED  BY <1>2, <3>1
  <2> QED  BY <1>3, <2>1, <2>2 DEF PosixList, WinList, DosList
<1>4. CASE NativeRename \/ WinRename \/ PortableRename \/ DosRename \/ Undo \/ UndoFails
  <2>1. ASSUME NEW name, NEW to, MoveOver(name, to)
        PROVE  call'.stage \notin Racing /\ acts' = acts
    BY <1>1, <2>1 DEF MoveOver, Done
  <2>2. ASSUME NEW next \in {"link", "destination"}, LookAtSource(next)
        PROVE  call'.stage \notin Racing /\ acts' = acts
    <3>1. call'.stage = next /\ acts' = acts
      BY <2>2 DEF LookAtSource, Goto, NoCall, world
    <3> QED  BY <3>1 DEF Racing
  <2>3. CASE Unlink
    BY <1>1, <2>3 DEF Unlink, Done
  <2>4. CASE Undo \/ UndoFails \/ RenameFails
    BY <1>2, <2>4 DEF Undo, UndoFails, RenameFails, Fail
  <2> QED  BY <1>4, <2>1, <2>2, <2>3, <2>4
           DEF NativeRename, WinRename, RenameAtOnce, PortableRename, DosRename, Move
<1>5. CASE MakeFolder \/ MakeFile
  BY <1>1, <1>5 DEF MakeFolder, MakeFile, Done
<1>6. CASE Cancel \/ MoveSelection \/ (\E text \in FileNames \cup {None} : Type(text))
            \/ (\E mode \in {"rename", "folder", "file"} : StartPrompt(mode))
  <2>1. call'.stage = "idle" /\ acts' = acts
    BY <1>6 DEF Cancel, MoveSelection, Type, StartPrompt, Browsing, Idle, world
  <2> QED  BY <2>1 DEF Racing
<1>7. CASE KeyFails
  BY <1>2, <1>7 DEF KeyFails, Fail
<1>8. CASE GoUp \/ Refresh \/ ToggleHidden \/ EnterFolder
  BY <1>1, <1>8 DEF GoUp, Refresh, ToggleHidden, EnterFolder
<1> QED  BY <1>3, <1>4, <1>5, <1>6, <1>7, <1>8 DEF Next, Others

\* Something has the name from now on.
LEMMA NameGiven ==
  ASSUME NamesInv, NamesInv', TreeInv, TreeInv', UNCHANGED <<adapter, fm.cwd>>, KindsKept,
         NEW to \in FileNames, Is(Cwd, "folder"), Target(to) = 0,
         NEW what, entries' = entries \cup {NewEntry(to, what)}
  PROVE  /\ Cwd' = Cwd /\ Is(Cwd, "folder")' /\ Target(to)' = what
         /\ \A n \in FileNames : Target(n) = Find(Cwd, n) /\ Target(n)' = Find(Cwd, n)'
         /\ \A n \in FileNames \ {to} : Target(n)' = Target(n)
         /\ UNCHANGED touched => (Diverted' <=> Diverted)
<1> DEFINE r == NewEntry(to, what)
<1>1. r.in = Cwd /\ r.name = to /\ r.what = what
  BY DEF NewEntry
<1> HIDE DEF r
<1>2. r \in entries' /\ \A d : ~(d.in = Cwd /\ d.name = to) => (d \in entries' <=> d \in entries)
  BY <1>1 DEF r
<1>3. ~Is(Target(to), "folder")
  BY DEF Is
<1>4. /\ Cwd' = Cwd /\ Is(Cwd, "folder")'
      /\ \A n \in FileNames : Target(n) = Find(Cwd, n) /\ Target(n)' = Find(Cwd, n)'
      /\ \A n \in FileNames \ {to} : Target(n)' = Target(n)
      /\ UNCHANGED touched => (Diverted' <=> Diverted)
  BY <1>2, <1>3, OneName
<1>5. Target(to)' = what
  <2>1. FindsRight'
    BY FindRight, PTL
  <2>2. r \in entries' /\ r.in = Cwd' /\ r.name = to
    BY <1>1, <1>2, <1>4
  <2>3. Find(Cwd, to)' = r.what
    BY <2>1, <2>2 DEF FindsRight, Finds
  <2> QED  BY <1>1, <1>4, <2>3
<1> QED  BY <1>4, <1>5

\* Without a change the names mean what they did.
LEMMA FilesStay ==
  ASSUME UNCHANGED <<adapter, kinds, entries, fm>>
  PROVE  /\ \A n : Target(n)' = Target(n)
         /\ Cwd' = Cwd /\ (UNCHANGED touched => (Diverted' <=> Diverted))
<1>1. ASSUME NEW n PROVE Target(n)' = Target(n)
  BY DEF Target, At, Way, Inside, Find, Is
<1>2. Cwd' = Cwd
  BY DEF Cwd, At, Way, Inside, Find, Is
<1>3. UNCHANGED touched => (Diverted' <=> Diverted)
  BY DEF Diverted, Way, Inside, Find, Is
<1> QED  BY <1>1, <1>2, <1>3

\* Every step of the program and of others keeps it so.
LEMMA RaceStep ==
  ASSUME ViewInv, NamesInv, NamesInv', TreeInv, TreeInv', RaceInv, [Next]_vars
  PROVE  RaceInv'
<1>1. CASE call'.stage \notin Racing /\ acts' = acts
  BY <1>1 DEF RaceInv, Racing
<1>2. CASE LookAtDestination
  <2>1. /\ call.stage = "destination" /\ Target(call.to) = 0
        /\ UNCHANGED <<adapter, fm, kinds, entries, touched, acts>>
        /\ call'.stage = "move" /\ call'.to = call.to
    BY <1>2 DEF LookAtDestination, Goto, NoCall, files, world
  <2>2. Target(call.to)' = Target(call.to)
    BY <2>1, FilesStay
  <2> QED  BY <2>1, <2>2 DEF RaceInv, Gone
<1>3. CASE Link
  <2>1. /\ call.stage = "link" /\ Is(Target(call.name), "file") /\ Target(call.to) = 0
        /\ entries' = entries \cup {NewEntry(call.to, Target(call.name))}
        /\ UNCHANGED <<adapter, fm, kinds, touched, acts>>
        /\ call'.stage = "unlink" /\ call'.to = call.to /\ call'.name = call.name
    BY <1>3 DEF Link, Goto, NoCall, world
  <2>2. /\ call.name \in FileNames /\ call.to \in FileNames /\ call.to # call.name /\ KindsOK
    BY <2>1 DEF NamesInv, NamedOK, Moving
  <2>3. Is(Cwd, "folder") /\ KindsKept
    BY <2>1, <2>2, TargetFound, KindsStay DEF Is
  <2> DEFINE to == call.to
             name == call.name
  <2>4. Target(to)' = Target(name) /\ Target(name)' = Target(name)
    BY <2>1, <2>2, <2>3, NameGiven
  <2> QED  BY <2>1, <2>4 DEF RaceInv
<1>4. CASE UnlinkFails
  <2>1. /\ call.stage = "unlink"
        /\ UNCHANGED <<adapter, fm, kinds, entries, touched, acts>>
        /\ call'.stage = "undo" /\ call'.to = call.to /\ call'.name = call.name /\ call'.made = 0
    BY <1>4 DEF UnlinkFails, Goto, NoCall, files, world
  <2>2. /\ Target(call.to)' = Target(call.to) /\ Target(call.name)' = Target(call.name)
        /\ Diverted' <=> Diverted
    BY <2>1, FilesStay
  <2> QED  BY <2>1, <2>2 DEF RaceInv, Gone
<1>5. CASE MakeFile /\ Goto("undo", None, fm.input, Len(kinds'))
  <2>1. PICK kind \in {"file"} :
        /\ Target(fm.input) = 0 /\ Is(Cwd, "folder") /\ kinds' = Append(kinds, kind)
        /\ entries' = entries \cup {NewEntry(fm.input, Len(kinds'))}
        /\ UNCHANGED <<adapter, fm, touched, acts>>
        /\ call'.stage = "undo" /\ call'.to = fm.input /\ call'.made = Len(kinds')
    BY <1>5 DEF MakeFile, Make, Goto, NoCall, world
  <2>2. fm.input \in FileNames /\ KindsOK /\ KindsOK'
    BY <1>5 DEF MakeFile, Commits, NamesInv, PromptOK
  <2>3. KindsKept
    BY <2>1, <2>2, KindsStay
  <2>4. Target(fm.input)' = Len(kinds') /\ Len(kinds') # 0
    BY <2>1, <2>2, <2>3, NameGiven DEF KindsOK
  <2> QED  BY <2>1, <2>4 DEF RaceInv
<1>6. CASE Others
  <2>0. UNCHANGED call /\ acts' \in Nat /\ (~Idle => touched \subseteq touched')
    BY <1>6, OtherKinds DEF RaceInv, NamesInv
  <2>1. CASE Idle
    BY <2>0, <2>1 DEF RaceInv, Idle
  <2>2. CASE ~Idle
    <3>1. CASE Diverted'
      BY <2>0, <3>1 DEF RaceInv
    <3>0. /\ call.stage \in {"move", "unlink"} => call.name \in FileNames
          /\ call.stage \in Racing => call.to \in FileNames
          /\ call.stage = "undo" /\ call.made = 0 => call.name \in FileNames
      BY DEF NamesInv, NamedOK, Moving, Racing
    <3>2. CASE \A n \in FileNames : Target(n)' = 0
      <4> DEFINE to   == call.to
                 name == call.name
      <4>1. /\ call.stage \in Racing => Target(to)' = 0
            /\ call.stage = "unlink" \/ (call.stage = "undo" /\ call.made = 0) => Target(name)' = 0
        BY <2>0, <3>0, <3>2
      <4> QED  BY <2>0, <4>1 DEF RaceInv, Gone, Racing
    <3>3. CASE /\ ~Diverted
            /\ \A n \in FileNames :
                 \/ Target(n)' = Target(n)
                 \/ Gone(Target(n))' /\ (Target(n) = 0 \/ Target(n) \in touched')
      <4> DEFINE to   == call.to
                 name == call.name
      <4>1. call.stage \in Racing =>
              \/ Target(to)' = Target(to)
              \/ Gone(Target(to))' /\ (Target(to) = 0 \/ Target(to) \in touched')
        BY <2>0, <3>0, <3>3
      <4>2. call.stage = "unlink" \/ (call.stage = "undo" /\ call.made = 0) =>
              \/ Target(name)' = Target(name)
              \/ Gone(Target(name))' /\ (Target(name) = 0 \/ Target(name) \in touched')
        BY <2>0, <3>0, <3>3
      <4>3. touched \subseteq touched'
        BY <2>0, <2>2
      <4> QED  BY <2>0, <3>3, <4>1, <4>2, <4>3 DEF RaceInv, Gone, Racing
    <3> QED  BY <1>6, <2>2, <3>1, <3>2, <3>3, OtherTargets
  <2> QED  BY <2>1, <2>2
<1>7. CASE UNCHANGED vars
  <2>1. UNCHANGED <<adapter, kinds, entries, fm, call, touched, acts>>
    BY <1>7 DEF vars, files, world
  <2>2. /\ Target(call.to)' = Target(call.to) /\ Target(call.name)' = Target(call.name)
        /\ Diverted' <=> Diverted
    BY <2>1, FilesStay
  <2> QED  BY <2>1, <2>2 DEF RaceInv, Gone
<1> QED  BY <1>1, <1>2, <1>3, <1>4, <1>5, <1>6, <1>7, RacesBegin

\* What a step may take the last name of.
Losable(o) ==
  \/ o = call.made
  \/ (o \in touched \/ Diverted) /\ call.stage \in {"move", "unlink", "undo"}

\* What is renamed keeps a name, so that only what had the new name may lose one.
LEMMA MoveOverLoses ==
  ASSUME NamesInv, TreeInv, NEW name \in FileNames, NEW to \in FileNames, name # to,
         MoveOver(name, to), NEW o \in Named \ Named'
  PROVE  o = Target(to) /\ o # 0
<1>1. /\ Target(name) # 0
      /\ entries' = (entries \ (Entry(name) \cup Entry(to))) \cup {NewEntry(to, Target(name))}
  BY DEF MoveOver, Replaceable
<1>2. PICK e \in entries : Entry(name) = {e} /\ e.what = Target(name)
  BY <1>1, TargetFound
<1>3. PICK d \in entries : d.what = o
  BY DEF Named
<1>4. \A r \in entries' : r.what # o
  BY DEF Named
<1>5. o # Target(name)
  <2> DEFINE r == NewEntry(to, Target(name))
  <2>1. r.what = Target(name) /\ r \in entries'
    BY <1>1 DEF NewEntry
  <2> QED  BY <1>4, <2>1
<1>6. d \in Entry(to)
  BY <1>1, <1>2, <1>3, <1>4, <1>5
<1>7. Is(Cwd, "folder")
  BY <1>1, TargetFound
<1>8. Target(to) # 0
  BY <1>6, <1>7, TargetFound
<1> QED  BY <1>3, <1>6, <1>8, TargetFound

\* A file whose name is taken away had that name.
LEMMA RemovedLoses ==
  ASSUME NamesInv, TreeInv, NEW name \in FileNames, RemoveFile(name), NEW o \in Named \ Named'
  PROVE  /\ o = Target(name) /\ o # 0
         /\ \A n \in FileNames \ {name} : Target(n) # o
<1>1. Target(name) # 0 /\ entries' = entries \ Entry(name)
  BY DEF RemoveFile, Is
<1>2. PICK e \in entries : Entry(name) = {e} /\ e.what = Target(name)
  BY <1>1, TargetFound
<1>3. PICK d \in entries : d.what = o
  BY DEF Named
<1>4. \A r \in entries' : r.what # o
  BY DEF Named
<1>5. d = e
  BY <1>1, <1>2, <1>3, <1>4
<1>6. ASSUME NEW n \in FileNames \ {name}, Target(n) = o PROVE FALSE
  <2>1. PICK r \in entries : r \in Entry(n) /\ r.what = o
    BY <1>1, <1>2, <1>3, <1>5, <1>6, TargetFound
  <2>2. r.name = n /\ e.name = name
    BY <1>2, <2>1 DEF Entry
  <2> QED  BY <1>1, <1>2, <1>4, <2>1, <2>2
<1> QED  BY <1>1, <1>2, <1>3, <1>5, <1>6

\* So nothing else loses its last name.
LEMMA LostStep ==
  ASSUME NamesInv, TreeInv, RaceInv, [Next]_vars, acts' = acts, NEW o \in Named \ Named'
  PROVE  Losable(o)
<1>1. CASE UNCHANGED files
  BY <1>1 DEF files, Named
<1>2. CASE RenameAtOnce
  <2>1. SelectedName(fm) \in FileNames /\ fm.input \in FileNames /\ fm.input # SelectedName(fm)
    BY <1>2, RenameNames DEF RenameAtOnce
  <2> QED  BY <1>2, <2>1, MoveOverLoses DEF RenameAtOnce
<1>3. CASE Move
  <2>1. /\ call.stage = "move" /\ MoveOver(call.name, call.to)
        /\ call.name \in FileNames /\ call.to \in FileNames /\ call.name # call.to
    BY <1>3 DEF Move, NamesInv, NamedOK, Moving
  <2>2. o = Target(call.to) /\ o # 0
    BY <2>1, MoveOverLoses
  <2> QED  BY <2>1, <2>2 DEF RaceInv, Gone, Losable
<1>4. CASE Unlink
  <2>1. /\ call.stage = "unlink" /\ RemoveFile(call.name)
        /\ call.name \in FileNames /\ call.to \in FileNames /\ call.name # call.to
    BY <1>4 DEF Unlink, NamesInv, NamedOK, Moving
  <2>2. o = Target(call.name) /\ o # 0 /\ Target(call.to) # o
    BY <2>1, RemovedLoses
  <2> QED  BY <2>1, <2>2 DEF RaceInv, Gone, Losable
<1>5. CASE Undo
  <2>1. /\ call.stage = "undo" /\ RemoveFile(call.to) /\ call.to \in FileNames
        /\ call.made = 0 => call.name \in FileNames /\ call.name # call.to
    BY <1>5 DEF Undo, NamesInv, NamedOK, Moving
  <2>2. o = Target(call.to) /\ o # 0 /\ (call.made = 0 => Target(call.name) # o)
    BY <2>1, RemovedLoses
  <2> QED  BY <2>1, <2>2 DEF RaceInv, Gone, Losable
<1>6. CASE Link \/ MakeFolder \/ MakeFile
  BY <1>6 DEF Link, MakeFolder, MakeFile, Make, Named
<1>7. CASE Others
  BY <1>7, OtherKinds DEF RaceInv, NamesInv
<1> QED  BY <1>1, <1>2, <1>3, <1>4, <1>5, <1>6, <1>7, FilesSame DEF Others

-----------------------------------------------------------------------------
(***************************************************************************)
(* The list and the folder.                                                *)
(***************************************************************************)
\* The rows for some of the names in a folder, less those that were missed.
AllRows(folder, hidden, names) ==
  {Item(Up, "folder")} \cup
    {Item(n, kinds[Find(folder, n)]) : n \in {n \in names : hidden \/ n \notin Hidden}}

RowsOf(folder, hidden, names) ==
  {row \in AllRows(folder, hidden, names) : row.name \notin missed}

Listed  == fm.items = Sorted(RowsOf(Cwd, fm.hidden, NamesOf(Cwd)))
Without == fm.items = Sorted(RowsOf(Cwd, fm.hidden, NamesOf(Cwd) \ {call.to}))

\* If nobody else was at work the list is the folder's, less the names missed
\* and the one that a rename or creation has put there and may still take back.
ListInv ==
  current =>
    /\ call.stage \in {"idle", "link", "destination", "move"} => Listed
    /\ call.stage \in {"look", "open", "entries"} => missed = {}
    /\ call.stage = "entries" => Is(Cwd, "folder") /\ call.names = NamesOf(Cwd)
    /\ call.stage \in {"unlink", "undo"} => Without

\* The list of a folder has a row for each of its names.
LEMMA ListingIs ==
  ASSUME NEW folder, NEW hidden
  PROVE  ItemsOf(folder, hidden) = AllRows(folder, hidden, NamesOf(folder))
BY DEF ItemsOf, AllRows

\* The names in the folder are those that refer to something.
LEMMA NamesThere ==
  ASSUME NamesInv, TreeInv, Is(Cwd, "folder")
  PROVE  /\ NamesOf(Cwd) = {n \in FileNames : Target(n) # 0}
         /\ \A n \in FileNames : Target(n) = Find(Cwd, n)
<1>1. ASSUME NEW n \in NamesOf(Cwd) PROVE n \in FileNames /\ Target(n) # 0
  <2>1. PICK e \in entries : e.in = Cwd /\ e.name = n
    BY DEF NamesOf
  <2>2. n \in FileNames
    BY <2>1 DEF TreeInv, Entries
  <2>3. e \in Entry(n)
    BY <2>1 DEF Entry
  <2> QED  BY <2>2, <2>3, TargetFound
<1>2. ASSUME NEW n \in FileNames, Target(n) # 0 PROVE n \in NamesOf(Cwd)
  <2>1. PICK e \in entries : e \in Entry(n)
    BY <1>2, TargetFound
  <2> QED  BY <2>1 DEF Entry, NamesOf
<1>3. \A n \in FileNames : Target(n) = Find(Cwd, n)
  BY TargetRight DEF Inside
<1> QED  BY <1>1, <1>2, <1>3

\* A listing that nobody disturbs shows the folder.
LEMMA ShownListed ==
  ASSUME ViewInv, NamesInv, TreeInv, ListInv, current, ShowEntries
  PROVE  Listed'
<1>1. /\ fm'.items = Sorted(Shown(Looked \cup {Item(Up, "folder")}, fm.hidden))
      /\ fm'.cwd = fm.cwd /\ fm'.hidden = fm.hidden /\ UNCHANGED <<adapter, kinds, entries>>
      /\ Is(Cwd, "folder") /\ call.names = NamesOf(Cwd) /\ missed = {} /\ missed' = {}
  BY ShownRight DEF ListInv, files
<1>2. /\ call.names = {n \in FileNames : Target(n) # 0}
      /\ \A n \in FileNames : Target(n) = Find(Cwd, n)
  BY <1>1, NamesThere
<1>3. Looked = {Item(n, kinds[Find(Cwd, n)]) : n \in NamesOf(Cwd)}
  <2>1. {n \in call.names : Target(n) # 0} = NamesOf(Cwd)
    BY <1>1, <1>2
  <2>2. \A n \in NamesOf(Cwd) : Target(n) = Find(Cwd, n)
    BY <1>1, <1>2
  <2> QED  BY <2>1, <2>2 DEF Looked
<1>4. Shown(Looked \cup {Item(Up, "folder")}, fm.hidden) = RowsOf(Cwd, fm.hidden, NamesOf(Cwd))
  <2> DEFINE item(n) == Item(n, kinds[Find(Cwd, n)])
             names   == NamesOf(Cwd)
  <2>1. Up \notin Hidden /\ Item(Up, "folder").name = Up /\ \A n : item(n).name = n
    BY FileManagerAssumption DEF FileNames, Item
  <2>2. Looked = {item(n) : n \in names}
    BY <1>3
  <2>3. RowsOf(Cwd, fm.hidden, names) =
          {Item(Up, "folder")} \cup {item(n) : n \in {n \in names : fm.hidden \/ n \notin Hidden}}
    BY <1>1 DEF RowsOf, AllRows
  <2> HIDE DEF item, names
  <2>4. {i \in {item(n) : n \in names} : fm.hidden \/ i.name \notin Hidden} =
          {item(n) : n \in {n \in names : fm.hidden \/ n \notin Hidden}}
    BY <2>1
  <2>5. Shown(Looked \cup {Item(Up, "folder")}, fm.hidden) =
          {Item(Up, "folder")} \cup {item(n) : n \in {n \in names : fm.hidden \/ n \notin Hidden}}
    BY <2>1, <2>2, <2>4 DEF Shown
  <2> QED  BY <2>3, <2>5 DEF names
<1>5. Cwd' = Cwd
  <2>1. \A folder, name : Inside(folder, name)' = Inside(folder, name)
    BY <1>1 DEF Inside, Find, Is
  <2> QED  BY <1>1, <2>1 DEF Cwd, At, Way
<1>6. RowsOf(Cwd, fm.hidden, NamesOf(Cwd))' = RowsOf(Cwd, fm.hidden, NamesOf(Cwd))
  <2>1. NamesOf(Cwd)' = NamesOf(Cwd)
    BY <1>1, <1>5 DEF NamesOf
  <2>2. \A n : Item(n, kinds[Find(Cwd, n)])' = Item(n, kinds[Find(Cwd, n)])
    BY <1>1, <1>5 DEF Find, Item
  <2>3. PICK names, hidden : names = NamesOf(Cwd) /\ hidden = fm.hidden
    OBVIOUS
  <2>4. RowsOf(Cwd, hidden, names)' = RowsOf(Cwd, hidden, names)
    BY <1>1, <2>2 DEF RowsOf, AllRows
  <2> QED  BY <1>1, <1>5, <2>1, <2>3, <2>4
<1>7. fm'.items = Sorted(RowsOf(Cwd, fm.hidden, NamesOf(Cwd)))
  BY <1>1, <1>4
<1> QED  BY <1>5, <1>6, <1>7 DEF Listed

\* Another name leaves the rows of the names there are.
LEMMA RowsKept ==
  ASSUME KindsOK, KindsOK', \A o \in 1..Len(kinds) : kinds'[o] = kinds[o],
         NEW hidden, NEW names \in SUBSET FileNames, Cwd' = Cwd, missed' = missed,
         \A n \in names : /\ Target(n) \in 1..Len(kinds) /\ Target(n)' = Target(n)
                          /\ Target(n) = Find(Cwd, n) /\ Target(n)' = Find(Cwd, n)'
  PROVE  RowsOf(Cwd, hidden, names)' = RowsOf(Cwd, hidden, names)
<1>1. \A n \in names : Find(Cwd, n)' = Find(Cwd, n) /\ kinds'[Find(Cwd, n)] = kinds[Find(Cwd, n)]
  OBVIOUS
<1>2. \A n \in names : Item(n, kinds[Find(Cwd, n)])' = Item(n, kinds[Find(Cwd, n)])
  BY <1>1 DEF Item
<1> QED  BY <1>2 DEF RowsOf, AllRows

\* A name more in the folder, and it is all but that one that are listed.
LEMMA GivenListed ==
  ASSUME NamesInv, NamesInv', TreeInv, TreeInv', UNCHANGED <<adapter, fm, missed>>, KindsKept,
         \A o \in 1..Len(kinds) : kinds'[o] = kinds[o],
         NEW to \in FileNames, call'.to = to, Is(Cwd, "folder"), Target(to) = 0,
         NEW what \in 1..Len(kinds'), entries' = entries \cup {NewEntry(to, what)},
         Listed
  PROVE  Without'
<1>1. /\ Cwd' = Cwd /\ Is(Cwd, "folder")' /\ Target(to)' = what
      /\ \A n \in FileNames : Target(n) = Find(Cwd, n) /\ Target(n)' = Find(Cwd, n)'
      /\ \A n \in FileNames \ {to} : Target(n)' = Target(n)
  BY NameGiven
<1>2. PICK names, hidden : names = NamesOf(Cwd) /\ hidden = fm.hidden
  OBVIOUS
<1>3. names = {n \in FileNames : Target(n) # 0} /\ to \notin names
  BY <1>2, NamesThere
<1>4. names = NamesOf(Cwd)' \ {to}
  BY <1>1, <1>2, <1>3 DEF NamesOf, NewEntry
<1>5. \A n \in names : Target(n) \in 1..Len(kinds)
  BY <1>3, TargetFound
<1>6. RowsOf(Cwd, hidden, names)' = RowsOf(Cwd, hidden, names)
  BY <1>1, <1>3, <1>5, RowsKept DEF NamesInv
<1>7. fm.items = Sorted(RowsOf(Cwd, hidden, names))
  BY <1>2 DEF Listed
<1>8. RowsOf(Cwd, fm.hidden, NamesOf(Cwd) \ {call.to})' = RowsOf(Cwd, hidden, names)'
  BY <1>2, <1>4
<1> QED  BY <1>1, <1>6, <1>7, <1>8 DEF Without

\* The name that is taken back is the one that was not listed.
LEMMA TakenListed ==
  ASSUME NamesInv, NamesInv', TreeInv, TreeInv', UNCHANGED <<adapter, kinds, missed>>,
         fm'.cwd = fm.cwd, fm'.items = fm.items, fm'.hidden = fm.hidden,
         NEW to \in FileNames, call.to = to, Is(Target(to), "file"),
         entries' = entries \ Entry(to), Without
  PROVE  Listed'
<1>0. Is(Cwd, "folder")
  BY TargetFound DEF Is
<1>1. KindsOK /\ KindsOK' /\ KindsKept /\ \A o \in 1..Len(kinds) : kinds'[o] = kinds[o]
  BY KindsStay DEF NamesInv
<1>2. /\ ~Is(Target(to), "folder")
      /\ \A d : ~(d.in = Cwd /\ d.name = to) => (d \in entries' <=> d \in entries)
  BY DEF Is, Entry
<1>3. /\ Cwd' = Cwd /\ Is(Cwd, "folder")'
      /\ \A n \in FileNames : Target(n) = Find(Cwd, n) /\ Target(n)' = Find(Cwd, n)'
      /\ \A n \in FileNames \ {to} : Target(n)' = Target(n)
  BY <1>0, <1>1, <1>2, OneName
<1>4. PICK names, hidden : names = NamesOf(Cwd) \ {to} /\ hidden = fm.hidden
  OBVIOUS
<1>5. \A n \in names : n \in FileNames /\ n # to /\ Target(n) \in 1..Len(kinds)
  BY <1>0, <1>4, NamesThere, TargetFound
<1>6. names = NamesOf(Cwd)'
  BY <1>3, <1>4 DEF NamesOf, Entry
<1>7. RowsOf(Cwd, hidden, names)' = RowsOf(Cwd, hidden, names)
  BY <1>1, <1>3, <1>5, RowsKept
<1>8. fm.items = Sorted(RowsOf(Cwd, hidden, names))
  BY <1>4 DEF Without
<1>9. RowsOf(Cwd, fm.hidden, NamesOf(Cwd))' = RowsOf(Cwd, hidden, names)'
  BY <1>4, <1>6
<1> QED  BY <1>3, <1>7, <1>8, <1>9 DEF Listed

\* Steps that change no folder and not which one is listed, nor the list.
LEMMA ListStays ==
  ASSUME UNCHANGED <<adapter, kinds, entries, missed>>,
         fm'.cwd = fm.cwd, fm'.items = fm.items, fm'.hidden = fm.hidden
  PROVE  /\ Is(Cwd, "folder")' <=> Is(Cwd, "folder")
         /\ Listed' <=> Listed
         /\ NamesOf(Cwd)' = NamesOf(Cwd)
         /\ call'.to = call.to => (Without' <=> Without)
<1>1. Cwd' = Cwd
  BY DEF Cwd, At, Way, Inside, Find, Is
<1>2. NamesOf(Cwd)' = NamesOf(Cwd)
  BY <1>1 DEF NamesOf
<1>4. Is(Cwd, "folder")' <=> Is(Cwd, "folder")
  BY <1>1 DEF Is
<1>5. RowsOf(Cwd, fm.hidden, NamesOf(Cwd))' = RowsOf(Cwd, fm.hidden, NamesOf(Cwd))
  BY <1>1, <1>2 DEF RowsOf, AllRows, Find
<1>6. call'.to = call.to =>
        RowsOf(Cwd, fm.hidden, NamesOf(Cwd) \ {call.to})' =
          RowsOf(Cwd, fm.hidden, NamesOf(Cwd) \ {call.to})
  BY <1>1, <1>2 DEF RowsOf, AllRows, Find
<1> QED  BY <1>2, <1>4, <1>5, <1>6 DEF Listed, Without

\* The list is not looked at while it is read, nor when others were at work.
LEMMA ListOff ==
  ASSUME (call'.stage \in {"look", "open"} /\ missed' = {}) \/ ~current'
  PROVE  ListInv'
BY DEF ListInv

\* A name that is not taken back is the one that the list lacks.
LEMMA LeftListed ==
  ASSUME ViewInv, NamesInv, call.to \in FileNames, UndoFails, Without
  PROVE  Listed'
<1>1. /\ UNCHANGED <<adapter, kinds, entries>> /\ missed' = missed \cup {call.to}
      /\ fm'.cwd = fm.cwd /\ fm'.items = fm.items /\ fm'.hidden = fm.hidden
  BY DEF UndoFails, Fail, Stop, files, ViewInv, FmOK
<1>2. Cwd' = Cwd
  BY <1>1 DEF Cwd, At, Way, Inside, Find, Is
<1>3. NamesOf(Cwd)' = NamesOf(Cwd) /\ \A n : Find(Cwd, n)' = Find(Cwd, n)
  BY <1>1, <1>2 DEF NamesOf, Find
<1> DEFINE names   == NamesOf(Cwd)
           item(n) == Item(n, kinds[Find(Cwd, n)])
           S       == {n \in names : fm.hidden \/ n \notin Hidden}
           R       == {n \in names \ {call.to} : fm.hidden \/ n \notin Hidden}
<1>4. AllRows(Cwd, fm.hidden, NamesOf(Cwd))' = {Item(Up, "folder")} \cup {item(n) : n \in S}
  BY <1>1, <1>2, <1>3 DEF AllRows
<1>5. AllRows(Cwd, fm.hidden, names \ {call.to}) = {Item(Up, "folder")} \cup {item(n) : n \in R}
  BY DEF AllRows
<1>6. R = S \ {call.to} /\ Item(Up, "folder").name = Up /\ (\A n : item(n).name = n)
  BY DEF Item
<1> HIDE DEF item, R, S, names
<1>7. {row \in {Item(Up, "folder")} \cup {item(n) : n \in S} : row.name \notin missed \cup {call.to}}
        = {row \in {Item(Up, "folder")} \cup {item(n) : n \in R} : row.name \notin missed}
  BY <1>6 DEF FileNames
<1>8. RowsOf(Cwd, fm.hidden, NamesOf(Cwd))' = RowsOf(Cwd, fm.hidden, names \ {call.to})
  BY <1>1, <1>4, <1>5, <1>7 DEF RowsOf
<1> QED  BY <1>1, <1>8 DEF Listed, Without, names

\* A list that could not be read is empty.
LEMMA NoneListed ==
  ASSUME ViewInv, TreeInv', ListFails
  PROVE  Listed'
<1>1. fm'.items = <<>> /\ missed' = ToSet(Order)
  BY DEF ListFails, Fail, Stop, ViewInv, FmOK, CallOK
<1>2. NamesOf(Cwd)' \subseteq FileNames
  BY DEF NamesOf, TreeInv, Entries
<1>3. ASSUME NEW row \in AllRows(Cwd, fm.hidden, NamesOf(Cwd))' PROVE row.name \in ToSet(Order)
  BY <1>2, <1>3, FileManagerAssumption DEF AllRows, Item, FileNames
<1>4. RowsOf(Cwd, fm.hidden, NamesOf(Cwd))' = {}
  BY <1>1, <1>3 DEF RowsOf
<1>5. Sorted({}) = <<>>
  BY FS_EmptySet DEF Sorted
<1> QED  BY <1>1, <1>4, <1>5 DEF Listed

\* An error or an end of a call changes no list.
LEMMA ListEnds ==
  ASSUME ViewInv, UNCHANGED <<files, missed>>, Fail, Listed
  PROVE  ListInv'
<1>1. /\ UNCHANGED <<adapter, kinds, entries>> /\ call'.stage = "idle"
      /\ fm'.cwd = fm.cwd /\ fm'.items = fm.items /\ fm'.hidden = fm.hidden
  BY DEF Fail, Stop, NoCall, files, ViewInv, FmOK
<1> QED  BY <1>1, ListStays DEF ListInv

\* The keys that read nothing leave the list and its folder alone.
LEMMA KeysKeepList ==
  ASSUME ViewInv,
         \/ Cancel \/ MoveSelection \/ (\E text \in FileNames \cup {None} : Type(text))
         \/ (\E mode \in {"rename", "folder", "file"} : StartPrompt(mode))
  PROVE  fm'.cwd = fm.cwd /\ fm'.items = fm.items /\ fm'.hidden = fm.hidden
<1>1. FmOK(fm) /\ Fields(fm)
  BY DEF ViewInv, FmOK, Fields
<1>2. CASE Cancel
  BY <1>1, <1>2 DEF Cancel, Closed, Fields
<1>3. CASE MoveSelection
  <2>1. PICK to : fm' = ClampView([fm EXCEPT !.selected = to])
    BY <1>3, Zenon DEF MoveSelection
  <2> DEFINE f == [fm EXCEPT !.selected = to]
  <2>2. SameRest(fm, f)
    BY <1>1, SelectRest
  <2> HIDE DEF f
  <2>3. SameRest(f, fm')
    BY <2>1, <2>2, ClampRest DEF SameRest, f
  <2> QED  BY <2>2, <2>3 DEF SameRest
<1>4. CASE \E text \in FileNames \cup {None} : Type(text)
  BY <1>1, <1>4 DEF Type, Fields
<1>5. CASE \E mode \in {"rename", "folder", "file"} : StartPrompt(mode)
  <2>1. PICK mode : StartPrompt(mode)
    BY <1>5
  <2>2. \/ fm' = [fm EXCEPT !.error = TRUE]
        \/ \E text : fm' = [fm EXCEPT !.prompt = mode, !.input = text, !.error = FALSE]
    BY <2>1 DEF StartPrompt
  <2> QED  BY <1>1, <2>2 DEF Fields
<1> QED  BY <1>2, <1>3, <1>4, <1>5

\* Every step keeps the list as it should be.
LEMMA ListingStep ==
  ASSUME ViewInv, NamesInv, NamesInv', TreeInv, TreeInv', ListInv, [Next]_vars
  PROVE  ListInv'
<1>0. ASSUME NEW f, NEW preserve, NEW to, Reload(f, preserve, to) PROVE ListInv'
  BY <1>0, ListOff DEF Reload, NoCall
<1>1. CASE PosixList \/ WinList \/ DosList
  <2>1. CASE LookAtFolder
    BY <2>1 DEF LookAtFolder, world, ViewInv, CallOK, ListInv
  <2>2. CASE ReadNames
    <3>1. /\ UNCHANGED <<adapter, kinds, entries, fm, current, missed>> /\ Is(Cwd, "folder")
          /\ call.stage = "open" /\ call'.stage = "entries" /\ call'.names = NamesOf(Cwd)
      BY <2>2 DEF ReadNames, files, world, ViewInv, CallOK
    <3> QED  BY <3>1, ListStays DEF ListInv
  <2>3. CASE ShowEntries
    <3>1. call'.stage = "idle" /\ UNCHANGED current
      BY <2>3, ShownRight DEF NoCall
    <3> QED  BY <2>3, <3>1, ShownListed DEF ListInv
  <2>4. CASE ListFails
    <3>1. call'.stage = "idle"
      BY <2>4 DEF ListFails, Fail, Stop, NoCall
    <3> QED  BY <2>4, <3>1, NoneListed DEF ListInv
  <2> QED  BY <1>1, <2>1, <2>2, <2>3, <2>4 DEF PosixList, WinList, DosList
<1>2. CASE NativeRename \/ WinRename \/ PortableRename \/ DosRename \/ Undo \/ UndoFails
  <2>1. ASSUME NEW name, NEW to, MoveOver(name, to) PROVE ListInv'
    BY <1>0, <2>1 DEF MoveOver, Done
  <2>2. ASSUME NEW next \in {"link", "destination"}, LookAtSource(next) PROVE ListInv'
    <3>1. /\ UNCHANGED <<adapter, kinds, entries, fm, current, missed>> /\ call.stage = "idle"
          /\ call'.stage = next
      BY <2>2 DEF LookAtSource, Commits, Idle, Goto, NoCall, files, world
    <3> QED  BY <3>1, ListStays DEF ListInv
  <2>3. CASE LookAtDestination
    <3>1. /\ UNCHANGED <<adapter, kinds, entries, fm, current, missed>> /\ call.stage = "destination"
          /\ call'.stage = "move"
      BY <2>3 DEF LookAtDestination, Goto, NoCall, files, world
    <3> QED  BY <3>1, ListStays DEF ListInv
  <2>4. CASE Link
    <3>1. /\ call.stage = "link" /\ Is(Target(call.name), "file") /\ Target(call.to) = 0
          /\ entries' = entries \cup {NewEntry(call.to, Target(call.name))}
          /\ UNCHANGED <<adapter, fm, kinds, current, missed>>
          /\ call'.stage = "unlink" /\ call'.to = call.to
      BY <2>4 DEF Link, Goto, NoCall, world
    <3>2. call.name \in FileNames /\ call.to \in FileNames /\ KindsOK
      BY <3>1 DEF NamesInv, NamedOK, Moving
    <3>3. KindsKept /\ Is(Cwd, "folder") /\ Target(call.name) \in 1..Len(kinds')
      BY <3>1, <3>2, TargetFound, KindsStay DEF Is
    <3>4. PICK to \in FileNames, what \in 1..Len(kinds') : to = call.to /\ what = Target(call.name)
      BY <3>2, <3>3
    <3>5. current => Listed
      BY <3>1 DEF ListInv
    <3>6. current => Without'
      BY <3>1, <3>3, <3>4, <3>5, GivenListed
    <3> QED  BY <3>1, <3>6 DEF ListInv
  <2>5. CASE Unlink
    BY <1>0, <2>5 DEF Unlink, Done
  <2>6. CASE UnlinkFails
    <3>1. /\ UNCHANGED <<adapter, kinds, entries, fm, current, missed>> /\ call.stage = "unlink"
          /\ call'.stage = "undo" /\ call'.to = call.to
      BY <2>6 DEF UnlinkFails, Goto, NoCall, files, world
    <3> QED  BY <3>1, ListStays DEF ListInv
  <2>7. CASE Undo
    <3>1. /\ call.stage = "undo" /\ Is(Target(call.to), "file")
          /\ entries' = entries \ Entry(call.to)
          /\ UNCHANGED <<adapter, kinds, current, missed>> /\ call'.stage = "idle"
          /\ fm'.cwd = fm.cwd /\ fm'.items = fm.items /\ fm'.hidden = fm.hidden
      BY <2>7 DEF Undo, RemoveFile, Fail, Stop, NoCall, ViewInv, FmOK
    <3>2. PICK to \in FileNames : to = call.to
      BY <3>1 DEF NamesInv, NamedOK
    <3>3. current => Without
      BY <3>1 DEF ListInv
    <3>4. current => Listed'
      BY <3>1, <3>2, <3>3, TakenListed
    <3> QED  BY <3>1, <3>4 DEF ListInv
  <2>8. CASE UndoFails
    <3>1. call.stage = "undo" /\ call'.stage = "idle" /\ current' = current
      BY <2>8 DEF UndoFails, Fail, Stop, NoCall
    <3>2. call.to \in FileNames
      BY <3>1 DEF NamesInv, NamedOK
    <3> QED  BY <2>8, <3>1, <3>2, LeftListed DEF ListInv
  <2>9. CASE RenameFails
    <3>1. call.stage \in {"link", "destination", "move"} /\ Fail /\ UNCHANGED <<files, current, missed>>
      BY <2>9 DEF RenameFails
    <3> QED  BY <3>1, ListEnds, ListOff DEF ListInv
  <2> QED  BY <1>2, <2>1, <2>2, <2>3, <2>4, <2>5, <2>6, <2>7, <2>8, <2>9
           DEF NativeRename, WinRename, RenameAtOnce, PortableRename, DosRename, Move
<1>3. CASE MakeFolder \/ MakeFile
  <2>1. CASE Done(fm.input)
    BY <1>0, <2>1 DEF Done
  <2>2. CASE MakeFile /\ Goto("undo", None, fm.input, Len(kinds'))
    <3>1. /\ Target(fm.input) = 0 /\ Is(Cwd, "folder") /\ kinds' = Append(kinds, "file")
          /\ entries' = entries \cup {NewEntry(fm.input, Len(kinds'))}
          /\ UNCHANGED <<adapter, fm, current, missed>> /\ call.stage = "idle"
          /\ call'.stage = "undo" /\ call'.to = fm.input
      BY <2>2 DEF MakeFile, Make, Commits, Idle, Goto, NoCall, world
    <3>2. fm.input \in FileNames /\ KindsOK
      BY <2>2 DEF MakeFile, Commits, NamesInv, PromptOK
    <3>3. /\ KindsKept /\ \A o \in 1..Len(kinds) : kinds'[o] = kinds[o]
          /\ Len(kinds') \in 1..Len(kinds')
      BY <3>1, <3>2, KindsRight, KindsStay DEF KindsOK
    <3>4. PICK to \in FileNames, what \in 1..Len(kinds') : to = fm.input /\ what = Len(kinds')
      BY <3>2, <3>3
    <3>5. current => Listed
      BY <3>1 DEF ListInv
    <3>6. current => Without'
      BY <3>1, <3>3, <3>4, <3>5, GivenListed
    <3> QED  BY <3>1, <3>6 DEF ListInv
  <2> QED  BY <1>3, <2>1, <2>2 DEF MakeFolder, MakeFile
<1>4. CASE OtherMakes \/ OtherRemoves \/ OtherRenames
  BY <1>4, OtherKinds, ListOff DEF NamesInv, Others
<1>5. CASE UNCHANGED vars
  <2>1. UNCHANGED <<adapter, kinds, entries, fm, call, current, missed>>
    BY <1>5 DEF vars, files, world
  <2> QED  BY <2>1, ListStays DEF ListInv
<1>6. CASE Cancel \/ MoveSelection \/ (\E text \in FileNames \cup {None} : Type(text))
            \/ (\E mode \in {"rename", "folder", "file"} : StartPrompt(mode))
  <2>1. /\ UNCHANGED <<adapter, kinds, entries, call, current, missed>> /\ call.stage = "idle"
    BY <1>6 DEF Cancel, MoveSelection, Type, StartPrompt, Browsing, Idle, files, world
  <2>2. fm'.cwd = fm.cwd /\ fm'.items = fm.items /\ fm'.hidden = fm.hidden
    BY <1>6, KeysKeepList
  <2> QED  BY <2>1, <2>2, ListStays DEF ListInv
<1>7. CASE KeyFails
  <2>1. call.stage = "idle" /\ Fail /\ UNCHANGED <<files, current, missed>>
    BY <1>7 DEF KeyFails, Idle
  <2> QED  BY <2>1, ListEnds, ListOff DEF ListInv
<1>8. CASE GoUp \/ Refresh \/ ToggleHidden \/ EnterFolder
  BY <1>0, <1>8 DEF GoUp, Refresh, ToggleHidden, EnterFolder
<1> QED  BY <1>1, <1>2, <1>3, <1>4, <1>5, <1>6, <1>7, <1>8 DEF Next

\* The first state: some items in a folder the program has listed.
LEMMA StartTree ==
  ASSUME Init
  PROVE  NamesInv /\ TreeInv /\ kinds[1] = "folder"
<1>1. PICK items \in Firsts :
        /\ kinds = <<"folder">> \o [i \in DOMAIN items |-> items[i].kind]
        /\ entries = {[in |-> 1, name |-> items[i].name, what |-> i + 1] : i \in DOMAIN items}
  BY DEF Init
<1>2. /\ items \in Seq([name : FileNames, kind : {"file", "folder"}])
      /\ \A i, j \in DOMAIN items : items[i].name = items[j].name => i = j
  BY FileManagerAssumption
<1> DEFINE kind == [i \in DOMAIN items |-> items[i].kind]
           L    == Len(items)
<1>3. L \in Nat /\ DOMAIN items = 1..L
  BY <1>2
<1>0. \A i \in 1..L : items[i].name \in FileNames /\ items[i].kind \in {"file", "folder"}
  <2> DEFINE I == [name : FileNames, kind : {"file", "folder"}]
  <2>1. items \in Seq(I)
    BY <1>2
  <2> HIDE DEF I
  <2>2. \A i \in 1..L : items[i] \in I
    BY <2>1, ElementOfSeq
  <2> QED  BY <2>2 DEF I
<1>4. kind \in Seq({"file", "folder"}) /\ Len(kind) = L
  <2>1. kind \in [1..L -> {"file", "folder"}]
    BY <1>0, <1>3
  <2> HIDE DEF kind, L
  <2> QED  BY <1>3, <2>1
<1>5. KindsOK /\ Len(kinds) = L + 1 /\ kinds[1] = "folder"
  <2> HIDE DEF kind
  <2>1. kinds = <<"folder">> \o kind
    BY <1>1 DEF kind
  <2> QED  BY <1>3, <1>4, <2>1 DEF KindsOK
<1>6. NamesInv
  <2>1. PICK cwd \in Starts[adapter] : fm.cwd = cwd /\ fm.input = None /\ fm.prompt = "none"
    BY DEF Init
  <2>2. call.stage = "idle" /\ adapter \in Adapters
    BY DEF Init, NoCall
  <2>3. cwd \in Seq(STRING) /\ Rooted(adapter, cwd)
    BY <2>1, <2>2, FileManagerAssumption
  <2>4. cwd \in Seq(Text)
    BY <2>3 DEF Text
  <2>5. Proper(adapter, fm.cwd)
    BY <2>1, <2>3, <2>4 DEF Proper
  <2> QED  BY <1>5, <2>1, <2>2, <2>5 DEF NamesInv, PromptOK, NamedOK, Reading, Moving
<1>7. TreeInv
  <2>1. ASSUME NEW i \in 1..L
        PROVE  [in |-> 1, name |-> items[i].name, what |-> i + 1] \in Entries(L + 1)
    <3>1. 1 \in 1..(L + 1) /\ i + 1 \in 1..(L + 1) /\ items[i].name \in FileNames
      BY <1>0, <1>3
    <3> HIDE DEF L
    <3> QED  BY <3>1 DEF Entries
  <2>2. entries \subseteq Entries(Len(kinds))
    BY <1>1, <1>3, <1>5, <2>1
  <2>3. \A e, d \in entries : e.in = d.in /\ e.name = d.name => e = d
    BY <1>1, <1>2
  <2> QED  BY <2>2, <2>3 DEF TreeInv
<1> QED  BY <1>5, <1>6, <1>7

\* It has a path with nothing to follow.
LEMMA StartFolder ==
  ASSUME Init
  PROVE  Cwd = 1
<1> DEFINE p == fm.cwd
           L == Len(p)
           S == {i \in 0..L : Way(p)[i] = 1}
<1>1. PICK cwd \in Starts[adapter] : fm.cwd = cwd
  BY DEF Init
<1>2. p \in Seq(STRING) /\ \A i \in (RootEnd(adapter, p) + 1)..L : ~IsName(p[i])
  BY <1>1, FileManagerAssumption DEF Init
<1>3. L \in Nat /\ Proper(adapter, p)
  BY <1>2, StartTree DEF NamesInv, PromptOK
<1>4. RightWay(p, Way(p))
  BY <1>3, WayRight DEF WaysRight
<1>5. \A i \in 1..L : Skipped(adapter, p, i)
  <2>1. RootEnd(adapter, p) \in 0..L
    BY <1>3, RootEndRight DEF Proper
  <2> HIDE DEF p, L
  <2>2. \A i \in 1..L : i <= RootEnd(adapter, p) \/ i \in (RootEnd(adapter, p) + 1)..L
    BY <1>3, <2>1
  <2> QED  BY <1>2, <2>2 DEF Skipped
<1>6. 0 \in S
  BY <1>3, <1>4 DEF RightWay
<1>7. ASSUME NEW n \in 0..L, n < L, n \in S PROVE n + 1 \in S
  <2>1. PICK m \in 1..L : m = n + 1 /\ m - 1 = n
    BY <1>3, <1>7
  <2>2. Way(p)[m] = Way(p)[n]
    BY <1>4, <1>5, <2>1 DEF RightWay
  <2> QED  BY <1>3, <1>7, <2>1, <2>2
<1> HIDE DEF S, L, p
<1>8. 0..L \subseteq S
  BY <1>3, <1>6, <1>7, Stepwise
<1>9. Way(p)[L] = 1
  BY <1>3, <1>8 DEF S
<1> QED  BY <1>9 DEF Cwd, At, p, L

\* It has been listed, and nothing runs.
LEMMA StartList ==
  ASSUME Init
  PROVE  ListInv /\ RaceInv
<1>1. call.stage = "idle" /\ acts = 0
  BY DEF Init, NoCall
<1>3. Listed
  <2>1. fm.items = Sorted(ItemsOf(1, FALSE)) /\ fm.hidden = FALSE /\ missed = {}
    BY DEF Init
  <2>2. ItemsOf(1, FALSE) = RowsOf(Cwd, fm.hidden, NamesOf(Cwd))
    BY <2>1, StartFolder, ListingIs DEF RowsOf
  <2> QED  BY <2>1, <2>2 DEF Listed
<1> QED  BY <1>1, <1>3 DEF ListInv, RaceInv

(***************************************************************************)
(* The invariant of the folders: the path of the File Manager is one its   *)
(* adapter can follow, a call has the names it is about, entries are of a  *)
(* folder and of something that exists, and no two of a folder have the    *)
(* same name.                                                              *)
(***************************************************************************)
THEOREM FoldersInductive == Spec => [](NamesInv /\ TreeInv)
<1>1. Init => NamesInv /\ TreeInv
  BY StartTree
<1>2. ViewInv /\ ViewInv' /\ NamesInv /\ TreeInv /\ [Next]_vars => NamesInv' /\ TreeInv'
  BY NamesStep, TreeStep
<1> QED  BY <1>1, <1>2, ViewInductive, PTL DEF Spec

(***************************************************************************)
(* The invariant of the calls: unless the way to the folder was led        *)
(* elsewhere, what the next call replaces or removes has another name, is  *)
(* the new file, or was touched by other programs since the call began;    *)
(* and the list is the folder's while nobody else was at work, less what   *)
(* failures of the program itself have left out.                           *)
(***************************************************************************)
THEOREM RacesInductive == Spec => [](RaceInv /\ ListInv)
<1>1. Init => RaceInv /\ ListInv
  BY StartList
<1>2. /\ ViewInv /\ NamesInv /\ NamesInv' /\ TreeInv /\ TreeInv'
      /\ RaceInv /\ ListInv /\ [Next]_vars
      => RaceInv' /\ ListInv'
  BY RaceStep, ListingStep
<1> QED  BY <1>1, <1>2, ViewInductive, FoldersInductive, PTL DEF Spec

(***************************************************************************)
(* While no call runs the rows are those of the folder, in their order,    *)
(* unless another program was at work since it was listed: retro_fs_list,  *)
(* fm_reload and the error paths of every rename and creation, for any     *)
(* folder and any number of entries.  All that failures of the program     *)
(* leave out is the whole list, if it could not be read, and a name that   *)
(* could not be taken back.                                                *)
(***************************************************************************)
THEOREM ListIsFolder == Spec => []ShowsFolder
<1>1. ListInv => ShowsFolder
  <2> SUFFICES ASSUME ListInv, current, Idle
               PROVE  fm.items = Sorted({item \in ItemsOf(Cwd, fm.hidden) : item.name \notin missed})
    BY DEF ShowsFolder
  <2>1. Listed
    BY DEF ListInv, Idle
  <2>2. ItemsOf(Cwd, fm.hidden) = AllRows(Cwd, fm.hidden, NamesOf(Cwd))
    BY ListingIs
  <2>3. {item \in ItemsOf(Cwd, fm.hidden) : item.name \notin missed}
          = RowsOf(Cwd, fm.hidden, NamesOf(Cwd))
    BY <2>2 DEF RowsOf
  <2> QED  BY <2>1, <2>3 DEF Listed
<1> QED  BY <1>1, RacesInductive, PTL

Loses == acts' = acts => \A o \in Named \ Named' :
           \/ o = call.made
           \/ (o \in touched \/ Diverted) /\ call.stage \in {"move", "unlink", "undo"}

(***************************************************************************)
(* The File Manager takes nothing's last name but what others changed      *)
(* during the call, or led it to, or the new file it takes back: the       *)
(* check and rename of the DOS and portable adapters, the link and unlink  *)
(* of the portable one, and what undoes half of them, between any acts of  *)
(* any other programs.                                                     *)
(***************************************************************************)
THEOREM NothingIsLost == Spec => NothingLost
<1>1. NamesInv /\ TreeInv /\ RaceInv /\ [Next]_vars => [Loses]_entries
  <2> SUFFICES ASSUME NamesInv, TreeInv, RaceInv, [Next]_vars, acts' = acts,
                      NEW o \in Named \ Named'
               PROVE  Losable(o)
    BY DEF Losable, Loses
  <2> QED  BY LostStep
<1> QED  BY <1>1, FoldersInductive, RacesInductive, PTL DEF Spec, NothingLost, Loses

\* From every modelled form of path the way back is the way there.
LEMMA FormsGoBack == GoesBackFromForms
<1> SUFFICES ASSUME NEW a \in DOMAIN Forms, NEW n \in FileNames, NEW m \in FileNames,
                    NEW path \in Forms[a]
             PROVE  GoesBack(a, path, n) /\ GoesBack(a, Join(a, path, n), m)
  BY DEF GoesBackFromForms
<1>1. path \in Seq(STRING) /\ Rooted(a, path)
  BY FileManagerAssumption
<1>2. path \in Seq(Text)
  BY <1>1 DEF Text
<1>3. Proper(a, path)
  BY <1>1, <1>2 DEF Proper
<1>4. Proper(a, Join(a, path, n))
  BY <1>3, ProperPaths
<1> QED  BY <1>3, <1>4, ProperGoesBack

(***************************************************************************)
(* Entering a folder and going up again leads back to the same folder, in  *)
(* every adapter, from every path the File Manager gets to and every       *)
(* modelled form of path it may start from (those that are Rooted):        *)
(* path_join and path_parent of POSIX, Windows and DOS, with drives,       *)
(* network shares, relative paths and any number of separators at the end. *)
(***************************************************************************)
THEOREM WayBackIsRight == Spec => []RoundTrip
<1>1. NamesInv => RoundTrip
  <2>1. NamesInv => \A n \in FileNames : GoesBack(adapter, fm.cwd, n)
    BY ProperGoesBack DEF NamesInv, PromptOK
  <2> QED  BY <2>1, FormsGoBack DEF RoundTrip
<1> QED  BY <1>1, FoldersInductive, PTL
=============================================================================
