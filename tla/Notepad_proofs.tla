--------------------------- MODULE Notepad_proofs ---------------------------
(***************************************************************************)
(* Theorems about Notepad, for all texts, sizes and limits.                *)
(***************************************************************************)
EXTENDS Notepad, SequenceTheorems, NaturalsInduction, WellFoundedInduction, TLAPS

(***************************************************************************)
(* Whatever the comparison came to, dirty is true of a text that differs   *)
(* from the saved one.                                                     *)
(***************************************************************************)
LEMMA RefreshRight ==
  ASSUME RefreshDirty, saved' = saved
  PROVE  text' # saved' => dirty'
<1>1. PICK compared \in Allocates : dirty' = (compared => text' # saved)
  BY DEF RefreshDirty
<1>2. compared \in BOOLEAN
  BY DEF Allocates
<1> QED BY <1>1, <1>2

LEMMA ChangedRight ==
  ASSUME NEW captured, Changed(captured)
  PROVE  DirtyKnown'
BY RefreshRight DEF Changed, DirtyKnown

LEMMA NotChangedRight ==
  ASSUME DirtyKnown, NEW captured, NotChanged(captured)
  PROVE  DirtyKnown'
BY DEF NotChanged, DirtyKnown

LEMMA ManualEditRight ==
  ASSUME DirtyKnown, NEW texts, ManualEdit(texts)
  PROVE  DirtyKnown'
BY ChangedRight, NotChangedRight DEF ManualEdit

LEMMA RestoreRight ==
  ASSUME DirtyKnown, NEW from, NEW to, NEW from1, NEW to1,
         Restore(from, to, from1, to1)
  PROVE  DirtyKnown'
<1>1. CASE RefreshDirty /\ saved' = saved
  BY <1>1, RefreshRight DEF DirtyKnown
<1>2. CASE UNCHANGED doc
  BY <1>2 DEF DirtyKnown, doc
<1> QED BY <1>1, <1>2 DEF Restore

(***************************************************************************)
(* Unsaved work is known: np_refresh_dirty and np_set_saved_snapshot keep  *)
(* dirty a comparison with the saved text through keys, cut, paste, undo   *)
(* and redo, whatever fails; only the discard in the prompt sets it aside. *)
(***************************************************************************)
THEOREM DirtyCorrect == Spec => []DirtyKnown
<1>1. Init => DirtyKnown
  BY DEF Init, DirtyKnown
<1>2. ASSUME DirtyKnown, [Next]_vars
      PROVE  DirtyKnown'
  <2>1. CASE EditorKey
    BY <1>2, <2>1, ChangedRight, NotChangedRight DEF EditorKey
  <2>2. CASE Cut
    BY <1>2, <2>2, ManualEditRight DEF Cut
  <2>3. CASE Paste
    BY <1>2, <2>3, ManualEditRight DEF Paste
  <2>4. CASE Undo
    BY <1>2, <2>4, RestoreRight DEF Undo
  <2>5. CASE Redo
    BY <1>2, <2>5, RestoreRight DEF Redo
  <2>6. CASE MovementKey
    BY <1>2, <2>6 DEF MovementKey, DirtyKnown
  <2>7. CASE Save
    BY <2>7 DEF Save, DirtyKnown
  <2>8. CASE Discard
    BY <2>8 DEF Discard, DirtyKnown
  <2>9. CASE Memory \/ UNCHANGED vars
    BY <1>2, <2>9 DEF Memory, vars, doc, DirtyKnown
  <2> QED BY <1>2, <2>1, <2>2, <2>3, <2>4, <2>5, <2>6, <2>7, <2>8, <2>9 DEF Next
<1> QED BY <1>1, <1>2, PTL DEF Spec

-----------------------------------------------------------------------------
(***************************************************************************)
(* Induction over the natural numbers, with a set for the predicate.       *)
(***************************************************************************)
\* Of some numbers one is the least.
LEMMA LeastExists ==
  ASSUME NEW S \in SUBSET Nat, S # {}
  PROVE  \E x \in S : \A y \in S : x <= y
<1> DEFINE R == OpToRel(<, Nat)
<1>1. \A x, y \in Nat : x < y => <<x, y>> \in R
  BY DEF OpToRel
<1>2. IsWellFoundedOn(R, Nat)
  BY NatLessThanWellFounded, Zenon
<1> HIDE DEF R
<1>3. PICK x \in S : \A y \in S : ~(<<y, x>> \in R)
  BY <1>2, WFMin
<1>4. ASSUME NEW y \in S PROVE x <= y
  <2>1. x \in Nat /\ y \in Nat /\ ~(y < x)
    BY <1>1, <1>3
  <2> QED  BY <2>1
<1> QED  BY <1>4

\* What is true at 0 and passes from each number to the next is true of all.
LEMMA Stepwise ==
  ASSUME NEW N \in Nat, NEW S, 0 \in S,
         \A n \in 0..N : n < N /\ n \in S => n + 1 \in S
  PROVE  0..N \subseteq S
<1> DEFINE Rest == {n \in 0..N : n \notin S}
<1> SUFFICES ASSUME Rest # {} PROVE FALSE
  OBVIOUS
<1>1. Rest \in SUBSET Nat
  OBVIOUS
<1>2. PICK x \in Rest : \A y \in Rest : x <= y
  BY <1>1, LeastExists
<1>3. x \in 0..N /\ x # 0
  BY <1>2
<1>4. x - 1 \in 0..N /\ x - 1 < N /\ x - 1 + 1 = x /\ ~(x <= x - 1)
  BY <1>3
<1>5. x - 1 \in S
  BY <1>2, <1>4
<1>6. x \in S
  BY <1>4, <1>5
<1> QED  BY <1>2, <1>6

-----------------------------------------------------------------------------
(***************************************************************************)
(* The bytes of the entries of a stack: sums(n) of the first n.            *)
(***************************************************************************)
Entry == [text : Text, cursor : Place]

Sums(f, s) ==
  /\ f \in [0..Len(s) -> Nat] /\ f[0] = 0
  /\ \A n \in 1..Len(s) : f[n] = f[n - 1] + Size[s[n].text]

\* Entries have sizes.
LEMMA SizeRight ==
  ASSUME NEW e \in Entry
  PROVE  Size[e.text] \in Nat
BY NotepadAssumption DEF Entry

\* Any sequence of entries has such sums.
LEMMA SumsExist ==
  ASSUME NEW s \in Seq(Entry)
  PROVE  \E f : Sums(f, s)
<1> DEFINE L == Len(s)
           Upto(f, n) == /\ f \in [0..n -> Nat] /\ f[0] = 0
                         /\ \A m \in 1..n : f[m] = f[m - 1] + Size[s[m].text]
           S == {n \in 0..L : \E f : Upto(f, n)}
<1>1. L \in Nat
  OBVIOUS
<1>2. 0 \in S
  <2>1. Upto([m \in 0..0 |-> 0], 0) /\ 0 \in 0..L
    BY <1>1
  <2> HIDE DEF Upto, L
  <2> QED  BY <2>1
<1>3. ASSUME NEW n \in 0..L, n < L, n \in S PROVE n + 1 \in S
  <2>1. PICK f : Upto(f, n)
    BY <1>3
  <2>2. n \in Nat /\ n + 1 \in 1..L /\ n + 1 \in 0..L
    BY <1>1, <1>3
  <2>3. Size[s[n + 1].text] \in Nat
    BY <2>2, SizeRight
  <2> DEFINE g == [m \in 0..(n + 1) |-> IF m = n + 1 THEN f[n] + Size[s[n + 1].text] ELSE f[m]]
  <2>4. g \in [0..(n + 1) -> Nat]
    BY <2>1, <2>2, <2>3
  <2>5. g[0] = 0
    BY <2>1, <2>2
  <2>6. ASSUME NEW m \in 1..(n + 1) PROVE g[m] = g[m - 1] + Size[s[m].text]
    <3>1. CASE m = n + 1
      BY <2>2, <3>1
    <3>2. CASE m # n + 1
      <4>1. m \in 1..n /\ m - 1 \in 0..n /\ m \in 0..n
        BY <2>2, <3>2
      <4> QED  BY <2>1, <2>2, <4>1
    <3> QED  BY <3>1, <3>2
  <2>7. Upto(g, n + 1)
    <3> HIDE DEF g
    <3> QED  BY <2>4, <2>5, <2>6
  <2> QED  BY <2>2, <2>7
<1>4. L \in S
  <2> HIDE DEF S, L
  <2>1. 0..L \subseteq S
    BY <1>1, <1>2, <1>3, Stepwise
  <2> QED  BY <1>1, <2>1
<1> QED  BY <1>4 DEF Sums

\* Total is the last of them.
LEMMA TotalIsSum ==
  ASSUME NEW s \in Seq(Entry), NEW f, Sums(f, s)
  PROVE  Promise!Total(s) = f[Len(s)]
<1> DEFINE L == Len(s)
           Fixed(h) == h = [n \in 0..L |-> IF n = 0 THEN 0 ELSE h[n - 1] + Size[s[n].text]]
           h == CHOOSE h : Fixed(h)
<1>1. Promise!Total(s) = h[L]
  BY DEF Promise!Total
<1>2. L \in Nat
  OBVIOUS
<1>3. Fixed(f)
  <2> DEFINE g == [n \in 0..L |-> IF n = 0 THEN 0 ELSE f[n - 1] + Size[s[n].text]]
  <2>1. \A n \in 0..L : f[n] = g[n]
    BY <1>2 DEF Sums
  <2>2. f = [n \in 0..L |-> f[n]]
    BY DEF Sums
  <2> QED  BY <2>1, <2>2
<1>4. Fixed(h)
  BY <1>3
<1> HIDE DEF h
<1> DEFINE S == {n \in 0..L : h[n] = f[n]}
<1>5. 0 \in S
  <2>1. h[0] = 0
    BY <1>2, <1>4
  <2> QED  BY <1>2, <2>1 DEF Sums
<1>6. ASSUME NEW n \in 0..L, n < L, n \in S PROVE n + 1 \in S
  <2>1. n + 1 \in 0..L /\ n + 1 \in 1..L /\ n + 1 # 0 /\ n + 1 - 1 = n
    BY <1>2, <1>6
  <2>2. h[n + 1] = h[n] + Size[s[n + 1].text]
    BY <1>4, <2>1
  <2>3. f[n + 1] = f[n] + Size[s[n + 1].text]
    BY <2>1 DEF Sums
  <2> QED  BY <1>6, <2>1, <2>2, <2>3
<1>7. L \in S
  <2> HIDE DEF S, L
  <2>1. 0..L \subseteq S
    BY <1>2, <1>5, <1>6, Stepwise
  <2> QED  BY <1>2, <2>1
<1> QED  BY <1>1, <1>7

\* The total of entries is a number, and that of none is 0.
LEMMA TotalRight ==
  ASSUME NEW s \in Seq(Entry)
  PROVE  Promise!Total(s) \in Nat /\ (s = <<>> => Promise!Total(s) = 0)
<1>1. PICK f : Sums(f, s)
  BY SumsExist
<1>2. Promise!Total(s) = f[Len(s)] /\ Len(s) \in 0..Len(s)
  BY <1>1, TotalIsSum
<1> QED  BY <1>1, <1>2 DEF Sums

\* One more entry adds its size.
LEMMA TotalAppend ==
  ASSUME NEW s \in Seq(Entry), NEW e \in Entry
  PROVE  Promise!Total(Append(s, e)) = Promise!Total(s) + Size[e.text]
<1> DEFINE L == Len(s)
           t == Append(s, e)
<1>1. PICK f : Sums(f, s)
  BY SumsExist
<1>2. /\ L \in Nat /\ t \in Seq(Entry) /\ Len(t) = L + 1 /\ t[L + 1] = e
      /\ \A n \in 1..L : t[n] = s[n]
  BY AppendProperties
<1>3. Size[e.text] \in Nat
  BY SizeRight
<1> DEFINE g == [n \in 0..(L + 1) |-> IF n = L + 1 THEN f[L] + Size[e.text] ELSE f[n]]
<1>4. Sums(g, t)
  <2> HIDE DEF t
  <2>1. g \in [0..Len(t) -> Nat] /\ g[0] = 0
    BY <1>1, <1>2, <1>3 DEF Sums
  <2>2. ASSUME NEW n \in 1..Len(t) PROVE g[n] = g[n - 1] + Size[t[n].text]
    <3>1. CASE n = L + 1
      BY <1>2, <3>1
    <3>2. CASE n # L + 1
      <4>1. n \in 1..L /\ n \in 0..(L + 1) /\ n - 1 \in 0..(L + 1) /\ n - 1 # L + 1
        BY <1>2, <3>2
      <4>2. g[n] = f[n] /\ g[n - 1] = f[n - 1] /\ t[n] = s[n]
        BY <1>2, <3>2, <4>1
      <4>3. f[n] = f[n - 1] + Size[s[n].text]
        BY <1>1, <4>1 DEF Sums
      <4> QED  BY <4>2, <4>3
    <3> QED  BY <3>1, <3>2
  <2> HIDE DEF g
  <2> QED  BY <2>1, <2>2 DEF Sums
<1>5. g[L + 1] = f[L] + Size[e.text]
  BY <1>2
<1> HIDE DEF g, t
<1>6. Promise!Total(t) = g[L + 1]
  BY <1>2, <1>4, TotalIsSum
<1>7. Promise!Total(s) = f[L]
  BY <1>1, TotalIsSum
<1> QED  BY <1>5, <1>6, <1>7 DEF t

\* One less at the front takes its size away.
LEMMA TotalTail ==
  ASSUME NEW s \in Seq(Entry), s # <<>>
  PROVE  Promise!Total(s) = Size[Head(s).text] + Promise!Total(Tail(s))
<1> DEFINE L == Len(s)
           t == Tail(s)
<1>1. /\ L \in Nat \ {0} /\ t \in Seq(Entry) /\ Len(t) = L - 1
      /\ Head(s) \in Entry /\ Head(s) = s[1]
      /\ \A n \in 1..(L - 1) : t[n] = s[n + 1]
  BY HeadTailProperties, EmptySeq
<1>2. Size[s[1].text] \in Nat
  BY <1>1, SizeRight
<1> HIDE DEF t
<1>3. PICK f : Sums(f, t)
  BY <1>1, SumsExist
<1> DEFINE g == [n \in 0..L |-> IF n = 0 THEN 0 ELSE Size[s[1].text] + f[n - 1]]
<1>4. Sums(g, s)
  <2>1. g \in [0..L -> Nat] /\ g[0] = 0
    BY <1>1, <1>2, <1>3 DEF Sums
  <2>2. ASSUME NEW n \in 1..L PROVE g[n] = g[n - 1] + Size[s[n].text]
    <3>1. CASE n = 1
      BY <1>1, <1>2, <1>3, <3>1 DEF Sums
    <3>2. CASE n # 1
      <4>1. n - 1 \in 1..Len(t) /\ n - 1 \in 1..(L - 1) /\ n - 1 + 1 = n
        BY <1>1, <3>2
      <4>2. f[n - 1] = f[n - 1 - 1] + Size[s[n].text]
        BY <1>1, <1>3, <4>1 DEF Sums
      <4>3. /\ f[n - 1 - 1] \in Nat /\ n \in 0..L /\ n - 1 \in 0..L /\ n - 1 # 0 /\ n # 0
            /\ Size[s[n].text] \in Nat
        <5>1. Size[s[n].text] \in Nat
          BY <1>1, SizeRight
        <5>2. n - 1 - 1 \in 0..Len(t) /\ n \in 0..L /\ n - 1 \in 0..L /\ n - 1 # 0 /\ n # 0
          BY <1>1, <4>1
        <5> QED  BY <1>3, <5>1, <5>2 DEF Sums
      <4>4. g[n] = Size[s[1].text] + f[n - 1] /\ g[n - 1] = Size[s[1].text] + f[n - 1 - 1]
        BY <4>3
      <4> HIDE DEF g
      <4> QED  BY <1>2, <4>2, <4>3, <4>4
    <3> QED  BY <3>1, <3>2
  <2> HIDE DEF g
  <2> QED  BY <2>1, <2>2 DEF Sums
<1>5. g[L] = Size[s[1].text] + f[L - 1]
  BY <1>1
<1> HIDE DEF g
<1>6. Promise!Total(s) = g[L] /\ Promise!Total(t) = f[L - 1]
  BY <1>1, <1>3, <1>4, TotalIsSum
<1> QED  BY <1>1, <1>5, <1>6 DEF t

-----------------------------------------------------------------------------
(***************************************************************************)
(* Stacks.                                                                 *)
(***************************************************************************)
StackOf(s)  == [entries |-> s, bytes |-> Promise!Total(s)]
Since(s, n) == SubSeq(s, n + 1, Len(s))

\* What is left of a stack when its oldest entries are dropped.
LEMMA SinceRight ==
  ASSUME NEW s \in Seq(Entry), NEW n \in 0..Len(s)
  PROVE  /\ Since(s, n) \in Seq(Entry) /\ Len(Since(s, n)) = Len(s) - n
         /\ \A i \in 1..(Len(s) - n) : Since(s, n)[i] = s[n + i]
         /\ n < Len(s) => /\ Since(s, n) # <<>>
                          /\ Tail(Since(s, n)) = Since(s, n + 1)
<1> DEFINE L == Len(s)
<1>1. L \in Nat /\ n \in Nat /\ n + 1 \in Int /\ L \in Int
  OBVIOUS
<1>2. \A i \in (n + 1)..L : s[i] \in Entry
  BY <1>1
<1>3. /\ Since(s, n) \in Seq(Entry)
      /\ Len(Since(s, n)) = (IF n + 1 <= L THEN L - (n + 1) + 1 ELSE 0)
      /\ \A i \in 1..(L - (n + 1) + 1) : Since(s, n)[i] = s[n + 1 + i - 1]
  BY <1>1, <1>2, SubSeqProperties DEF Since
<1>4. Len(Since(s, n)) = L - n
  BY <1>1, <1>3
<1>5. \A i \in 1..(L - n) : Since(s, n)[i] = s[n + i]
  BY <1>1, <1>3
<1>6. ASSUME n < L PROVE Since(s, n) # <<>> /\ Tail(Since(s, n)) = Since(s, n + 1)
  <2>1. n + 1 \in 1..Len(s) /\ L \in (n + 1)..Len(s)
    BY <1>1, <1>6
  <2>2. Tail(Since(s, n)) = SubSeq(s, n + 1 + 1, L)
    BY <2>1, HeadTailOfSubSeq DEF Since
  <2>3. Since(s, n) # <<>>
    BY <1>1, <1>3, <1>4, <1>6, EmptySeq
  <2> QED  BY <2>2, <2>3 DEF Since
<1> QED  BY <1>3, <1>4, <1>5, <1>6

\* Nothing or everything may be dropped.
LEMMA SinceEnds ==
  ASSUME NEW s \in Seq(Entry)
  PROVE  Since(s, 0) = s /\ Since(s, Len(s)) = <<>>
<1>1. Len(s) \in Nat /\ Len(s) < Len(s) + 1 /\ Len(s) + 1 \in Int /\ Len(s) \in Int /\ 0 + 1 = 1
  OBVIOUS
<1>2. SubSeq(s, 1, Len(s)) = s
  BY SubSeqFull
<1>3. SubSeq(s, Len(s) + 1, Len(s)) = <<>>
  BY <1>1, SubSeqEmpty
<1> QED  BY <1>1, <1>2, <1>3 DEF Since

\* Dropping the oldest entry takes its bytes away.
LEMMA DropRight ==
  ASSUME NEW s \in Seq(Entry), s # <<>>
  PROVE  DropOldest(StackOf(s)) = StackOf(Tail(s))
<1>1. /\ Head(s) \in Entry /\ Tail(s) \in Seq(Entry)
      /\ Promise!Total(s) = Size[Head(s).text] + Promise!Total(Tail(s))
  BY TotalTail, HeadTailProperties
<1>2. Size[Head(s).text] \in Nat /\ Promise!Total(Tail(s)) \in Nat
  BY <1>1, SizeRight, TotalRight
<1>3. StackOf(s).entries = s /\ StackOf(s).bytes = Promise!Total(s)
  BY DEF StackOf
<1>4. Less(StackOf(s), Head(s)) = Promise!Total(Tail(s))
  BY <1>1, <1>2, <1>3 DEF Less
<1> QED  BY <1>3, <1>4 DEF DropOldest, StackOf

\* A sequence is its front and its last.
LEMMA FrontLast ==
  ASSUME NEW s \in Seq(Entry), s # <<>>
  PROVE  /\ Front(s) \in Seq(Entry) /\ Last(s) \in Entry /\ Len(Front(s)) = Len(s) - 1
         /\ s = Append(Front(s), Last(s))
<1>1. PICK t \in Seq(Entry), e \in Entry : s = Append(t, e)
  BY SequenceEmptyOrAppend
<1>2. /\ Len(s) = Len(t) + 1 /\ s[Len(t) + 1] = e /\ Len(t) \in Nat
      /\ \A i \in 1..Len(t) : s[i] = t[i]
  BY <1>1, AppendProperties
<1>3. Last(s) = e
  BY <1>2 DEF Last
<1>4. Front(s) = SubSeq(s, 1, Len(t))
  BY <1>2 DEF Front
<1>5. /\ Front(s) \in Seq(Entry) /\ Len(Front(s)) = Len(t)
      /\ \A i \in 1..Len(t) : Front(s)[i] = t[i]
  <2>1. 1 \in Int /\ Len(t) \in Int /\ \A i \in 1..Len(t) : s[i] \in Entry
    BY <1>2
  <2>2. /\ Front(s) \in Seq(Entry)
        /\ Len(Front(s)) = (IF 1 <= Len(t) THEN Len(t) - 1 + 1 ELSE 0)
        /\ \A i \in 1..(Len(t) - 1 + 1) : Front(s)[i] = s[1 + i - 1]
    BY <1>4, <2>1, SubSeqProperties
  <2>3. Len(Front(s)) = Len(t)
    BY <1>2, <2>2
  <2>4. \A i \in 1..Len(t) : Front(s)[i] = t[i]
    BY <1>2, <2>2
  <2> QED  BY <2>2, <2>3, <2>4
<1>6. Front(s) = t
  BY <1>5, SeqEqual
<1> QED  BY <1>1, <1>2, <1>3, <1>5, <1>6

\* Taking the newest entry takes its bytes away.
LEMMA PopRight ==
  ASSUME NEW s \in Seq(Entry), s # <<>>
  PROVE  Pop(StackOf(s)) = StackOf(Front(s))
<1>1. Front(s) \in Seq(Entry) /\ Last(s) \in Entry /\ s = Append(Front(s), Last(s))
  BY FrontLast
<1>2. Promise!Total(s) = Promise!Total(Front(s)) + Size[Last(s).text]
  BY <1>1, TotalAppend
<1>3. Size[Last(s).text] \in Nat /\ Promise!Total(Front(s)) \in Nat
  BY <1>1, SizeRight, TotalRight
<1>4. StackOf(s).entries = s /\ StackOf(s).bytes = Promise!Total(s)
  BY DEF StackOf
<1>5. Less(StackOf(s), Last(s)) = Promise!Total(Front(s))
  BY <1>2, <1>3, <1>4 DEF Less
<1> QED  BY <1>4, <1>5 DEF Pop, StackOf

\* A stack is full when it would not fit with one entry more.
LEMMA FullRight ==
  ASSUME NEW s \in Seq(Entry), NEW e \in Entry
  PROVE  Full(StackOf(s), e) <=> ~Promise!Fits(Append(s, e))
<1>1. /\ Len(Append(s, e)) = Len(s) + 1 /\ Len(s) \in Nat
      /\ Promise!Total(Append(s, e)) = Promise!Total(s) + Size[e.text]
      /\ Promise!Total(s) \in Nat /\ Size[e.text] \in Nat
  BY AppendProperties, TotalAppend, TotalRight, SizeRight
<1>2. StackOf(s).entries = s /\ StackOf(s).bytes = Promise!Total(s)
  BY DEF StackOf
<1>3. MaxStates \in Nat /\ MaxBytes \in Nat
  BY NotepadAssumption
<1> QED  BY <1>1, <1>2, <1>3 DEF Full, Promise!Fits

\* The number of entries to drop for another: the least that makes room.
Drops(s, e, n) ==
  /\ n \in 0..Len(s) /\ Promise!Fits(Append(Since(s, n), e))
  /\ \A m \in 0..(n - 1) : ~Promise!Fits(Append(Since(s, m), e))

\* There is one: an empty stack has room for any entry that is not too large.
LEMMA DropsExist ==
  ASSUME NEW s \in Seq(Entry), NEW e \in Entry, Size[e.text] <= MaxBytes
  PROVE  \E n : Drops(s, e, n)
<1> DEFINE S == {n \in 0..Len(s) : Promise!Fits(Append(Since(s, n), e))}
<1>1. Promise!Fits(Append(<<>>, e))
  <2>1. /\ <<>> \in Seq(Entry) /\ Len(<<>>) = 0 /\ Len(Append(<<>>, e)) = Len(<<>>) + 1
        /\ Promise!Total(Append(<<>>, e)) = Promise!Total(<<>>) + Size[e.text]
        /\ Promise!Total(<<>>) = 0 /\ Size[e.text] \in Nat
    BY EmptySeq, AppendProperties, TotalAppend, TotalRight, SizeRight
  <2> QED  BY <2>1, NotepadAssumption DEF Promise!Fits
<1>2. Len(s) \in S
  <2>1. Since(s, Len(s)) = <<>> /\ Len(s) \in 0..Len(s)
    BY SinceEnds
  <2> QED  BY <1>1, <2>1
<1>3. S \in SUBSET Nat
  OBVIOUS
<1>4. PICK n \in S : \A m \in S : n <= m
  BY <1>2, <1>3, LeastExists
<1>5. \A m \in 0..(n - 1) : m \in 0..Len(s) /\ ~(n <= m)
  BY <1>4
<1> QED  BY <1>4, <1>5 DEF Drops

\* Only one.
LEMMA DropsUnique ==
  ASSUME NEW s \in Seq(Entry), NEW e, NEW n, Drops(s, e, n), NEW m, Drops(s, e, m)
  PROVE  m = n
<1>1. n \in Nat /\ m \in Nat
  BY DEF Drops
<1>2. ~(m < n) /\ ~(n < m)
  BY <1>1 DEF Drops
<1> QED  BY <1>1, <1>2

\* The loop of np_history_stack_push ends, and drops no more than it must.
LEMMA RoomRight ==
  ASSUME NEW s \in Seq(Entry), NEW e \in Entry, NEW n, Drops(s, e, n)
  PROVE  Room(StackOf(s), e) = StackOf(Since(s, n))
<1> DEFINE L == Len(s)
           Fixed(h) == h = [k \in 0..L |-> IF k = 0 THEN StackOf(s) ELSE DropOldest(h[k - 1])]
           h == CHOOSE h : Fixed(h)
           g == [k \in 0..L |-> StackOf(Since(s, k))]
           Chosen(k) == ~Full(h[k], e) /\ \A m \in 0..(k - 1) : Full(h[m], e)
<1>1. L \in Nat /\ StackOf(s).entries = s
  BY DEF StackOf
<1>2. Room(StackOf(s), e) = h[CHOOSE k \in DOMAIN h : Chosen(k)]
  BY <1>1 DEF Room
<1>3. ASSUME NEW k \in 0..L, k # 0
      PROVE  StackOf(Since(s, k)) = DropOldest(StackOf(Since(s, k - 1)))
  <2>1. k - 1 \in 0..L /\ k - 1 < L /\ k - 1 + 1 = k
    BY <1>1, <1>3
  <2>2. /\ Since(s, k - 1) \in Seq(Entry) /\ Since(s, k - 1) # <<>>
        /\ Tail(Since(s, k - 1)) = Since(s, k)
    BY <2>1, SinceRight
  <2> QED  BY <2>2, DropRight
<1>4. Fixed(g)
  <2> DEFINE r == [k \in 0..L |-> IF k = 0 THEN StackOf(s) ELSE DropOldest(g[k - 1])]
  <2>1. ASSUME NEW k \in 0..L PROVE g[k] = r[k]
    <3>1. CASE k = 0
      BY <1>1, <3>1, SinceEnds
    <3>2. CASE k # 0
      <4>1. k - 1 \in 0..L
        BY <1>1, <3>2
      <4> QED  BY <1>3, <3>2, <4>1
    <3> QED  BY <3>1, <3>2
  <2>2. g = [k \in 0..L |-> g[k]] /\ r = [k \in 0..L |-> r[k]]
    OBVIOUS
  <2>3. g = r
    <3> HIDE DEF g, r
    <3> QED  BY <2>1, <2>2
  <2> QED  BY <2>3
<1>5. Fixed(h)
  <2> HIDE DEF Fixed, g
  <2> QED  BY <1>4
<1> HIDE DEF h
<1>6. \A k \in 0..L : h[k] = StackOf(Since(s, k))
  <2> DEFINE S == {k \in 0..L : h[k] = StackOf(Since(s, k))}
  <2>1. 0 \in S
    BY <1>1, <1>5, SinceEnds
  <2>2. ASSUME NEW k \in 0..L, k < L, k \in S PROVE k + 1 \in S
    <3>1. k + 1 \in 0..L /\ k + 1 # 0 /\ k + 1 - 1 = k
      BY <1>1, <2>2
    <3>2. h[k + 1] = DropOldest(h[k])
      BY <1>5, <3>1
    <3> QED  BY <1>3, <2>2, <3>1, <3>2
  <2> HIDE DEF S, L
  <2>3. 0..L \subseteq S
    BY <1>1, <2>1, <2>2, Stepwise
  <2> QED  BY <2>3 DEF S
<1>7. DOMAIN h = 0..L
  BY <1>5
<1> HIDE DEF Fixed
<1>8. ASSUME NEW k \in 0..L PROVE Full(h[k], e) <=> ~Promise!Fits(Append(Since(s, k), e))
  <2>1. Since(s, k) \in Seq(Entry)
    BY SinceRight
  <2> QED  BY <1>6, <2>1, FullRight
<1>9. ASSUME NEW k \in 0..L PROVE Chosen(k) <=> Drops(s, e, k)
  <2>1. \A m \in 0..(k - 1) : m \in 0..L
    BY <1>1
  <2> QED  BY <1>8, <2>1 DEF Drops
<1> HIDE DEF Chosen
<1>10. n \in 0..L /\ Chosen(n)
  BY <1>9 DEF Drops
<1>11. \A k \in 0..L : Chosen(k) => k = n
  BY <1>9, DropsUnique
<1>12. (CHOOSE k \in DOMAIN h : Chosen(k)) = n
  BY <1>7, <1>10, <1>11
<1> QED  BY <1>2, <1>6, <1>10, <1>12

\* What is left after a push, of the entries and the new one, are the newest
\* that fit.
LEMMA NewestRight ==
  ASSUME NEW s \in Seq(Entry), NEW e \in Entry, NEW n, Drops(s, e, n)
  PROVE  Promise!Newest(Append(s, e)) = Append(Since(s, n), e)
<1> DEFINE L == Len(s)
           t == Append(s, e)
           From(k) == SubSeq(t, k, Len(t))
           FitsFrom(k) == Promise!Fits(From(k))
           Chosen(k) == FitsFrom(k) /\ \A j \in 1..(k - 1) : ~FitsFrom(j)
<1>1. /\ L \in Nat /\ t \in Seq(Entry) /\ Len(t) = L + 1 /\ t[L + 1] = e
      /\ \A i \in 1..L : t[i] = s[i]
  BY AppendProperties
<1>2. Promise!Newest(t) = From(CHOOSE k \in 1..(Len(t) + 1) : Chosen(k))
  BY DEF Promise!Newest
<1> HIDE DEF t
<1>3. ASSUME NEW k \in 0..L PROVE From(k + 1) = Append(Since(s, k), e)
  <2>1. /\ k \in Nat /\ k + 1 \in Int /\ L + 1 \in Int /\ k + 1 <= L + 1
        /\ \A i \in (k + 1)..(L + 1) : t[i] \in Entry
    BY <1>1
  <2>2. /\ From(k + 1) \in Seq(Entry) /\ Len(From(k + 1)) = L + 1 - (k + 1) + 1
        /\ \A i \in 1..(L + 1 - (k + 1) + 1) : From(k + 1)[i] = t[k + 1 + i - 1]
    BY <1>1, <2>1, SubSeqProperties
  <2> DEFINE u == Since(s, k)
             v == Append(u, e)
  <2>3. u \in Seq(Entry) /\ Len(u) = L - k /\ \A i \in 1..(L - k) : u[i] = s[k + i]
    BY SinceRight
  <2> HIDE DEF u
  <2>4. /\ v \in Seq(Entry) /\ Len(v) = L - k + 1 /\ v[L - k + 1] = e
        /\ \A i \in 1..(L - k) : v[i] = u[i]
    BY <2>3, AppendProperties
  <2> HIDE DEF v, From
  <2>5. Len(From(k + 1)) = Len(v)
    BY <1>1, <2>1, <2>2, <2>4
  <2>6. ASSUME NEW i \in 1..Len(v) PROVE From(k + 1)[i] = v[i]
    <3>1. From(k + 1)[i] = t[k + i]
      <4>1. i \in 1..(L + 1 - (k + 1) + 1) /\ k + 1 + i - 1 = k + i
        BY <1>1, <2>1, <2>4
      <4> HIDE DEF L
      <4> QED  BY <2>2, <4>1
    <3>2. CASE i = L - k + 1
      <4>1. k + i = L + 1
        BY <1>1, <2>1, <3>2
      <4> QED  BY <1>1, <2>4, <3>1, <3>2, <4>1
    <3>3. CASE i # L - k + 1
      <4>1. i \in 1..(L - k) /\ k + i \in 1..L
        BY <1>1, <2>1, <2>4, <3>3
      <4> QED  BY <1>1, <2>3, <2>4, <3>1, <4>1
    <3> QED  BY <3>2, <3>3
  <2>7. From(k + 1) = v
    BY <2>2, <2>4, <2>5, <2>6, SeqEqual
  <2> QED  BY <2>7 DEF u, v
<1> HIDE DEF From
<1>4. n + 1 \in 1..(Len(t) + 1) /\ n \in 0..L
  BY <1>1 DEF Drops
<1>5. Chosen(n + 1)
  <2>1. FitsFrom(n + 1)
    BY <1>3, <1>4 DEF Drops
  <2>2. ASSUME NEW j \in 1..((n + 1) - 1) PROVE ~FitsFrom(j)
    <3>1. j - 1 \in 0..(n - 1) /\ j - 1 \in 0..L /\ j - 1 + 1 = j
      BY <1>1, <1>4
    <3> QED  BY <1>3, <3>1 DEF Drops
  <2> HIDE DEF FitsFrom
  <2> QED  BY <2>1, <2>2
<1> HIDE DEF FitsFrom
<1>6. ASSUME NEW k \in 1..(Len(t) + 1), Chosen(k) PROVE k = n + 1
  <2>1. ~(n + 1 < k)
    <3> SUFFICES ASSUME n + 1 < k PROVE FALSE
      OBVIOUS
    <3>1. n + 1 \in 1..(k - 1)
      BY <1>1, <1>4
    <3> QED  BY <1>5, <1>6, <3>1
  <2>2. ~(k < n + 1)
    <3> SUFFICES ASSUME k < n + 1 PROVE FALSE
      OBVIOUS
    <3>1. k \in 1..((n + 1) - 1)
      BY <1>1, <1>4
    <3> QED  BY <1>5, <1>6, <3>1
  <2> QED  BY <1>1, <1>4, <2>1, <2>2
<1> HIDE DEF Chosen
<1>7. (CHOOSE k \in 1..(Len(t) + 1) : Chosen(k)) = n + 1
  BY <1>4, <1>5, <1>6
<1> QED  BY <1>2, <1>3, <1>4, <1>7 DEF t

\* So a push keeps the newest entries that fit, and counts their bytes.
LEMMA PushRight ==
  ASSUME NEW s \in Seq(Entry), NEW e \in Entry, Size[e.text] <= MaxBytes
  PROVE  /\ Push(StackOf(s), e) = StackOf(Promise!Newest(Append(s, e)))
         /\ Promise!Newest(Append(s, e)) \in Seq(Entry)
         /\ Promise!Fits(Promise!Newest(Append(s, e)))
         /\ Promise!Fits(Append(s, e)) => Promise!Newest(Append(s, e)) = Append(s, e)
<1>1. PICK n : Drops(s, e, n)
  BY DropsExist
<1> DEFINE u == Since(s, n)
<1>2. Room(StackOf(s), e) = StackOf(u) /\ Promise!Newest(Append(s, e)) = Append(u, e)
  BY <1>1, RoomRight, NewestRight
<1>3. n \in 0..Len(s) /\ Promise!Fits(Append(u, e))
  BY <1>1 DEF Drops
<1>4. u \in Seq(Entry) /\ Append(u, e) \in Seq(Entry)
  BY <1>3, SinceRight, AppendProperties
<1>5. ASSUME Promise!Fits(Append(s, e)) PROVE u = s
  <2>1. n = 0
    <3>1. Promise!Fits(Append(Since(s, 0), e))
      BY <1>5, SinceEnds
    <3> QED  BY <1>1, <3>1 DEF Drops
  <2> QED  BY <2>1, SinceEnds
<1> HIDE DEF u
<1>6. Push(StackOf(s), e) = [entries |-> Append(u, e), bytes |-> Promise!Total(u) + Size[e.text]]
  <2>1. ~(Size[e.text] > MaxBytes)
    BY SizeRight, NotepadAssumption
  <2>2. StackOf(u).entries = u /\ StackOf(u).bytes = Promise!Total(u)
    BY DEF StackOf
  <2> QED  BY <1>2, <2>1, <2>2 DEF Push
<1>7. Push(StackOf(s), e) = StackOf(Append(u, e))
  BY <1>4, <1>6, TotalAppend DEF StackOf
<1> QED  BY <1>2, <1>3, <1>4, <1>5, <1>7

-----------------------------------------------------------------------------
(***************************************************************************)
(* The invariant of the history, and the promise of undo and redo.         *)
(***************************************************************************)
StackOK(stack) ==
  /\ stack.entries \in Seq(Entry) /\ stack = StackOf(stack.entries)
  /\ Promise!Fits(stack.entries)

HistoryInv ==
  /\ text \in Text /\ cursor \in Place /\ scarce \in BOOLEAN
  /\ StackOK(undo) /\ StackOK(redo)

\* A stack without entries.
LEMMA EmptyRight == StackOK(Empty) /\ Empty.entries = <<>>
<1>1. <<>> \in Seq(Entry) /\ Len(<<>>) = 0 /\ Promise!Total(<<>>) = 0
  <2>1. <<>> \in Seq(Entry) /\ Len(<<>>) = 0
    BY EmptySeq
  <2>2. Promise!Total(<<>>) = 0
    BY <2>1, TotalRight
  <2> QED  BY <2>1, <2>2
<1>2. Empty = StackOf(<<>>) /\ StackOf(<<>>).entries = <<>>
  BY <1>1 DEF Empty, StackOf
<1>3. Promise!Fits(<<>>)
  BY <1>1, NotepadAssumption DEF Promise!Fits
<1> QED  BY <1>1, <1>2, <1>3 DEF StackOK

\* What a push makes of a stack.
LEMMA PushOK ==
  ASSUME NEW stack, StackOK(stack), NEW e \in Entry, Size[e.text] <= MaxBytes
  PROVE  /\ StackOK(Push(stack, e))
         /\ Push(stack, e).entries = Promise!Newest(Append(stack.entries, e))
<1> DEFINE s == stack.entries
           u == Promise!Newest(Append(s, e))
<1>1. s \in Seq(Entry) /\ stack = StackOf(s)
  BY DEF StackOK
<1>2. Push(stack, e) = StackOf(u) /\ u \in Seq(Entry) /\ Promise!Fits(u)
  BY <1>1, PushRight
<1> HIDE DEF u
<1>3. StackOf(u).entries = u
  BY DEF StackOf
<1> QED  BY <1>2, <1>3 DEF StackOK, u

\* What a pop makes of it, and that the entry may be put back.
LEMMA PopOK ==
  ASSUME NEW stack, StackOK(stack), stack.entries # <<>>
  PROVE  LET e == Last(stack.entries)
         IN  /\ StackOK(Pop(stack)) /\ Pop(stack).entries = Front(stack.entries)
             /\ e \in Entry /\ Size[e.text] <= MaxBytes
             /\ Push(Pop(stack), e) = stack
<1> DEFINE s == stack.entries
           f == Front(s)
           e == Last(s)
<1>1. s \in Seq(Entry) /\ stack = StackOf(s) /\ Promise!Fits(s)
  BY DEF StackOK
<1>2. /\ f \in Seq(Entry) /\ e \in Entry /\ Len(f) = Len(s) - 1 /\ s = Append(f, e)
      /\ Pop(StackOf(s)) = StackOf(f)
  BY <1>1, FrontLast, PopRight
<1> HIDE DEF f, e, s
<1>3. Promise!Total(s) = Promise!Total(f) + Size[e.text]
  BY <1>2, TotalAppend
<1>4. Promise!Total(f) \in Nat /\ Size[e.text] \in Nat /\ Len(s) \in Nat
  BY <1>1, <1>2, TotalRight, SizeRight
<1>5. Promise!Fits(f) /\ Size[e.text] <= MaxBytes
  BY <1>1, <1>2, <1>3, <1>4, NotepadAssumption DEF Promise!Fits
<1>6. StackOf(f).entries = f
  BY DEF StackOf
<1>7. Push(StackOf(f), e) = StackOf(s)
  BY <1>1, <1>2, <1>5, PushRight
<1> QED  BY <1>1, <1>2, <1>5, <1>6, <1>7 DEF StackOK, f, e, s

\* What one copy of the document may come to.
LEMMA CapturesRight ==
  ASSUME NEW captured \in Captures
  PROVE  /\ captured \in BOOLEAN
         /\ captured => Size[text] <= MaxBytes
         /\ ~captured => scarce \/ ~(Size[text] <= MaxBytes)
<1>1. PICK got \in Allocates : captured = (got /\ Size[text] <= MaxBytes)
  BY DEF Captures
<1>2. got \in BOOLEAN /\ (~got => scarce)
  BY DEF Allocates
<1>3. CASE got /\ Size[text] <= MaxBytes
  BY <1>1, <1>3
<1>4. CASE ~(got /\ Size[text] <= MaxBytes)
  <2>1. captured = FALSE
    BY <1>1, <1>4
  <2> QED  BY <1>2, <1>4, <2>1
<1> QED  BY <1>3, <1>4

(***************************************************************************)
(* The redo stack is the future, read from its end.                        *)
(***************************************************************************)
LEMMA ReverseRight ==
  ASSUME NEW s \in Seq(Entry)
  PROVE  /\ Reverse(s) \in Seq(Entry) /\ Len(Reverse(s)) = Len(s)
         /\ \A i \in 1..Len(s) : Reverse(s)[i] = s[(Len(s) - i) + 1]
         /\ Reverse(Reverse(s)) = s
<1> DEFINE r == Reverse(s)
           n == Len(s)
<1>1. n \in Nat /\ \A i \in 1..n : (n - i) + 1 \in 1..n /\ s[(n - i) + 1] \in Entry
  <2>1. n \in Nat
    OBVIOUS
  <2>2. \A i \in 1..n : (n - i) + 1 \in 1..n
    BY <2>1
  <2> QED  BY <2>1, <2>2
<1>2. r \in [1..n -> Entry] /\ \A i \in 1..n : r[i] = s[(n - i) + 1]
  BY <1>1 DEF Reverse
<1>3. r \in Seq(Entry) /\ Len(r) = n
  BY <1>1, <1>2
<1> DEFINE q == Reverse(r)
<1>4. q = [i \in 1..n |-> r[(n - i) + 1]]
  BY <1>3 DEF Reverse
<1> HIDE DEF r
<1>5. q \in Seq(Entry) /\ Len(q) = n /\ \A i \in 1..n : q[i] = r[(n - i) + 1]
  <2>1. \A i \in 1..n : r[(n - i) + 1] \in Entry
    BY <1>1, <1>2
  <2>2. q \in [1..n -> Entry]
    BY <1>4, <2>1
  <2> QED  BY <1>1, <1>4, <2>2
<1> HIDE DEF q
<1>6. ASSUME NEW i \in 1..n PROVE q[i] = s[i]
  <2>1. (n - i) + 1 \in 1..n /\ (n - ((n - i) + 1)) + 1 = i
    BY <1>1
  <2> QED  BY <1>2, <1>5, <2>1
<1>7. q = s
  BY <1>5, <1>6, SeqEqual
<1> QED  BY <1>2, <1>3, <1>7 DEF r, q

\* Its top is the first state of the future.
LEMMA ReverseAppend ==
  ASSUME NEW s \in Seq(Entry), NEW e \in Entry
  PROVE  /\ Reverse(Append(s, e)) = <<e>> \o Reverse(s)
         /\ Head(Reverse(Append(s, e))) = e /\ Tail(Reverse(Append(s, e))) = Reverse(s)
<1> DEFINE n == Len(s)
           a == Append(s, e)
           l == Reverse(a)
           r == <<e>> \o Reverse(s)
<1>1. /\ n \in Nat /\ a \in Seq(Entry) /\ Len(a) = n + 1 /\ a[n + 1] = e
      /\ \A i \in 1..n : a[i] = s[i]
  BY AppendProperties
<1>2. /\ Reverse(s) \in Seq(Entry) /\ Len(Reverse(s)) = n
      /\ \A i \in 1..n : Reverse(s)[i] = s[(n - i) + 1]
  BY ReverseRight
<1>3. l \in Seq(Entry) /\ Len(l) = n + 1 /\ \A i \in 1..(n + 1) : l[i] = a[((n + 1) - i) + 1]
  <2> HIDE DEF a
  <2> QED  BY <1>1, ReverseRight
<1>4. /\ <<e>> \in Seq(Entry) /\ Len(<<e>>) = 1 /\ <<e>>[1] = e
  OBVIOUS
<1>5. /\ r \in Seq(Entry) /\ Len(r) = 1 + n
      /\ \A i \in 1..(1 + n) : r[i] = IF i <= 1 THEN <<e>>[i] ELSE Reverse(s)[i - 1]
  BY <1>2, <1>4, ConcatProperties
<1> HIDE DEF a, l, r
<1>6. ASSUME NEW i \in 1..(n + 1) PROVE l[i] = r[i]
  <2>1. CASE i = 1
    <3>1. ((n + 1) - i) + 1 = n + 1 /\ i \in 1..(1 + n)
      BY <1>1, <2>1
    <3> QED  BY <1>1, <1>3, <1>4, <1>5, <2>1, <3>1
  <2>2. CASE i # 1
    <3>1. /\ i - 1 \in 1..n /\ (n - (i - 1)) + 1 = ((n + 1) - i) + 1
          /\ ((n + 1) - i) + 1 \in 1..n /\ i \in 1..(1 + n) /\ ~(i <= 1)
      BY <1>1, <2>2
    <3>2. l[i] = s[((n + 1) - i) + 1]
      BY <1>1, <1>3, <3>1
    <3>3. r[i] = s[(n - (i - 1)) + 1]
      BY <1>2, <1>5, <3>1
    <3> QED  BY <3>1, <3>2, <3>3
  <2> QED  BY <2>1, <2>2
<1>7. l = r
  <2>1. Len(l) = Len(r) /\ Len(l) = n + 1
    BY <1>1, <1>3, <1>5
  <2> QED  BY <1>3, <1>5, <1>6, <2>1, SeqEqual
<1>8. Head(l) = e
  <2>1. l[1] = e
    BY <1>1, <1>4, <1>5, <1>7
  <2> QED  BY <1>1, <1>3, <2>1
<1>9. Tail(l) = Reverse(s)
  <2>1. l # <<>>
    BY <1>1, <1>3
  <2>2. /\ Tail(l) \in Seq(Entry) /\ Len(Tail(l)) = Len(l) - 1
        /\ \A i \in 1..Len(Tail(l)) : Tail(l)[i] = l[i + 1]
    BY <1>3, <2>1, HeadTailProperties
  <2>3. Len(Tail(l)) = n
    BY <1>1, <1>3, <2>2
  <2>4. ASSUME NEW i \in 1..n PROVE Tail(l)[i] = Reverse(s)[i]
    <3>1. i + 1 \in 1..(1 + n) /\ ~(i + 1 <= 1) /\ (i + 1) - 1 = i
      BY <1>1
    <3>2. r[i + 1] = Reverse(s)[i]
      BY <1>5, <3>1
    <3> QED  BY <1>7, <2>2, <2>3, <3>2
  <2> QED  BY <1>2, <2>2, <2>3, <2>4, SeqEqual
<1> QED  BY <1>7, <1>8, <1>9 DEF a, l, r

\* So the nearest states of a future are the newest of the redo stack.
LEMMA NearestRight ==
  ASSUME NEW s \in Seq(Entry), NEW e \in Entry
  PROVE  Promise!Nearest(<<e>> \o Reverse(s)) = Reverse(Promise!Newest(Append(s, e)))
<1>1. Append(s, e) \in Seq(Entry)
  BY AppendProperties
<1>2. Reverse(<<e>> \o Reverse(s)) = Append(s, e)
  BY <1>1, ReverseAppend, ReverseRight
<1>3. \A t : Promise!Reverse(t) = Reverse(t)
  BY DEF Promise!Reverse, Reverse
<1> QED  BY <1>2, <1>3 DEF Promise!Nearest

-----------------------------------------------------------------------------
(***************************************************************************)
(* Every step keeps the invariant and is one of Timeline's.                *)
(***************************************************************************)
Step == HistoryInv' /\ [Promise!Next]_(Promise!vars)

\* The state of the document is one that may be recorded.
LEMMA NowRight ==
  ASSUME text \in Text, cursor \in Place
  PROVE  Now \in Entry /\ Now.text = text /\ Now \in Promise!State
BY DEF Now, Entry, Promise!State

\* The next state has the invariant if its parts do.
LEMMA InvFrom ==
  ASSUME text' \in Text, cursor' \in Place, scarce' \in BOOLEAN,
         StackOK(undo'), StackOK(redo')
  PROVE  HistoryInv'
BY DEF HistoryInv

\* A step that changes neither text nor history may move the cursor.
LEMMA QuietStep ==
  ASSUME HistoryInv, UNCHANGED <<text, undo, redo, scarce>>, cursor' \in Place
  PROVE  Step
<1>1. HistoryInv'
  BY InvFrom DEF HistoryInv
<1>2. Now' \in Promise!State /\ Now'.text = Now.text
  BY DEF HistoryInv, Now, Promise!State
<1>3. Promise!MoveCursor
  BY <1>2 DEF Promise!MoveCursor
<1> QED  BY <1>1, <1>3 DEF Step, Promise!Next

\* An edit that cannot be recorded clears the history.
LEMMA ClearStep ==
  ASSUME HistoryInv, ClearHistory, text' \in Text, cursor' \in Place, scarce' = scarce,
         scarce \/ ~(Size[text] <= MaxBytes)
  PROVE  Step
<1>1. undo' = Empty /\ redo' = Empty /\ StackOK(Empty) /\ Empty.entries = <<>>
  BY EmptyRight DEF ClearHistory
<1>2. HistoryInv'
  BY <1>1, InvFrom DEF HistoryInv
<1>3. Now' \in Promise!State /\ Now.text = text
  BY DEF Now, Promise!State
<1>4. undo'.entries = <<>> /\ Reverse(redo'.entries) = <<>>
  BY <1>1, ReverseRight, EmptySeq
<1>5. Promise!EditUnrecorded
  BY <1>3, <1>4 DEF Promise!EditUnrecorded, Promise!Recordable
<1> QED  BY <1>2, <1>5 DEF Step, Promise!Next

\* One that is recorded adds to the past and ends the future.
LEMMA RecordStep ==
  ASSUME HistoryInv, Size[text] <= MaxBytes, undo' = Push(undo, Now), redo' = Empty,
         text' \in Text, cursor' \in Place, scarce' = scarce
  PROVE  Step
<1>1. Now \in Entry /\ Now.text = text /\ Now' \in Promise!State
  BY NowRight DEF HistoryInv, Now, Promise!State
<1>2. /\ StackOK(undo') /\ undo'.entries = Promise!Newest(Append(undo.entries, Now))
      /\ StackOK(redo') /\ redo'.entries = <<>>
  BY <1>1, PushOK, EmptyRight DEF HistoryInv
<1>3. HistoryInv'
  BY <1>2, InvFrom DEF HistoryInv
<1>4. Reverse(redo'.entries) = <<>>
  BY <1>2, ReverseRight, EmptySeq
<1>5. Promise!Edit
  BY <1>1, <1>2, <1>4 DEF Promise!Edit, Promise!Recordable
<1> QED  BY <1>3, <1>5 DEF Step, Promise!Next

\* What undo and redo make of the two stacks, or that they change nothing.
LEMMA RestoreStacks ==
  ASSUME HistoryInv, NEW from, StackOK(from), NEW to, StackOK(to), NEW from1, NEW to1,
         Restore(from, to, from1, to1)
  PROVE  /\ StackOK(from1) /\ StackOK(to1) /\ scarce' = scarce
         /\ text' \in Text /\ cursor' \in Place
         /\ from.entries # <<>> /\ Size[text] <= MaxBytes
         /\ \/ /\ Now' = Last(from.entries)
               /\ from1.entries = Front(from.entries)
               /\ to1.entries = Promise!Newest(Append(to.entries, Now))
            \/ UNCHANGED <<text, cursor>> /\ from1 = from /\ to1 = to
<1> DEFINE e == Last(from.entries)
<1>1. from.entries # <<>> /\ TRUE \in Captures
  BY DEF Restore
<1>2. Size[text] <= MaxBytes
  BY <1>1, CapturesRight
<1>3. Now \in Entry /\ Now.text = text
  BY NowRight DEF HistoryInv
<1>4. /\ StackOK(Pop(from)) /\ Pop(from).entries = Front(from.entries)
      /\ e \in Entry /\ Size[e.text] <= MaxBytes /\ Push(Pop(from), e) = from
  BY <1>1, PopOK
<1>5. StackOK(Push(to, Now)) /\ Push(to, Now).entries = Promise!Newest(Append(to.entries, Now))
  BY <1>2, <1>3, PushOK
<1>6. CASE /\ text' = e.text /\ cursor' = e.cursor
           /\ from1 = Pop(from) /\ to1 = Push(to, Now) /\ scarce' = scarce
  <2>1. Now' = e /\ text' \in Text /\ cursor' \in Place
    <3> HIDE DEF e
    <3> QED  BY <1>4, <1>6 DEF Now, Entry
  <2> QED  BY <1>1, <1>2, <1>4, <1>5, <1>6, <2>1
<1>7. CASE /\ from1 = Push(Pop(from), e) /\ to1 = to
           /\ UNCHANGED <<doc, scarce>>
  BY <1>1, <1>2, <1>4, <1>7 DEF doc, HistoryInv
<1> QED  BY <1>6, <1>7 DEF Restore

\* Undo is Timeline's, or does nothing.
LEMMA UndoStep ==
  ASSUME HistoryInv, Undo
  PROVE  Step
<1>1. /\ StackOK(undo) /\ StackOK(redo) /\ Restore(undo, redo, undo', redo')
      /\ Now \in Entry /\ Now.text = text
  BY NowRight DEF HistoryInv, Undo
<1>2. /\ StackOK(undo') /\ StackOK(redo') /\ scarce' = scarce
      /\ text' \in Text /\ cursor' \in Place
      /\ undo.entries # <<>> /\ Size[text] <= MaxBytes
      /\ \/ /\ Now' = Last(undo.entries)
            /\ undo'.entries = Front(undo.entries)
            /\ redo'.entries = Promise!Newest(Append(redo.entries, Now))
         \/ UNCHANGED <<text, cursor>> /\ undo' = undo /\ redo' = redo
  BY <1>1, RestoreStacks
<1>3. HistoryInv'
  BY <1>2, InvFrom DEF HistoryInv
<1>4. CASE /\ Now' = Last(undo.entries)
           /\ undo'.entries = Front(undo.entries)
           /\ redo'.entries = Promise!Newest(Append(redo.entries, Now))
  <2>1. redo.entries \in Seq(Entry)
    BY <1>1 DEF StackOK
  <2>2. Reverse(redo'.entries) = Promise!Nearest(<<Now>> \o Reverse(redo.entries))
    BY <1>1, <1>4, <2>1, NearestRight
  <2>3. \A s : Promise!Front(s) = Front(s) /\ Promise!Last(s) = Last(s)
    BY DEF Promise!Front, Promise!Last, Front, Last
  <2>4. Promise!Undo
    BY <1>1, <1>2, <1>4, <2>2, <2>3 DEF Promise!Undo, Promise!Recordable
  <2> QED  BY <1>3, <2>4 DEF Step, Promise!Next
<1>5. CASE UNCHANGED <<text, cursor>> /\ undo' = undo /\ redo' = redo
  BY <1>2, <1>5, QuietStep
<1> QED  BY <1>2, <1>4, <1>5

\* And so is redo.
LEMMA RedoStep ==
  ASSUME HistoryInv, Redo
  PROVE  Step
<1> DEFINE s == redo.entries
<1>1. /\ StackOK(undo) /\ StackOK(redo) /\ Restore(redo, undo, redo', undo')
      /\ Now \in Entry /\ Now.text = text
  BY NowRight DEF HistoryInv, Redo
<1>2. /\ StackOK(redo') /\ StackOK(undo') /\ scarce' = scarce
      /\ text' \in Text /\ cursor' \in Place
      /\ s # <<>> /\ Size[text] <= MaxBytes
      /\ \/ /\ Now' = Last(s)
            /\ redo'.entries = Front(s)
            /\ undo'.entries = Promise!Newest(Append(undo.entries, Now))
         \/ UNCHANGED <<text, cursor>> /\ redo' = redo /\ undo' = undo
  BY <1>1, RestoreStacks
<1>3. HistoryInv'
  BY <1>2, InvFrom DEF HistoryInv
<1>4. CASE /\ Now' = Last(s)
           /\ redo'.entries = Front(s)
           /\ undo'.entries = Promise!Newest(Append(undo.entries, Now))
  <2>1. s \in Seq(Entry)
    BY <1>1 DEF StackOK
  <2>2. Front(s) \in Seq(Entry) /\ Last(s) \in Entry /\ s = Append(Front(s), Last(s))
    BY <1>2, <2>1, FrontLast
  <2>3. Head(Reverse(s)) = Last(s) /\ Tail(Reverse(s)) = Reverse(Front(s))
    BY <2>2, ReverseAppend
  <2>4. Reverse(s) # <<>>
    BY <1>2, <2>1, ReverseRight, EmptySeq
  <2>5. Promise!Redo
    BY <1>1, <1>2, <1>4, <2>3, <2>4 DEF Promise!Redo, Promise!Recordable
  <2> QED  BY <1>3, <2>5 DEF Step, Promise!Next
<1>5. CASE UNCHANGED <<text, cursor>> /\ undo' = undo /\ redo' = redo
  BY <1>2, <1>5, QuietStep
<1> QED  BY <1>2, <1>4, <1>5

\* An edit changes the text or leaves it, recorded or not.
LEMMA EditStep ==
  ASSUME HistoryInv, NEW captured \in Captures,
         \/ text' \in Text /\ cursor' \in Place /\ Changed(captured)
         \/ captured /\ cursor' \in Place /\ NotChanged(captured)
         \/ NotChanged(captured) /\ UNCHANGED cursor
  PROVE  Step
<1>1. /\ captured \in BOOLEAN
      /\ captured => Size[text] <= MaxBytes
      /\ ~captured => scarce \/ ~(Size[text] <= MaxBytes)
  BY CapturesRight
<1>2. text \in Text /\ cursor \in Place
  BY DEF HistoryInv
<1>3. CASE text' \in Text /\ cursor' \in Place /\ Changed(captured)
  <2>1. Record(captured) /\ scarce' = scarce
    BY <1>3 DEF Changed
  <2>2. CASE captured
    <3>1. undo' = Push(undo, Now) /\ redo' = Empty
      BY <2>1, <2>2 DEF Record
    <3> QED  BY <1>1, <1>3, <2>1, <2>2, <3>1, RecordStep
  <2>3. CASE ~captured
    <3>1. ClearHistory
      BY <2>1, <2>3 DEF Record
    <3> QED  BY <1>1, <1>3, <2>1, <2>3, <3>1, ClearStep
  <2> QED  BY <2>2, <2>3
<1>4. CASE cursor' \in Place /\ NotChanged(captured) /\ captured
  <2>1. UNCHANGED <<text, undo, redo, scarce>>
    BY <1>4 DEF NotChanged
  <2> QED  BY <1>4, <2>1, QuietStep
<1>5. CASE NotChanged(captured) /\ UNCHANGED cursor /\ ~captured
  <2>1. ClearHistory /\ text' = text /\ scarce' = scarce
    BY <1>5 DEF NotChanged
  <2> QED  BY <1>1, <1>2, <1>5, <2>1, ClearStep
<1>6. CASE NotChanged(captured) /\ UNCHANGED cursor /\ captured
  BY <1>2, <1>4, <1>6
<1> QED  BY <1>3, <1>4, <1>5, <1>6

\* So does a step of the notepad.
LEMMA NextStep ==
  ASSUME HistoryInv, [Next]_vars
  PROVE  Step
<1>1. text \in Text /\ cursor \in Place /\ scarce \in BOOLEAN /\ StackOK(undo) /\ StackOK(redo)
  BY DEF HistoryInv
<1>2. CASE EditorKey
  <2>1. PICK captured \in Captures, compared \in Allocates :
          \/ /\ text' \in (IF captured /\ compared THEN Text \ {text} ELSE Text)
             /\ cursor' \in Place
             /\ Changed(captured)
          \/ /\ captured /\ compared
             /\ cursor' \in Place
             /\ NotChanged(captured)
          \/ NotChanged(captured) /\ UNCHANGED cursor
    BY <1>2 DEF EditorKey
  <2>2. \/ text' \in Text /\ cursor' \in Place /\ Changed(captured)
        \/ captured /\ cursor' \in Place /\ NotChanged(captured)
        \/ NotChanged(captured) /\ UNCHANGED cursor
    BY <2>1
  <2> QED  BY <2>2, EditStep
<1>3. ASSUME NEW texts \in SUBSET Text, ManualEdit(texts) PROVE Step
  <2>1. PICK captured \in Captures :
          \/ text' \in texts /\ cursor' \in Place /\ Changed(captured)
          \/ scarce /\ NotChanged(captured) /\ UNCHANGED cursor
    BY <1>3 DEF ManualEdit
  <2>2. \/ text' \in Text /\ cursor' \in Place /\ Changed(captured)
        \/ NotChanged(captured) /\ UNCHANGED cursor
    BY <2>1
  <2> QED  BY <2>2, EditStep
<1>4. CASE MovementKey
  BY <1>4, QuietStep DEF MovementKey
<1>5. CASE Cut
  BY <1>3, <1>5 DEF Cut
<1>6. CASE Paste
  BY <1>3, <1>6 DEF Paste
<1>7. CASE Save
  BY <1>1, <1>7, QuietStep DEF Save
<1>8. CASE Discard
  BY <1>1, <1>8, QuietStep DEF Discard
<1>9. CASE Memory
  <2>1. scarce' \in BOOLEAN /\ UNCHANGED <<text, cursor, undo, redo>>
    BY <1>1, <1>9 DEF Memory, doc
  <2>2. HistoryInv'
    BY <1>1, <2>1, InvFrom
  <2>3. Promise!Memory
    BY <2>1 DEF Promise!Memory, Now
  <2> QED  BY <2>2, <2>3 DEF Step, Promise!Next
<1>10. CASE UNCHANGED vars
  BY <1>1, <1>10, QuietStep DEF vars, doc
<1> QED
  BY <1>2, <1>4, <1>5, <1>6, <1>7, <1>8, <1>9, <1>10, UndoStep, RedoStep DEF Next

\* A document just opened has neither past nor future.
LEMMA StartsRight ==
  ASSUME Init
  PROVE  HistoryInv /\ Promise!Init
<1>1. /\ text \in Text /\ cursor \in Place /\ scarce \in BOOLEAN
      /\ undo = Empty /\ redo = Empty
  BY DEF Init
<1>2. StackOK(Empty) /\ Empty.entries = <<>>
  BY EmptyRight
<1>3. Reverse(<<>>) = <<>>
  BY ReverseRight, EmptySeq
<1>4. Now \in Promise!State
  BY <1>1, NowRight
<1> QED  BY <1>1, <1>2, <1>3, <1>4 DEF HistoryInv, Promise!Init

\* The invariant the two results below rest on: either stack is that of a
\* sequence of recordable states, counted right and within both limits.
THEOREM HistoryInductive == Spec => []HistoryInv
<1>1. Init => HistoryInv
  BY StartsRight
<1>2. HistoryInv /\ [Next]_vars => HistoryInv'
  BY NextStep DEF Step
<1> QED  BY <1>1, <1>2, PTL DEF Spec

\* The bytes of a stack are those of its entries, however it came by them,
\* and neither limit is exceeded, so the loop of np_history_stack_push ends.
THEOREM BytesRight == Spec => []BytesCounted
<1>1. ASSUME NEW stack, StackOK(stack)
      PROVE  /\ Len(stack.entries) <= MaxStates /\ stack.bytes <= MaxBytes
             /\ stack.bytes = Promise!Total(stack.entries)
  <2>1. stack = StackOf(stack.entries) /\ Promise!Fits(stack.entries)
    BY <1>1 DEF StackOK
  <2>2. stack.bytes = Promise!Total(stack.entries)
    BY <2>1 DEF StackOf
  <2> QED  BY <2>1, <2>2 DEF Promise!Fits
<1>2. HistoryInv => BytesCounted
  BY <1>1 DEF HistoryInv, BytesCounted
<1> QED  BY <1>2, HistoryInductive, PTL

\* Undo and redo keep what Timeline promises: the newest states of the past
\* and the nearest of the future, as many as both limits allow, in order.
THEOREM HistoryRight == Spec => HistoryAsPromised
<1>1. Init => Promise!Init
  BY StartsRight
<1>2. HistoryInv /\ [Next]_vars => [Promise!Next]_(Promise!vars)
  BY NextStep DEF Step
<1> QED  BY <1>1, <1>2, HistoryInductive, PTL DEF Spec, HistoryAsPromised, Promise!Spec
=============================================================================
