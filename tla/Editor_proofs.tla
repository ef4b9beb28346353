--------------------------- MODULE Editor_proofs ---------------------------
(***************************************************************************)
(* Theorems about the editor of the Notepad for any characters, documents, *)
(* pastes and widths, and any number of keys, failed allocations and       *)
(* searches: its cursor is always between two characters of a document     *)
(* that is UTF-8, it is on the screen, wrapped or not, every key does to   *)
(* the document what it promises of a plain text, and Find selects the     *)
(* nearest occurrence.  What a key does to rows of bytes is proved to be   *)
(* one replacement of bytes in the text of the document, and that, counted *)
(* in characters, the one PlainText states.                                *)
(***************************************************************************)
EXTENDS Editor, FiniteSetTheorems, SequenceTheorems, WellFoundedInduction,
        NaturalsInduction, TLAPS

-----------------------------------------------------------------------------
(***************************************************************************)
(* Induction over numbers, with a set for the predicate, and functions     *)
(* that are defined step by step.                                          *)
(***************************************************************************)
\* Of some numbers one is the least.
LEMMA LeastExists ==
  ASSUME NEW S \in SUBSET Nat, S # {}
  PROVE  \E x \in S : \A y \in S : x <= y
<1> DEFINE R == OpToRel(<, Nat)
<1>1. \A x, y \in Nat : x < y => <<x, y>> \in R
  BY DEF OpToRel
<1>2. IsWellFoundedOn(R, Nat)
  BY NatLessThanWellFounded, Zenon
<1> HIDE DEF R
<1>3. PICK x \in S : \A y \in S : ~(<<y, x>> \in R)
  BY <1>2, WFMin
<1>4. ASSUME NEW y \in S PROVE x <= y
  <2>1. x \in Nat /\ y \in Nat /\ ~(y < x)
    BY <1>1, <1>3
  <2> QED BY <2>1
<1> QED BY <1>4

\* So Min is the least.
LEMMA MinRight ==
  ASSUME NEW S \in SUBSET Nat, S # {}
  PROVE  Min(S) \in S /\ \A y \in S : Min(S) <= y
<1>1. \E x \in S : \A y \in S : x <= y
  BY LeastExists
<1> QED BY <1>1 DEF Min

\* Of some numbers up to a limit one is the greatest.
LEMMA MaxRight ==
  ASSUME NEW N \in Nat, NEW S \in SUBSET (0..N), S # {}
  PROVE  Max(S) \in S /\ \A y \in S : y <= Max(S)
<1> DEFINE T == {n \in Nat : \A y \in S : y <= n}
<1>1. T \in SUBSET Nat /\ N \in T
  OBVIOUS
<1>2. PICK x \in T : \A y \in T : x <= y
  BY <1>1, LeastExists
<1>3. x \in Nat /\ \A y \in S : y <= x
  BY <1>2
<1>4. x \in S
  <2> SUFFICES ASSUME x \notin S PROVE FALSE
    OBVIOUS
  <2>1. PICK z \in S : TRUE
    OBVIOUS
  <2>2. z \in Nat /\ z < x
    BY <1>3, <2>1
  <2>3. x - 1 \in T
    <3>1. x - 1 \in Nat
      BY <1>3, <2>2
    <3>2. ASSUME NEW y \in S PROVE y <= x - 1
      BY <1>3
    <3> QED BY <3>1, <3>2
  <2>4. x <= x - 1
    BY <1>2, <2>3
  <2> QED BY <1>3, <2>4
<1>5. \E m \in S : \A y \in S : m >= y
  BY <1>3, <1>4
<1>6. Max(S) \in S /\ \A y \in S : Max(S) >= y
  BY <1>5 DEF Max
<1> QED BY <1>6

\* What is true of 0, and of the next number, is true of all up to N.
LEMMA Stepwise ==
  ASSUME NEW N \in Nat, NEW S, 0 \in S,
         \A n \in 0..N : n < N /\ n \in S => n + 1 \in S
  PROVE  0..N \subseteq S
<1> DEFINE Rest == {n \in 0..N : n \notin S}
<1> SUFFICES ASSUME Rest # {} PROVE FALSE
  OBVIOUS
<1>1. Rest \in SUBSET Nat
  OBVIOUS
<1>2. PICK x \in Rest : \A y \in Rest : x <= y
  BY <1>1, LeastExists
<1>3. x \in 0..N /\ x # 0
  BY <1>2
<1>4. x - 1 \in 0..N /\ x - 1 < N /\ x - 1 + 1 = x /\ ~(x <= x - 1)
  BY <1>3
<1>5. x - 1 \in S
  BY <1>2, <1>4
<1>6. x \in S
  BY <1>4, <1>5
<1> QED BY <1>2, <1>6

\* f begins with base and goes on from value to value by step.
Iterates(f, N, base, step) ==
  /\ DOMAIN f = 0..N /\ f[0] = base
  /\ \A n \in 1..N : f[n] = step[n][f[n - 1]]

\* The function that such steps define exists.
LEMMA IteratesExists ==
  ASSUME NEW N \in Nat, NEW V, NEW base \in V, NEW step \in [1..N -> [V -> V]]
  PROVE  \E f \in [0..N -> V] : Iterates(f, N, base, step)
<1> DEFINE Upto(f, n) == /\ f \in [0..n -> V] /\ f[0] = base
                         /\ \A m \in 1..n : f[m] = step[m][f[m - 1]]
           S == {n \in 0..N : \E f : Upto(f, n)}
<1>1. 0 \in S
  <2>1. Upto([m \in 0..0 |-> base], 0) /\ 0 \in 0..N
    OBVIOUS
  <2> HIDE DEF Upto
  <2> QED BY <2>1
<1>2. ASSUME NEW n \in 0..N, n < N, n \in S PROVE n + 1 \in S
  <2>1. PICK f : Upto(f, n)
    BY <1>2
  <2>2. n \in Nat /\ n + 1 \in 1..N /\ n + 1 \in 0..N /\ n \in 0..n /\ 0 \in 0..n
    BY <1>2
  <2> DEFINE g == [m \in 0..(n + 1) |-> IF m = n + 1 THEN step[n + 1][f[n]] ELSE f[m]]
  <2>3. f[n] \in V /\ step[n + 1][f[n]] \in V
    <3>1. f[n] \in V
      BY <2>1, <2>2
    <3> QED BY <2>2, <3>1
  <2>4. g \in [0..(n + 1) -> V]
    BY <2>1, <2>2, <2>3
  <2>5. g[0] = base
    BY <2>1, <2>2
  <2>6. ASSUME NEW m \in 1..(n + 1) PROVE g[m] = step[m][g[m - 1]]
    <3>1. CASE m = n + 1
      BY <2>2, <3>1
    <3>2. CASE m # n + 1
      <4>1. m \in 1..n /\ m - 1 \in 0..n /\ m \in 0..n
        BY <2>2, <3>2
      <4>2. m \in 0..(n + 1) /\ m - 1 \in 0..(n + 1) /\ m - 1 # n + 1
        BY <2>2, <4>1
      <4>3. g[m] = f[m] /\ g[m - 1] = f[m - 1]
        BY <3>2, <4>2
      <4> QED BY <2>1, <4>1, <4>3
    <3> QED BY <3>1, <3>2
  <2>7. Upto(g, n + 1)
    <3> HIDE DEF g
    <3> QED BY <2>4, <2>5, <2>6
  <2> HIDE DEF Upto, g
  <2> QED BY <2>2, <2>7
<1>3. N \in S
  <2> HIDE DEF S
  <2>1. 0..N \subseteq S
    BY <1>1, <1>2, Stepwise
  <2> QED BY <2>1
<1> QED BY <1>3 DEF Iterates

-----------------------------------------------------------------------------
(***************************************************************************)
(* What the recursive definitions of the model compute.                    *)
(***************************************************************************)
Byte  == Chars \cup {Cont}
Glyph == Byte \cup {NewLine}
Rows  == Seq(Seq(Byte)) \ {<<>>}

\* Three lines end to end, as a step of the definitions adds them.
LEMMA GlueRight ==
  ASSUME NEW s \in Seq(Glyph), NEW t \in Seq(Glyph)
  PROVE  /\ s \o <<NewLine>> \o t \in Seq(Glyph)
         /\ Len(s \o <<NewLine>> \o t) = Len(s) + 1 + Len(t)
<1>1. <<NewLine>> \in Seq(Glyph) /\ Len(<<NewLine>>) = 1
  BY DEF Glyph
<1>2. s \o <<NewLine>> \in Seq(Glyph) /\ Len(s \o <<NewLine>>) = Len(s) + 1
  BY <1>1, ConcatProperties
<1> QED BY <1>2, ConcatProperties

\* Lines have a first and a last one.
LEMMA RowsRight ==
  ASSUME NEW lines \in Rows
  PROVE  /\ Len(lines) \in Nat \ {0}
         /\ \A i \in 1..Len(lines) : lines[i] \in Seq(Byte) /\ lines[i] \in Seq(Glyph)
<1>1. Len(lines) \in Nat \ {0} /\ \A i \in 1..Len(lines) : lines[i] \in Seq(Byte)
  BY EmptySeq, ElementOfSeq DEF Rows
<1>2. \A s \in Seq(Byte) : s \in Seq(Glyph)
  BY SeqMonotonic DEF Glyph
<1> QED BY <1>1, <1>2

\* The text through each row of some lines.
Throughs(h, lines) ==
  /\ h \in [0..(Len(lines) - 1) -> Seq(Glyph)] /\ h[0] = lines[1]
  /\ \A r \in 1..(Len(lines) - 1) : h[r] = h[r - 1] \o <<NewLine>> \o lines[r + 1]

\* The text up to each row, and where each row starts, are such functions.
LEMMA ThroughsExist ==
  ASSUME NEW lines \in Rows
  PROVE  \E h : Throughs(h, lines)
<1> DEFINE N    == Len(lines) - 1
           V    == Seq(Glyph)
           step == [r \in 1..N |-> [s \in V |-> s \o <<NewLine>> \o lines[r + 1]]]
<1>1. N \in Nat /\ lines[1] \in V /\ \A r \in 1..N : lines[r + 1] \in V
  BY RowsRight
<1>2. \A r \in 1..N, s \in V : s \o <<NewLine>> \o lines[r + 1] \in V
  BY <1>1, GlueRight
<1>3. step \in [1..N -> [V -> V]]
  BY <1>2
<1>4. \A r \in 1..N : \A s \in V : step[r][s] = s \o <<NewLine>> \o lines[r + 1]
  OBVIOUS
<1> HIDE DEF N, V, step
<1>5. PICK f \in [0..N -> V] : Iterates(f, N, lines[1], step)
  BY <1>1, <1>3, IteratesExists
<1>6. ASSUME NEW r \in 1..N PROVE f[r] = f[r - 1] \o <<NewLine>> \o lines[r + 1]
  <2>1. r - 1 \in 0..N
    BY <1>1
  <2>2. f[r - 1] \in V
    BY <2>1
  <2> QED BY <1>4, <1>5, <2>2 DEF Iterates
<1>7. f[0] = lines[1]
  BY <1>5 DEF Iterates
<1> QED BY <1>6, <1>7 DEF Throughs, N, V

\* ToText is the last of them.
LEMMA ToTextRight ==
  ASSUME NEW b, b.lines \in Rows, NEW h, Throughs(h, b.lines)
  PROVE  ToText(b) = h[LastRow(b)] /\ ToText(b) \in Seq(Glyph)
<1> DEFINE L == LastRow(b)
           Fixed(g) == g = [row \in 0..L |->
             IF row = 0 THEN Line(b, 0) ELSE g[row - 1] \o <<NewLine>> \o Line(b, row)]
           g == CHOOSE g : Fixed(g)
<1>1. ToText(b) = g[L]
  BY DEF ToText
<1>2. L \in Nat /\ L = Len(b.lines) - 1
  BY RowsRight DEF LastRow
<1>3. /\ h \in [0..L -> Seq(Glyph)] /\ h[0] = Line(b, 0)
      /\ \A r \in 1..L : h[r] = h[r - 1] \o <<NewLine>> \o Line(b, r)
  <2>1. Line(b, 0) = b.lines[1]
    BY DEF Line
  <2>2. \A r \in 1..L : Line(b, r) = b.lines[r + 1]
    BY DEF Line
  <2> QED BY <1>2, <2>1, <2>2 DEF Throughs
<1>4. Fixed(h)
  <2> DEFINE k == [row \in 0..L |->
             IF row = 0 THEN Line(b, 0) ELSE h[row - 1] \o <<NewLine>> \o Line(b, row)]
  <2>1. ASSUME NEW r \in 0..L PROVE h[r] = k[r]
    <3>1. CASE r = 0
      BY <1>3, <3>1
    <3>2. CASE r # 0
      <4>1. r \in 1..L
        BY <1>2, <3>2
      <4>2. k[r] = h[r - 1] \o <<NewLine>> \o Line(b, r)
        BY <3>2
      <4> QED BY <1>3, <4>1, <4>2
    <3> QED BY <3>1, <3>2
  <2>2. h = [r \in 0..L |-> h[r]]
    BY <1>3
  <2> QED BY <2>1, <2>2
<1>5. Fixed(g)
  BY <1>4
<1> HIDE DEF g
<1>6. g[0] = Line(b, 0) /\ \A r \in 1..L : g[r] = g[r - 1] \o <<NewLine>> \o Line(b, r)
  <2>1. 0 \in 0..L /\ \A r \in 1..L : r \in 0..L /\ r # 0
    BY <1>2
  <2> QED BY <1>5, <2>1
<1> DEFINE S == {r \in 0..L : g[r] = h[r]}
<1>7. 0 \in S
  BY <1>2, <1>3, <1>6
<1>8. ASSUME NEW n \in 0..L, n < L, n \in S PROVE n + 1 \in S
  <2>1. n + 1 \in 1..L /\ n + 1 \in 0..L /\ (n + 1) - 1 = n
    BY <1>2, <1>8
  <2>2. g[n] = h[n]
    BY <1>8
  <2> QED BY <1>3, <1>6, <2>1, <2>2
<1>9. L \in S
  <2> HIDE DEF S, L
  <2>1. 0..L \subseteq S
    BY <1>2, <1>7, <1>8, Stepwise
  <2> QED BY <1>2, <2>1
<1> QED BY <1>1, <1>2, <1>3, <1>9

\* Where each row starts, and where one more would.
Starts(s, b) ==
  /\ s \in [0..Len(b.lines) -> Nat] /\ s[0] = 0
  /\ \A r \in 1..Len(b.lines) : s[r] = s[r - 1] + Len(Line(b, r - 1)) + 1

\* So the starts of the rows exist,
LEMMA StartsExist ==
  ASSUME NEW b, b.lines \in Rows
  PROVE  \E s : Starts(s, b)
<1> DEFINE N    == Len(b.lines)
           step == [r \in 1..N |-> [m \in Nat |-> m + Len(Line(b, r - 1)) + 1]]
<1>1. N \in Nat
  BY RowsRight
<1>2. ASSUME NEW r \in 1..N PROVE Len(Line(b, r - 1)) \in Nat
  BY RowsRight, LenProperties DEF Line
<1>3. step \in [1..N -> [Nat -> Nat]]
  BY <1>2
<1>4. \A r \in 1..N : \A m \in Nat : step[r][m] = m + Len(Line(b, r - 1)) + 1
  OBVIOUS
<1> HIDE DEF N, step
<1>5. PICK f \in [0..N -> Nat] : Iterates(f, N, 0, step)
  BY <1>1, <1>3, IteratesExists
<1>6. ASSUME NEW r \in 1..N PROVE f[r] = f[r - 1] + Len(Line(b, r - 1)) + 1
  <2>1. r - 1 \in 0..N
    BY <1>1
  <2>2. f[r - 1] \in Nat
    BY <2>1
  <2> QED BY <1>4, <1>5, <2>2 DEF Iterates
<1>7. f[0] = 0
  BY <1>5 DEF Iterates
<1> QED BY <1>6, <1>7 DEF Starts, N

\* and RowStart is one of them.
LEMMA RowStartIs ==
  ASSUME NEW b, b.lines \in Rows, NEW s, Starts(s, b), NEW row \in 0..Len(b.lines)
  PROVE  RowStart(b, row) = s[row]
<1> DEFINE Fixed(g) == g = [r \in 0..row |->
             IF r = 0 THEN 0 ELSE g[r - 1] + Len(Line(b, r - 1)) + 1]
           g == CHOOSE g : Fixed(g)
           h == [r \in 0..row |-> s[r]]
<1>1. RowStart(b, row) = g[row]
  BY DEF RowStart
<1>2. row \in Nat /\ Len(b.lines) \in Nat /\ row <= Len(b.lines)
  BY RowsRight
<1>3. /\ h[0] = 0 /\ \A r \in 1..row : h[r] = h[r - 1] + Len(Line(b, r - 1)) + 1
  BY <1>2 DEF Starts
<1>4. Fixed(h)
  <2> DEFINE k == [r \in 0..row |->
             IF r = 0 THEN 0 ELSE h[r - 1] + Len(Line(b, r - 1)) + 1]
  <2>1. \A r \in 0..row : h[r] = k[r]
    <3> HIDE DEF h
    <3> QED BY <1>2, <1>3
  <2>2. h = [r \in 0..row |-> h[r]]
    OBVIOUS
  <2> QED BY <2>1, <2>2
<1>5. Fixed(g)
  <2> HIDE DEF h
  <2> QED BY <1>4
<1> HIDE DEF g
<1>6. g[0] = 0 /\ \A r \in 1..row : g[r] = g[r - 1] + Len(Line(b, r - 1)) + 1
  <2>1. 0 \in 0..row /\ \A r \in 1..row : r \in 0..row /\ r # 0
    BY <1>2
  <2> QED BY <1>5, <2>1
<1> DEFINE S == {r \in 0..row : g[r] = h[r]}
<1>7. 0 \in S
  BY <1>2, <1>3, <1>6
<1>8. ASSUME NEW n \in 0..row, n < row, n \in S PROVE n + 1 \in S
  <2> HIDE DEF h
  <2>1. n + 1 \in 1..row /\ n + 1 \in 0..row /\ (n + 1) - 1 = n
    BY <1>2, <1>8
  <2>2. g[n] = h[n]
    BY <1>8
  <2> QED BY <1>3, <1>6, <2>1, <2>2
<1>9. row \in S
  <2> HIDE DEF S
  <2>1. 0..row \subseteq S
    BY <1>2, <1>7, <1>8, Stepwise
  <2> QED BY <1>2, <2>1
<1>10. g[row] = h[row] /\ h[row] = s[row]
  BY <1>2, <1>9
<1> QED BY <1>1, <1>10

\* A row starts behind the one before it and the end of that line.
LEMMA RowStartRight ==
  ASSUME NEW b, b.lines \in Rows
  PROVE  /\ RowStart(b, 0) = 0
         /\ \A row \in 0..Len(b.lines) : RowStart(b, row) \in Nat
         /\ \A row \in 0..LastRow(b) :
              RowStart(b, row + 1) = RowStart(b, row) + Len(Line(b, row)) + 1
<1>1. PICK s : Starts(s, b)
  BY StartsExist
<1>2. \A row \in 0..Len(b.lines) : RowStart(b, row) = s[row]
  BY <1>1, RowStartIs
<1>3. Len(b.lines) \in Nat
  BY RowsRight
<1>4. 0 \in 0..Len(b.lines)
  BY <1>3
<1>5. ASSUME NEW row \in 0..LastRow(b)
      PROVE  RowStart(b, row + 1) = RowStart(b, row) + Len(Line(b, row)) + 1
  <2>1. row + 1 \in 1..Len(b.lines) /\ row \in 0..Len(b.lines) /\ row + 1 \in 0..Len(b.lines)
    BY <1>3 DEF LastRow
  <2>2. (row + 1) - 1 = row
    OBVIOUS
  <2>3. s[row + 1] = s[(row + 1) - 1] + Len(Line(b, (row + 1) - 1)) + 1
    BY <1>1, <2>1 DEF Starts
  <2> QED BY <1>2, <2>1, <2>2, <2>3
<1> QED BY <1>1, <1>2, <1>4, <1>5 DEF Starts

\* A character of a text, or the end of a line.
Symbol == Chars \cup {NewLine}

\* The characters of the first bytes of a text.
Ofs(h, t) ==
  /\ h \in [0..Len(t) -> Seq(Symbol)] /\ h[0] = <<>>
  /\ \A n \in 1..Len(t) : h[n] = IF t[n] = Cont THEN h[n - 1] ELSE Append(h[n - 1], t[n])

\* The characters of a text are such a function of how far it was read,
LEMMA OfsExist ==
  ASSUME NEW t \in Seq(Glyph)
  PROVE  \E h : Ofs(h, t)
<1> DEFINE N    == Len(t)
           V    == Seq(Symbol)
           step == [n \in 1..N |-> [s \in V |-> IF t[n] = Cont THEN s ELSE Append(s, t[n])]]
<1>1. N \in Nat /\ <<>> \in V /\ \A n \in 1..N : t[n] # Cont => t[n] \in Symbol
  <2>1. N \in Nat /\ \A n \in 1..N : t[n] \in Glyph
    BY LenProperties, ElementOfSeq
  <2> QED BY <2>1, EmptySeq DEF Glyph, Byte, Symbol
<1>2. \A n \in 1..N, s \in V : t[n] # Cont => Append(s, t[n]) \in V
  BY <1>1, AppendProperties
<1>3. step \in [1..N -> [V -> V]]
  BY <1>2
<1>4. \A n \in 1..N : \A s \in V : step[n][s] = IF t[n] = Cont THEN s ELSE Append(s, t[n])
  OBVIOUS
<1> HIDE DEF N, V, step
<1>5. PICK f \in [0..N -> V] : Iterates(f, N, <<>>, step)
  BY <1>1, <1>3, IteratesExists
<1>6. ASSUME NEW n \in 1..N
      PROVE  f[n] = IF t[n] = Cont THEN f[n - 1] ELSE Append(f[n - 1], t[n])
  <2>1. n - 1 \in 0..N
    BY <1>1
  <2>2. f[n - 1] \in V
    BY <2>1
  <2> QED BY <1>4, <1>5, <2>2 DEF Iterates
<1>7. f[0] = <<>>
  BY <1>5 DEF Iterates
<1> QED BY <1>6, <1>7 DEF Ofs, N, V

\* and Characters is its value at the end.
LEMMA CharactersAre ==
  ASSUME NEW t \in Seq(Glyph), NEW h, Ofs(h, t)
  PROVE  Characters(t) = h[Len(t)] /\ Characters(t) \in Seq(Symbol)
<1> DEFINE L == Len(t)
           Next1(g, n) == IF t[n] = Cont THEN g[n - 1] ELSE Append(g[n - 1], t[n])
           Fixed(g) == g = [n \in 0..L |-> IF n = 0 THEN <<>>
                              ELSE IF t[n] = Cont THEN g[n - 1] ELSE Append(g[n - 1], t[n])]
           g == CHOOSE g : Fixed(g)
<1>1. Characters(t) = g[L]
  BY DEF Characters
<1>2. L \in Nat
  BY LenProperties
<1>3. h \in [0..L -> Seq(Symbol)] /\ h[0] = <<>> /\ \A n \in 1..L : h[n] = Next1(h, n)
  BY DEF Ofs
<1>4. Fixed(h)
  <2> DEFINE k == [n \in 0..L |-> IF n = 0 THEN <<>>
                              ELSE IF t[n] = Cont THEN h[n - 1] ELSE Append(h[n - 1], t[n])]
  <2>1. ASSUME NEW n \in 0..L PROVE h[n] = k[n]
    <3>1. CASE n = 0
      BY <1>3, <3>1
    <3>2. CASE n # 0
      <4>1. n \in 1..L
        BY <1>2, <3>2
      <4>2. k[n] = Next1(h, n)
        BY <3>2
      <4> QED BY <1>3, <4>1, <4>2
    <3> QED BY <3>1, <3>2
  <2>2. h = [n \in 0..L |-> h[n]]
    BY <1>3
  <2> QED BY <2>1, <2>2
<1>5. Fixed(g)
  BY <1>4
<1> HIDE DEF g
<1>6. g[0] = <<>> /\ \A n \in 1..L : g[n] = Next1(g, n)
  <2>1. 0 \in 0..L /\ \A n \in 1..L : n \in 0..L /\ n # 0
    BY <1>2
  <2> QED BY <1>5, <2>1
<1> DEFINE S == {n \in 0..L : g[n] = h[n]}
<1>7. 0 \in S
  BY <1>2, <1>3, <1>6
<1>8. ASSUME NEW n \in 0..L, n < L, n \in S PROVE n + 1 \in S
  <2>1. n + 1 \in 1..L /\ n + 1 \in 0..L /\ (n + 1) - 1 = n
    BY <1>2, <1>8
  <2>2. g[n] = h[n]
    BY <1>8
  <2> QED BY <1>3, <1>6, <2>1, <2>2
<1>9. L \in S
  <2> HIDE DEF S, L
  <2>1. 0..L \subseteq S
    BY <1>2, <1>7, <1>8, Stepwise
  <2> QED BY <1>2, <2>1
<1> QED BY <1>1, <1>2, <1>3, <1>9

\* So the characters are a sequence of characters.
LEMMA CharactersType ==
  ASSUME NEW t \in Seq(Glyph)
  PROVE  Characters(t) \in Seq(Symbol) /\ Len(Characters(t)) \in Nat
BY OfsExist, CharactersAre, LenProperties

\* An empty text has no characters.
LEMMA NoCharacters == Characters(<<>>) = <<>>
<1>1. <<>> \in Seq(Glyph) /\ Len(<<>>) = 0
  BY EmptySeq
<1>2. PICK h : Ofs(h, <<>>)
  BY <1>1, OfsExist
<1> QED BY <1>1, <1>2, CharactersAre DEF Ofs

\* Appending to a text appends to the end of it.
LEMMA AppendConcat ==
  ASSUME NEW s \in Seq(Symbol), NEW t \in Seq(Symbol), NEW e \in Symbol
  PROVE  Append(s \o t, e) = s \o Append(t, e)
<1>1. <<e>> \in Seq(Symbol) /\ s \o t \in Seq(Symbol)
  BY ConcatProperties
<1>2. Append(s \o t, e) = (s \o t) \o <<e>> /\ Append(t, e) = t \o <<e>>
  BY <1>1, AppendIsConcat
<1> QED BY <1>1, <1>2, ConcatAssociative

\* The characters of two texts, one after the other.
LEMMA CharactersConcat ==
  ASSUME NEW s \in Seq(Glyph), NEW t \in Seq(Glyph)
  PROVE  Characters(s \o t) = Characters(s) \o Characters(t)
<1> DEFINE u == s \o t
<1>1. /\ u \in Seq(Glyph) /\ Len(u) = Len(s) + Len(t) /\ Len(s) \in Nat /\ Len(t) \in Nat
      /\ \A n \in 1..Len(s) : u[n] = s[n]
      /\ \A n \in 1..Len(t) : u[Len(s) + n] = t[n]
  <2>1. /\ u \in Seq(Glyph) /\ Len(u) = Len(s) + Len(t) /\ Len(s) \in Nat /\ Len(t) \in Nat
        /\ \A i \in 1..(Len(s) + Len(t)) : u[i] = IF i <= Len(s) THEN s[i] ELSE t[i - Len(s)]
    BY ConcatProperties, LenProperties
  <2> HIDE DEF u
  <2>2. ASSUME NEW n \in 1..Len(t) PROVE u[Len(s) + n] = t[n]
    <3>1. Len(s) + n \in 1..(Len(s) + Len(t)) /\ ~(Len(s) + n <= Len(s))
          /\ (Len(s) + n) - Len(s) = n
      BY <2>1
    <3> QED BY <2>1, <3>1
  <2> QED BY <2>1, <2>2
<1> HIDE DEF u
<1>2. PICK h : Ofs(h, s)
  BY OfsExist
<1>3. PICK k : Ofs(k, t)
  BY OfsExist
<1>4. PICK m : Ofs(m, u)
  BY <1>1, OfsExist
<1> DEFINE S == {n \in 0..Len(s) : m[n] = h[n]}
           T == {n \in 0..Len(t) : m[Len(s) + n] = h[Len(s)] \o k[n]}
<1>5. Len(s) \in S
  <2>1. 0 \in S
    BY <1>1, <1>2, <1>4 DEF Ofs
  <2>2. ASSUME NEW n \in 0..Len(s), n < Len(s), n \in S PROVE n + 1 \in S
    <3>1. n + 1 \in 1..Len(s) /\ n + 1 \in 0..Len(s) /\ n + 1 \in 1..Len(u) /\ (n + 1) - 1 = n
      BY <1>1, <2>2
    <3>2. u[n + 1] = s[n + 1] /\ m[n] = h[n]
      BY <1>1, <2>2, <3>1
    <3> QED BY <1>2, <1>4, <3>1, <3>2 DEF Ofs
  <2> HIDE DEF S
  <2>3. 0..Len(s) \subseteq S
    BY <1>1, <2>1, <2>2, Stepwise
  <2> QED BY <1>1, <2>3
<1>6. h[Len(s)] \in Seq(Symbol) /\ \A n \in 0..Len(t) : k[n] \in Seq(Symbol)
  <2>1. h \in [0..Len(s) -> Seq(Symbol)] /\ k \in [0..Len(t) -> Seq(Symbol)]
    BY <1>2, <1>3 DEF Ofs
  <2>2. Len(s) \in 0..Len(s)
    BY <1>1
  <2> QED BY <2>1, <2>2
<1>7. Len(t) \in T
  <2>1. 0 \in T
    <3>1. m[Len(s) + 0] = h[Len(s)] /\ k[0] = <<>>
      BY <1>1, <1>3, <1>5 DEF Ofs
    <3>2. h[Len(s)] \o <<>> = h[Len(s)]
      BY <1>6, ConcatEmptySeq
    <3>3. m[Len(s) + 0] = h[Len(s)] \o k[0]
      BY <3>1, <3>2
    <3>4. 0 \in 0..Len(t)
      BY <1>1
    <3> QED BY <3>3, <3>4
  <2>2. ASSUME NEW n \in 0..Len(t), n < Len(t), n \in T PROVE n + 1 \in T
    <3> DEFINE i == Len(s) + (n + 1)
    <3>1. /\ n + 1 \in 1..Len(t) /\ n + 1 \in 0..Len(t) /\ i \in 1..Len(u)
          /\ (n + 1) - 1 = n /\ i - 1 = Len(s) + n
      BY <1>1, <2>2
    <3>2. u[i] = t[n + 1] /\ m[Len(s) + n] = h[Len(s)] \o k[n]
      BY <1>1, <2>2, <3>1
    <3>3. /\ m[i] = IF u[i] = Cont THEN m[i - 1] ELSE Append(m[i - 1], u[i])
          /\ k[n + 1] = IF t[n + 1] = Cont THEN k[(n + 1) - 1] ELSE Append(k[(n + 1) - 1], t[n + 1])
      <4> HIDE DEF i
      <4> QED BY <1>3, <1>4, <3>1 DEF Ofs
    <3> HIDE DEF i
    <3>4. CASE t[n + 1] = Cont
      <4>1. m[i] = h[Len(s)] \o k[n + 1]
        BY <3>1, <3>2, <3>3, <3>4
      <4> QED BY <3>1, <4>1 DEF i
    <3>5. CASE t[n + 1] # Cont
      <4>1. t[n + 1] \in Symbol
        BY <3>1, <3>5, ElementOfSeq DEF Glyph, Byte, Symbol
      <4>2. Append(h[Len(s)] \o k[n], t[n + 1]) = h[Len(s)] \o Append(k[n], t[n + 1])
        <5>1. k[n] \in Seq(Symbol) /\ h[Len(s)] \in Seq(Symbol)
          BY <1>6, <2>2
        <5>2. \A x, y \in Seq(Symbol) : \A e \in Symbol : Append(x \o y, e) = x \o Append(y, e)
          BY AppendConcat
        <5> QED BY <4>1, <5>1, <5>2
      <4>3. m[i] = h[Len(s)] \o k[n + 1]
        BY <3>1, <3>2, <3>3, <3>5, <4>2
      <4> QED BY <3>1, <4>3 DEF i
    <3> QED BY <3>4, <3>5
  <2> HIDE DEF T
  <2>3. 0..Len(t) \subseteq T
    BY <1>1, <2>1, <2>2, Stepwise
  <2> QED BY <1>1, <2>3
<1>8. Characters(u) = m[Len(u)] /\ Characters(s) = h[Len(s)] /\ Characters(t) = k[Len(t)]
  BY <1>1, <1>2, <1>3, <1>4, CharactersAre
<1>9. m[Len(u)] = h[Len(s)] \o k[Len(t)]
  BY <1>1, <1>7
<1> QED BY <1>8, <1>9 DEF u

\* The lines of the first bytes of a text.
SplitNext(lines, byte) ==
  IF byte = NewLine THEN Append(lines, <<>>)
  ELSE [lines EXCEPT ![Len(lines)] = Append(@, byte)]

\* The lines of the first bytes of a text.
Splits(h, text) ==
  /\ h \in [0..Len(text) -> Rows] /\ h[0] = <<<<>>>>
  /\ \A n \in 1..Len(text) : h[n] = SplitNext(h[n - 1], text[n])

\* Every byte leaves at least one line.
LEMMA SplitNextRight ==
  ASSUME NEW lines \in Rows, NEW byte \in Glyph
  PROVE  SplitNext(lines, byte) \in Rows
<1> DEFINE L == Len(lines)
<1>1. lines \in Seq(Seq(Byte)) /\ L \in Nat \ {0} /\ lines[L] \in Seq(Byte) /\ L \in 1..L
  BY RowsRight DEF Rows
<1>2. CASE byte = NewLine
  <2>1. <<>> \in Seq(Byte)
    BY EmptySeq
  <2>2. Append(lines, <<>>) \in Seq(Seq(Byte)) /\ Append(lines, <<>>) # <<>>
    BY <1>1, <2>1, AppendProperties
  <2> QED BY <1>2, <2>2 DEF SplitNext, Rows
<1>3. CASE byte # NewLine
  <2>1. byte \in Byte
    BY <1>3 DEF Glyph
  <2>2. Append(lines[L], byte) \in Seq(Byte)
    BY <1>1, <2>1, AppendProperties
  <2> DEFINE new == [lines EXCEPT ![L] = Append(lines[L], byte)]
  <2>3. new \in Seq(Seq(Byte)) /\ Len(new) = L
    BY <1>1, <2>2, ExceptSeq
  <2>4. new # <<>>
    BY <1>1, <2>3, EmptySeq
  <2> QED BY <1>3, <2>3, <2>4 DEF SplitNext, Rows
<1> QED BY <1>2, <1>3

\* One empty line is a document.
LEMMA EmptyRows == <<<<>>>> \in Rows
<1>1. <<>> \in Seq(Byte) /\ <<>> \in Seq(Seq(Byte))
  BY EmptySeq
<1>2. Append(<<>>, <<>>) \in Seq(Seq(Byte)) /\ Append(<<>>, <<>>) # <<>>
  BY <1>1, AppendProperties
<1>3. <<<<>>>> = Append(<<>>, <<>>)
  OBVIOUS
<1> QED BY <1>2, <1>3 DEF Rows

\* The lines of a text are such a function too,
LEMMA SplitsExist ==
  ASSUME NEW text \in Seq(Glyph)
  PROVE  \E h : Splits(h, text)
<1> DEFINE N    == Len(text)
           step == [n \in 1..N |-> [s \in Rows |-> SplitNext(s, text[n])]]
<1>1. N \in Nat /\ \A n \in 1..N : text[n] \in Glyph
  BY LenProperties, ElementOfSeq
<1>2. \A n \in 1..N, s \in Rows : SplitNext(s, text[n]) \in Rows
  BY <1>1, SplitNextRight
<1>3. step \in [1..N -> [Rows -> Rows]]
  BY <1>2
<1>4. \A n \in 1..N : \A s \in Rows : step[n][s] = SplitNext(s, text[n])
  OBVIOUS
<1> HIDE DEF N, step
<1>5. PICK f \in [0..N -> Rows] : Iterates(f, N, <<<<>>>>, step)
  BY <1>1, <1>3, IteratesExists, EmptyRows
<1>6. ASSUME NEW n \in 1..N PROVE f[n] = SplitNext(f[n - 1], text[n])
  <2>1. n - 1 \in 0..N
    BY <1>1
  <2>2. f[n - 1] \in Rows
    BY <2>1
  <2> QED BY <1>4, <1>5, <2>2 DEF Iterates
<1>7. f[0] = <<<<>>>>
  BY <1>5 DEF Iterates
<1> QED BY <1>6, <1>7 DEF Splits, N

\* and Split is its value at the end.
LEMMA SplitIs ==
  ASSUME NEW text \in Seq(Glyph), NEW h, Splits(h, text)
  PROVE  Split(text) = h[Len(text)]
<1> DEFINE L == Len(text)
           Fixed(g) == g = [n \in 0..L |->
              IF n = 0 THEN <<<<>>>>
              ELSE IF text[n] = NewLine THEN Append(g[n - 1], <<>>)
              ELSE [g[n - 1] EXCEPT ![Len(g[n - 1])] = Append(@, text[n])]]
           g == CHOOSE g : Fixed(g)
<1>1. Split(text) = g[L]
  BY DEF Split
<1>2. L \in Nat
  BY LenProperties
<1>3. h \in [0..L -> Rows] /\ h[0] = <<<<>>>> /\ \A n \in 1..L : h[n] = SplitNext(h[n - 1], text[n])
  BY DEF Splits
<1>4. Fixed(h)
  <2> DEFINE k == [n \in 0..L |->
              IF n = 0 THEN <<<<>>>>
              ELSE IF text[n] = NewLine THEN Append(h[n - 1], <<>>)
              ELSE [h[n - 1] EXCEPT ![Len(h[n - 1])] = Append(@, text[n])]]
  <2>1. ASSUME NEW n \in 0..L PROVE h[n] = k[n]
    <3>1. CASE n = 0
      BY <1>3, <3>1
    <3>2. CASE n # 0
      <4>1. n \in 1..L
        BY <1>2, <3>2
      <4>2. k[n] = SplitNext(h[n - 1], text[n])
        BY <3>2 DEF SplitNext
      <4> QED BY <1>3, <4>1, <4>2
    <3> QED BY <3>1, <3>2
  <2>2. h = [n \in 0..L |-> h[n]]
    BY <1>3
  <2> QED BY <2>1, <2>2
<1>5. Fixed(g)
  BY <1>4
<1> HIDE DEF g
<1>6. g[0] = <<<<>>>> /\ \A n \in 1..L : g[n] = SplitNext(g[n - 1], text[n])
  <2>1. 0 \in 0..L /\ \A n \in 1..L : n \in 0..L /\ n # 0
    BY <1>2
  <2> QED BY <1>5, <2>1 DEF SplitNext
<1> DEFINE S == {n \in 0..L : g[n] = h[n]}
<1>7. 0 \in S
  <2>1. g[0] = h[0]
    BY <1>3, <1>6, Zenon
  <2>2. 0 \in 0..L
    BY <1>2
  <2> QED BY <2>1, <2>2
<1>8. ASSUME NEW n \in 0..L, n < L, n \in S PROVE n + 1 \in S
  <2>1. n + 1 \in 1..L /\ n + 1 \in 0..L /\ (n + 1) - 1 = n
    BY <1>2, <1>8
  <2>2. g[n] = h[n]
    BY <1>8
  <2> QED BY <1>3, <1>6, <2>1, <2>2
<1>9. L \in S
  <2> HIDE DEF S, L
  <2>1. 0..L \subseteq S
    BY <1>2, <1>7, <1>8, Stepwise
  <2> QED BY <1>2, <2>1
<1> QED BY <1>1, <1>9

\* The first sequences of some, end to end.
Flats(f, seqs, V) ==
  /\ f \in [0..Len(seqs) -> Seq(V)] /\ f[0] = <<>>
  /\ \A i \in 1..Len(seqs) : f[i] = f[i - 1] \o seqs[i]

\* And so is the concatenation of sequences,
LEMMA FlatsExist ==
  ASSUME NEW V, NEW seqs \in Seq(Seq(V))
  PROVE  \E f : Flats(f, seqs, V)
<1> DEFINE N    == Len(seqs)
           W    == Seq(V)
           step == [i \in 1..N |-> [s \in W |-> s \o seqs[i]]]
<1>1. N \in Nat /\ <<>> \in W /\ \A i \in 1..N : seqs[i] \in W
  BY LenProperties, ElementOfSeq, EmptySeq
<1>2. \A i \in 1..N, s \in W : s \o seqs[i] \in W
  BY <1>1, ConcatProperties
<1>3. step \in [1..N -> [W -> W]]
  BY <1>2
<1>4. \A i \in 1..N : \A s \in W : step[i][s] = s \o seqs[i]
  OBVIOUS
<1> HIDE DEF N, W, step
<1>5. PICK f \in [0..N -> W] : Iterates(f, N, <<>>, step)
  BY <1>1, <1>3, IteratesExists
<1>6. ASSUME NEW i \in 1..N PROVE f[i] = f[i - 1] \o seqs[i]
  <2>1. i - 1 \in 0..N
    BY <1>1
  <2>2. f[i - 1] \in W
    BY <2>1
  <2> QED BY <1>4, <1>5, <2>2 DEF Iterates
<1>7. f[0] = <<>>
  BY <1>5 DEF Iterates
<1> QED BY <1>6, <1>7 DEF Flats, N, W

\* which is FlattenSeq.
LEMMA FlattenIs ==
  ASSUME NEW V, NEW seqs \in Seq(Seq(V)), NEW f, Flats(f, seqs, V)
  PROVE  FlattenSeq(seqs) = f[Len(seqs)]
<1> DEFINE L == Len(seqs)
           Fixed(g) == g = [i \in 1..L |-> IF i = 1 THEN seqs[i] ELSE g[i - 1] \o seqs[i]]
           g == CHOOSE g : Fixed(g)
           h == [i \in 1..L |-> f[i]]
<1>1. L \in Nat /\ f \in [0..L -> Seq(V)] /\ \A i \in 1..L : seqs[i] \in Seq(V)
  BY LenProperties, ElementOfSeq DEF Flats
<1>2. CASE L = 0
  <2>1. seqs = <<>>
    BY <1>2, EmptySeq
  <2> QED BY <1>2, <2>1 DEF Flats, FlattenSeq
<1>3. CASE L # 0
  <2>1. FlattenSeq(seqs) = g[L]
    BY <1>3 DEF FlattenSeq
  <2>2. h[1] = seqs[1] /\ \A i \in 1..L : i # 1 => h[i] = h[i - 1] \o seqs[i]
    <3>1. f[1] = f[0] \o seqs[1] /\ f[0] = <<>> /\ 1 \in 1..L
      <4>1. 1 \in 1..L /\ 1 - 1 = 0
        BY <1>1, <1>3
      <4>2. /\ f[0] = <<>> /\ \A i \in 1..L : f[i] = f[i - 1] \o seqs[i]
        BY DEF Flats
      <4> QED BY <4>1, <4>2
    <3>2. <<>> \o seqs[1] = seqs[1]
      BY <1>1, <3>1, ConcatEmptySeq
    <3>3. ASSUME NEW i \in 1..L, i # 1 PROVE h[i] = h[i - 1] \o seqs[i]
      <4>1. i - 1 \in 1..L
        BY <1>1, <3>3
      <4> QED BY <4>1 DEF Flats
    <3>4. h[1] = seqs[1]
      <4>1. f[1] = <<>> \o seqs[1]
        BY <3>1, Zenon
      <4> QED BY <3>1, <3>2, <4>1
    <3> QED BY <3>3, <3>4
  <2>3. Fixed(h)
    <3> HIDE DEF h
    <3> DEFINE k == [i \in 1..L |-> IF i = 1 THEN seqs[i] ELSE h[i - 1] \o seqs[i]]
    <3>1. ASSUME NEW i \in 1..L PROVE h[i] = k[i]
      BY <2>2
    <3>2. h = [i \in 1..L |-> h[i]]
      BY DEF h
    <3> QED BY <3>1, <3>2
  <2>4. Fixed(g)
    <3> HIDE DEF h
    <3> QED BY <2>3
  <2> HIDE DEF g
  <2>5. \A i \in 1..L : g[i] = IF i = 1 THEN seqs[i] ELSE g[i - 1] \o seqs[i]
    BY <2>4
  <2> DEFINE S == {n \in 0..(L - 1) : g[n + 1] = h[n + 1]}
  <2>6. 0 \in S
    <3>1. 0 \in 0..(L - 1) /\ 0 + 1 = 1 /\ 1 \in 1..L
      BY <1>1, <1>3
    <3>2. g[1] = h[1]
      BY <2>2, <2>5, <3>1
    <3> QED BY <3>1, <3>2
  <2>7. ASSUME NEW n \in 0..(L - 1), n < L - 1, n \in S PROVE n + 1 \in S
    <3> HIDE DEF h
    <3>1. /\ n + 1 \in 0..(L - 1) /\ (n + 1) + 1 \in 1..L /\ (n + 1) + 1 # 1
          /\ ((n + 1) + 1) - 1 = n + 1
      BY <1>1, <2>7
    <3>2. g[n + 1] = h[n + 1]
      BY <2>7
    <3>3. g[(n + 1) + 1] = h[(n + 1) + 1]
      BY <2>2, <2>5, <3>1, <3>2, ZenonT(20)
    <3> QED BY <3>1, <3>3
  <2>8. g[L] = h[L]
    <3> HIDE DEF S, h
    <3>1. L - 1 \in Nat
      BY <1>1, <1>3
    <3>2. 0..(L - 1) \subseteq S
      BY <2>6, <2>7, <3>1, Stepwise
    <3>3. L - 1 \in S /\ (L - 1) + 1 = L
      BY <1>1, <3>1, <3>2, SMTT(20)
    <3> QED BY <3>3 DEF S
  <2> QED BY <1>1, <1>3, <2>1, <2>8
<1> QED BY <1>2, <1>3

-----------------------------------------------------------------------------
(***************************************************************************)
(* Texts of whole characters, which may have line ends among them.         *)
(***************************************************************************)
Width(c) == IF c = NewLine THEN 1 ELSE Bytes[c]

\* A place between two characters, or an end.
AtBoundary(t, p) == p \in 0..Len(t) /\ (p = Len(t) \/ t[p + 1] # Cont)

\* The character at a place has all its bytes.
Whole(t, p) ==
  /\ p + Width(t[p + 1]) <= Len(t) /\ AtBoundary(t, p + Width(t[p + 1]))
  /\ \A q \in (p + 1)..(p + Width(t[p + 1]) - 1) : t[q + 1] = Cont

\* No character is cut short and no byte continues none.
TextOK(t) ==
  /\ t \in Seq(Glyph)
  /\ \A p \in 0..(Len(t) - 1) : IF t[p + 1] = Cont THEN p > 0 ELSE Whole(t, p)

\* Characters take one to four bytes, a line end one.
LEMMA WidthRight ==
  ASSUME NEW c \in Symbol
  PROVE  Width(c) \in 1..4 /\ (c \in Chars => Width(c) = Bytes[c] /\ c # NewLine) /\ c # Cont
BY Utf8Assumption, FoldAssumption DEF Width, Symbol, Cont, NewLine

\* Every byte of a text starts a character or continues one.
LEMMA GlyphRight ==
  ASSUME NEW t \in Seq(Glyph)
  PROVE  /\ Len(t) \in Nat
         /\ \A p \in 0..(Len(t) - 1) : t[p + 1] \in Glyph
                                 /\ (t[p + 1] # Cont => t[p + 1] \in Symbol)
<1>1. Len(t) \in Nat /\ \A n \in 1..Len(t) : t[n] \in Glyph
  BY LenProperties, ElementOfSeq
<1>2. \A p \in 0..(Len(t) - 1) : p + 1 \in 1..Len(t)
  BY <1>1
<1> QED BY <1>1, <1>2 DEF Glyph, Byte, Symbol

\* A boundary is a place at which no byte continues a character.
LEMMA BoundaryIs ==
  ASSUME NEW t \in Seq(Glyph)
  PROVE  /\ \A p : p \in Boundaries(t) <=> AtBoundary(t, p)
         /\ Boundaries(t) \subseteq 0..Len(t) /\ Len(t) \in Boundaries(t)
<1>1. Len(t) \in Nat
  BY GlyphRight
<1>2. \A p \in 0..Len(t) : p < Len(t) <=> p # Len(t)
  BY <1>1
<1>3. Len(t) \in 0..Len(t)
  BY <1>1
<1> QED BY <1>2, <1>3 DEF Boundaries, StartsAt, AtBoundary

\* A line without line ends is such a text if it is valid.
LEMMA ValidIs ==
  ASSUME NEW t \in Seq(Byte)
  PROVE  t \in Seq(Glyph) /\ (Valid(t) <=> TextOK(t))
<1>1. t \in Seq(Glyph)
  BY SeqMonotonic DEF Glyph
<1>2. Len(t) \in Nat /\ \A n \in 1..Len(t) : t[n] \in Byte
  BY LenProperties, ElementOfSeq
<1>3. ASSUME NEW p \in 0..(Len(t) - 1), t[p + 1] # Cont
      PROVE  /\ Width(t[p + 1]) = Bytes[t[p + 1]] /\ Bytes[t[p + 1]] \in 1..4
             /\ p + Width(t[p + 1]) <= Len(t) /\ AtBoundary(t, p + Width(t[p + 1]))
                  <=> p + Bytes[t[p + 1]] \in Boundaries(t)
  <2>1. p + 1 \in 1..Len(t)
    BY <1>2
  <2>2. t[p + 1] \in Chars
    BY <1>2, <1>3, <2>1 DEF Byte
  <2>3. Width(t[p + 1]) = Bytes[t[p + 1]] /\ Bytes[t[p + 1]] \in 1..4
    BY <2>2, WidthRight DEF Symbol
  <2>4. AtBoundary(t, p + Width(t[p + 1])) => p + Width(t[p + 1]) <= Len(t)
    BY <1>2 DEF AtBoundary
  <2> QED BY <1>1, <2>3, <2>4, BoundaryIs
<1>4. ASSUME NEW p \in 0..(Len(t) - 1)
      PROVE  (IF t[p + 1] = Cont THEN p > 0 ELSE Whole(t, p)) <=>
             (IF t[p + 1] = Cont THEN p > 0
              ELSE /\ p + Bytes[t[p + 1]] \in Boundaries(t)
                   /\ \A q \in (p + 1)..(p + Bytes[t[p + 1]] - 1) : t[q + 1] = Cont)
  <2>1. CASE t[p + 1] = Cont
    BY <2>1
  <2>2. CASE t[p + 1] # Cont
    BY <1>3, <2>2 DEF Whole
  <2> QED BY <2>1, <2>2
<1> QED BY <1>1, <1>4 DEF Valid, TextOK

\* A text that is UTF-8 starts and ends at a boundary.
LEMMA BytesRight ==
  ASSUME NEW t, TextOK(t)
  PROVE  /\ t \in Seq(Glyph) /\ Len(t) \in Nat /\ 0 \in Boundaries(t) /\ Len(t) \in Boundaries(t)
         /\ Boundaries(t) \subseteq 0..Len(t)
<1>1. t \in Seq(Glyph) /\ Len(t) \in Nat
  BY GlyphRight DEF TextOK
<1>2. AtBoundary(t, 0)
  <2>1. CASE Len(t) = 0
    BY <2>1 DEF AtBoundary
  <2>2. CASE Len(t) # 0
    <3>1. 0 \in 0..(Len(t) - 1)
      BY <1>1, <2>2
    <3>2. t[0 + 1] # Cont
      BY <3>1 DEF TextOK
    <3> QED BY <1>1, <3>2 DEF AtBoundary
  <2> QED BY <2>1, <2>2
<1> QED BY <1>1, <1>2, BoundaryIs

\* The parts of a text, by their places in the whole.
LEMMA Parts ==
  ASSUME NEW s \in Seq(Glyph), NEW t \in Seq(Glyph)
  PROVE  /\ s \o t \in Seq(Glyph) /\ Len(s \o t) = Len(s) + Len(t)
         /\ Len(s) \in Nat /\ Len(t) \in Nat
         /\ \A p \in 0..(Len(s) - 1) : (s \o t)[p + 1] = s[p + 1]
         /\ \A p \in 0..(Len(t) - 1) : (s \o t)[Len(s) + p + 1] = t[p + 1]
<1> DEFINE u == s \o t
<1>1. /\ u \in Seq(Glyph) /\ Len(u) = Len(s) + Len(t) /\ Len(s) \in Nat /\ Len(t) \in Nat
      /\ \A i \in 1..(Len(s) + Len(t)) : u[i] = IF i <= Len(s) THEN s[i] ELSE t[i - Len(s)]
  BY ConcatProperties, LenProperties
<1> HIDE DEF u
<1>2. ASSUME NEW p \in 0..(Len(s) - 1) PROVE u[p + 1] = s[p + 1]
  <2>1. p + 1 \in 1..(Len(s) + Len(t)) /\ p + 1 <= Len(s)
    BY <1>1
  <2> QED BY <1>1, <2>1
<1>3. ASSUME NEW p \in 0..(Len(t) - 1) PROVE u[Len(s) + p + 1] = t[p + 1]
  <2>1. /\ Len(s) + p + 1 \in 1..(Len(s) + Len(t)) /\ ~(Len(s) + p + 1 <= Len(s))
        /\ (Len(s) + p + 1) - Len(s) = p + 1
    BY <1>1
  <2> QED BY <1>1, <2>1
<1> QED BY <1>1, <1>2, <1>3 DEF u

\* The boundaries of two texts end to end are those of both.
LEMMA BoundaryParts ==
  ASSUME NEW s \in Seq(Glyph), NEW t \in Seq(Glyph)
  PROVE  /\ \A p \in 0..(Len(s) - 1) : AtBoundary(s \o t, p) <=> AtBoundary(s, p)
         /\ \A p \in 0..Len(t) : AtBoundary(s \o t, Len(s) + p) <=> AtBoundary(t, p)
<1> DEFINE u == s \o t
<1>1. /\ u \in Seq(Glyph) /\ Len(u) = Len(s) + Len(t) /\ Len(s) \in Nat /\ Len(t) \in Nat
      /\ \A p \in 0..(Len(s) - 1) : u[p + 1] = s[p + 1]
      /\ \A p \in 0..(Len(t) - 1) : u[Len(s) + p + 1] = t[p + 1]
  BY Parts
<1> HIDE DEF u
<1>2. \A p \in 0..(Len(s) - 1) : AtBoundary(u, p) <=> AtBoundary(s, p)
  <2> SUFFICES ASSUME NEW p \in 0..(Len(s) - 1) PROVE AtBoundary(u, p) <=> AtBoundary(s, p)
    OBVIOUS
  <2>1. p \in 0..Len(u) /\ p \in 0..Len(s) /\ p # Len(u) /\ p # Len(s) /\ u[p + 1] = s[p + 1]
    BY <1>1
  <2> QED BY <2>1 DEF AtBoundary
<1>3. \A p \in 0..Len(t) : AtBoundary(u, Len(s) + p) <=> AtBoundary(t, p)
  <2> SUFFICES ASSUME NEW p \in 0..Len(t) PROVE AtBoundary(u, Len(s) + p) <=> AtBoundary(t, p)
    OBVIOUS
  <2>1. Len(s) + p \in 0..Len(u) /\ (Len(s) + p = Len(u) <=> p = Len(t))
    <3>1. Len(u) = Len(s) + Len(t) /\ Len(s) \in Nat /\ Len(t) \in Nat
      BY <1>1
    <3> QED BY <3>1
  <2>2. p # Len(t) => u[Len(s) + p + 1] = t[p + 1]
    BY <1>1
  <2> QED BY <2>1, <2>2 DEF AtBoundary
<1> QED BY <1>2, <1>3 DEF u

\* Two such texts make one.
LEMMA TextConcat ==
  ASSUME NEW s, NEW t, TextOK(s), TextOK(t)
  PROVE  TextOK(s \o t)
<1> DEFINE u == s \o t
<1>1. /\ s \in Seq(Glyph) /\ t \in Seq(Glyph) /\ u \in Seq(Glyph) /\ Len(u) = Len(s) + Len(t)
      /\ Len(s) \in Nat /\ Len(t) \in Nat
      /\ \A p \in 0..(Len(s) - 1) : u[p + 1] = s[p + 1]
      /\ \A p \in 0..(Len(t) - 1) : u[Len(s) + p + 1] = t[p + 1]
  <2>1. s \in Seq(Glyph) /\ t \in Seq(Glyph)
    BY BytesRight
  <2> QED BY <2>1, Parts
<1>2. /\ \A p \in 0..(Len(s) - 1) : AtBoundary(u, p) <=> AtBoundary(s, p)
      /\ \A p \in 0..Len(t) : AtBoundary(u, Len(s) + p) <=> AtBoundary(t, p)
  BY <1>1, BoundaryParts
<1> HIDE DEF u
<1>3. AtBoundary(u, Len(s))
  <2>1. AtBoundary(t, 0) /\ 0 \in 0..Len(t) /\ Len(s) + 0 = Len(s)
    BY <1>1, BytesRight, BoundaryIs
  <2> QED BY <1>2, <2>1
<1>4. ASSUME NEW p \in 0..(Len(u) - 1)
      PROVE  IF u[p + 1] = Cont THEN p > 0 ELSE Whole(u, p)
  <2>1. CASE p < Len(s)
    <3>1. p \in 0..(Len(s) - 1) /\ u[p + 1] = s[p + 1]
      BY <1>1, <2>1
    <3>2. CASE u[p + 1] = Cont
      BY <3>1, <3>2 DEF TextOK
    <3>3. CASE u[p + 1] # Cont
      <4> DEFINE w == Width(s[p + 1])
      <4>1. w \in 1..4
        BY <1>1, <3>1, <3>3, GlyphRight, WidthRight
      <4> HIDE DEF w
      <4>2. /\ p + w <= Len(s) /\ AtBoundary(s, p + w)
            /\ \A q \in (p + 1)..(p + w - 1) : s[q + 1] = Cont
        BY <3>1, <3>3 DEF TextOK, Whole, w
      <4>3. p + w <= Len(u) /\ AtBoundary(u, p + w)
        BY <1>1, <1>2, <1>3, <4>1, <4>2
      <4>4. \A q \in (p + 1)..(p + w - 1) : u[q + 1] = Cont
        BY <1>1, <4>1, <4>2
      <4>5. Width(u[p + 1]) = w
        BY <3>1 DEF w
      <4> QED BY <3>3, <4>3, <4>4, <4>5 DEF Whole
    <3> QED BY <3>2, <3>3
  <2>2. CASE p >= Len(s)
    <3> DEFINE r == p - Len(s)
    <3>1. r \in 0..(Len(t) - 1) /\ p = Len(s) + r /\ u[p + 1] = t[r + 1]
      <4>1. r \in 0..(Len(t) - 1) /\ p = Len(s) + r /\ p + 1 = Len(s) + r + 1
        BY <1>1, <2>2
      <4> HIDE DEF r
      <4> QED BY <1>1, <4>1
    <3> HIDE DEF r
    <3>2. CASE u[p + 1] = Cont
      <4>1. r > 0
        BY <3>1, <3>2 DEF TextOK
      <4> QED BY <1>1, <3>1, <3>2, <4>1
    <3>3. CASE u[p + 1] # Cont
      <4> DEFINE w == Width(t[r + 1])
      <4>1. w \in 1..4
        BY <1>1, <3>1, <3>3, GlyphRight, WidthRight
      <4> HIDE DEF w
      <4>2. /\ r + w <= Len(t) /\ AtBoundary(t, r + w)
            /\ \A q \in (r + 1)..(r + w - 1) : t[q + 1] = Cont
        BY <3>1, <3>3 DEF TextOK, Whole, w
      <4>3. p + w <= Len(u) /\ AtBoundary(u, p + w)
        <5>1. r + w \in 0..Len(t) /\ p + w = Len(s) + (r + w)
          BY <1>1, <3>1, <4>1, <4>2
        <5> QED BY <1>1, <1>2, <4>2, <5>1
      <4>4. ASSUME NEW q \in (p + 1)..(p + w - 1) PROVE u[q + 1] = Cont
        <5>1. /\ q - Len(s) \in (r + 1)..(r + w - 1) /\ q - Len(s) \in 0..(Len(t) - 1)
              /\ q + 1 = Len(s) + (q - Len(s)) + 1
          <6>1. /\ Len(s) \in Nat /\ Len(t) \in Nat /\ r \in 0..(Len(t) - 1) /\ p = Len(s) + r
                /\ r + w <= Len(t)
            BY <1>1, <3>1, <4>2
          <6> QED BY <4>1, <6>1
        <5> QED BY <1>1, <4>2, <5>1
      <4>5. Width(u[p + 1]) = w
        BY <3>1 DEF w
      <4> QED BY <3>3, <4>3, <4>4, <4>5 DEF Whole
    <3> QED BY <3>2, <3>3
  <2> QED BY <1>1, <2>1, <2>2
<1>5. TextOK(u)
  BY <1>1, <1>4 DEF TextOK
<1> QED BY <1>5 DEF u

\* And one that is cut between two characters makes two.
LEMMA TextCut ==
  ASSUME NEW s \in Seq(Glyph), NEW t \in Seq(Glyph), TextOK(s \o t), Len(s) \in Boundaries(s \o t)
  PROVE  TextOK(s) /\ TextOK(t)
<1> DEFINE u == s \o t
<1>1. /\ u \in Seq(Glyph) /\ Len(u) = Len(s) + Len(t)
      /\ Len(s) \in Nat /\ Len(t) \in Nat
      /\ \A p \in 0..(Len(s) - 1) : u[p + 1] = s[p + 1]
      /\ \A p \in 0..(Len(t) - 1) : u[Len(s) + p + 1] = t[p + 1]
  BY Parts
<1>2. /\ \A p \in 0..(Len(s) - 1) : AtBoundary(u, p) <=> AtBoundary(s, p)
      /\ \A p \in 0..Len(t) : AtBoundary(u, Len(s) + p) <=> AtBoundary(t, p)
  BY <1>1, BoundaryParts
<1>3. TextOK(u) /\ AtBoundary(u, Len(s))
  BY <1>1, BoundaryIs
<1> HIDE DEF u
<1>4. AtBoundary(t, 0)
  <2>1. 0 \in 0..Len(t) /\ Len(s) + 0 = Len(s)
    BY <1>1
  <2> QED BY <1>2, <1>3, <2>1
<1>5. AtBoundary(s, Len(s))
  BY <1>1 DEF AtBoundary
<1>6. ASSUME NEW p \in 0..(Len(s) - 1)
      PROVE  IF s[p + 1] = Cont THEN p > 0 ELSE Whole(s, p)
  <2>1. p \in 0..(Len(u) - 1) /\ u[p + 1] = s[p + 1]
    BY <1>1
  <2>2. CASE s[p + 1] = Cont
    BY <1>3, <2>1, <2>2 DEF TextOK
  <2>3. CASE s[p + 1] # Cont
    <3> DEFINE w == Width(s[p + 1])
    <3>1. w \in 1..4
      BY <2>3, GlyphRight, WidthRight
    <3> HIDE DEF w
    <3>2. /\ p + w <= Len(u) /\ AtBoundary(u, p + w)
          /\ \A q \in (p + 1)..(p + w - 1) : u[q + 1] = Cont
      BY <1>3, <2>1, <2>3 DEF TextOK, Whole, w
    <3>3. p + w <= Len(s)
      <4> SUFFICES ASSUME p + w > Len(s) PROVE FALSE
        BY <1>1, <3>1
      <4>1. Len(s) \in (p + 1)..(p + w - 1)
        BY <1>1, <3>1
      <4>2. u[Len(s) + 1] = Cont /\ Len(s) # Len(u)
        BY <1>1, <3>1, <3>2, <4>1
      <4> QED BY <1>3, <4>2 DEF AtBoundary
    <3>4. AtBoundary(s, p + w)
      BY <1>1, <1>2, <1>5, <3>1, <3>2, <3>3
    <3>5. \A q \in (p + 1)..(p + w - 1) : s[q + 1] = Cont
      BY <1>1, <3>1, <3>2, <3>3
    <3> QED BY <2>3, <3>3, <3>4, <3>5 DEF Whole, w
  <2> QED BY <2>2, <2>3
<1>7. ASSUME NEW p \in 0..(Len(t) - 1)
      PROVE  IF t[p + 1] = Cont THEN p > 0 ELSE Whole(t, p)
  <2>1. Len(s) + p \in 0..(Len(u) - 1) /\ u[Len(s) + p + 1] = t[p + 1]
    BY <1>1
  <2>2. CASE t[p + 1] = Cont
    <3>1. p # 0
      BY <1>1, <1>4, <2>2 DEF AtBoundary
    <3> QED BY <2>2, <3>1
  <2>3. CASE t[p + 1] # Cont
    <3> DEFINE w == Width(t[p + 1])
    <3>1. w \in 1..4
      BY <2>3, GlyphRight, WidthRight
    <3> HIDE DEF w
    <3>2. /\ Len(s) + p + w <= Len(u) /\ AtBoundary(u, Len(s) + p + w)
          /\ \A q \in (Len(s) + p + 1)..(Len(s) + p + w - 1) : u[q + 1] = Cont
      BY <1>3, <2>1, <2>3 DEF TextOK, Whole, w
    <3>3. p + w <= Len(t) /\ AtBoundary(t, p + w)
      <4>1. p + w \in 0..Len(t) /\ Len(s) + p + w = Len(s) + (p + w)
        BY <1>1, <3>1, <3>2
      <4> QED BY <1>2, <3>2, <4>1
    <3>4. ASSUME NEW q \in (p + 1)..(p + w - 1) PROVE t[q + 1] = Cont
      <4>1. /\ Len(s) + q \in (Len(s) + p + 1)..(Len(s) + p + w - 1) /\ q \in 0..(Len(t) - 1)
        BY <1>1, <3>1, <3>3
      <4>2. u[Len(s) + q + 1] = Cont
        BY <3>2, <4>1
      <4> QED BY <1>1, <4>1, <4>2
    <3> QED BY <2>3, <3>3, <3>4 DEF Whole, w
  <2> QED BY <2>2, <2>3
<1> QED BY <1>6, <1>7 DEF TextOK

-----------------------------------------------------------------------------
(***************************************************************************)
(* Cutting texts, and what the places between two characters are.          *)
(***************************************************************************)
\* A text is what precedes an offset and what follows it.
LEMMA CutRight ==
  ASSUME NEW t \in Seq(Glyph), NEW p \in 0..Len(t)
  PROVE  /\ SubSeq(t, 1, p) \in Seq(Glyph) /\ Len(SubSeq(t, 1, p)) = p
         /\ SubSeq(t, p + 1, Len(t)) \in Seq(Glyph)
         /\ Len(SubSeq(t, p + 1, Len(t))) = Len(t) - p
         /\ SubSeq(t, 1, p) \o SubSeq(t, p + 1, Len(t)) = t
<1>1. Len(t) \in Nat /\ \A n \in 1..Len(t) : t[n] \in Glyph
  BY LenProperties, ElementOfSeq
<1>2. p \in Int /\ p + 1 \in Int /\ 1 \in Int /\ Len(t) \in Int
  BY <1>1
<1>3. \A n \in 1..p : t[n] \in Glyph
  BY <1>1
<1>4. \A n \in (p + 1)..Len(t) : t[n] \in Glyph
  BY <1>1
<1>5. SubSeq(t, 1, p) \in Seq(Glyph) /\ Len(SubSeq(t, 1, p)) = p
  <2>1. /\ SubSeq(t, 1, p) \in Seq(Glyph)
        /\ Len(SubSeq(t, 1, p)) = IF 1 <= p THEN p - 1 + 1 ELSE 0
    BY <1>2, <1>3, SubSeqProperties
  <2> QED BY <2>1
<1>6. /\ SubSeq(t, p + 1, Len(t)) \in Seq(Glyph)
      /\ Len(SubSeq(t, p + 1, Len(t))) = Len(t) - p
  <2>1. /\ SubSeq(t, p + 1, Len(t)) \in Seq(Glyph)
        /\ Len(SubSeq(t, p + 1, Len(t))) =
             IF p + 1 <= Len(t) THEN Len(t) - (p + 1) + 1 ELSE 0
    BY <1>2, <1>4, SubSeqProperties
  <2> QED BY <1>1, <2>1
<1>7. SubSeq(t, 1, p) \o SubSeq(t, p + 1, Len(t)) = t
  <2>1. 1 \in 1..(Len(t) + 1) /\ p \in (1 - 1)..Len(t) /\ Len(t) \in p..Len(t)
    BY <1>1
  <2>2. SubSeq(t, 1, p) \o SubSeq(t, p + 1, Len(t)) = SubSeq(t, 1, Len(t))
    BY <2>1, ConcatAdjacentSubSeq
  <2> QED BY <2>2, SubSeqFull
<1> QED BY <1>5, <1>6, <1>7

\* And each part of two is found again in the whole.
LEMMA UncutRight ==
  ASSUME NEW s \in Seq(Glyph), NEW t \in Seq(Glyph)
  PROVE  /\ SubSeq(s \o t, 1, Len(s)) = s
         /\ SubSeq(s \o t, Len(s) + 1, Len(s \o t)) = t
<1> DEFINE u == s \o t
<1>1. u \in Seq(Glyph) /\ Len(u) = Len(s) + Len(t) /\ Len(s) \in Nat /\ Len(t) \in Nat
  BY Parts
<1>2. \A i \in 1..(Len(s) + Len(t)) : u[i] = IF i <= Len(s) THEN s[i] ELSE t[i - Len(s)]
  BY ConcatProperties
<1> HIDE DEF u
<1> DEFINE a == SubSeq(u, 1, Len(s))
           z == SubSeq(u, Len(s) + 1, Len(u))
<1>3. \A i \in 1..Len(u) : u[i] \in Glyph
  BY <1>1, ElementOfSeq
<1>4. a \in Seq(Glyph) /\ Len(a) = Len(s) /\ \A i \in 1..Len(s) : a[i] = u[i]
  <2>1. 1 \in Int /\ Len(s) \in Int /\ \A i \in 1..Len(s) : u[i] \in Glyph
    BY <1>1, <1>3
  <2>2. /\ a \in Seq(Glyph) /\ Len(a) = IF 1 <= Len(s) THEN Len(s) - 1 + 1 ELSE 0
        /\ \A i \in 1..(Len(s) - 1 + 1) : a[i] = u[1 + i - 1]
    BY <2>1, SubSeqProperties
  <2> HIDE DEF a
  <2>3. Len(s) - 1 + 1 = Len(s) /\ \A i \in 1..Len(s) : 1 + i - 1 = i
    BY <1>1
  <2> QED BY <1>1, <2>2, <2>3
<1>5. z \in Seq(Glyph) /\ Len(z) = Len(t) /\ \A i \in 1..Len(t) : z[i] = u[Len(s) + i]
  <2>1. Len(s) + 1 \in Int /\ Len(u) \in Int /\ \A i \in (Len(s) + 1)..Len(u) : u[i] \in Glyph
    BY <1>1, <1>3
  <2>2. /\ z \in Seq(Glyph)
        /\ Len(z) = IF Len(s) + 1 <= Len(u) THEN Len(u) - (Len(s) + 1) + 1 ELSE 0
        /\ \A i \in 1..(Len(u) - (Len(s) + 1) + 1) : z[i] = u[Len(s) + 1 + i - 1]
    BY <2>1, SubSeqProperties
  <2> HIDE DEF z
  <2>3. /\ Len(u) - (Len(s) + 1) + 1 = Len(t) /\ (Len(s) + 1 <= Len(u) <=> Len(t) # 0)
        /\ \A i \in 1..Len(t) : Len(s) + 1 + i - 1 = Len(s) + i
    BY <1>1
  <2>4. \A i \in 1..Len(t) : z[i] = u[Len(s) + i]
    BY <2>2, <2>3
  <2> QED BY <2>2, <2>3, <2>4
<1> HIDE DEF a, z
<1>6. a = s
  <2>1. \A i \in 1..Len(s) : a[i] = s[i]
    BY <1>1, <1>2, <1>4
  <2> QED BY <1>4, <2>1, SeqEqual
<1>7. z = t
  <2>1. ASSUME NEW i \in 1..Len(t) PROVE z[i] = t[i]
    <3>1. /\ Len(s) + i \in 1..(Len(s) + Len(t)) /\ ~(Len(s) + i <= Len(s))
          /\ (Len(s) + i) - Len(s) = i
      BY <1>1
    <3> QED BY <1>2, <1>5, <3>1
  <2> QED BY <1>5, <2>1, SeqEqual
<1> QED BY <1>6, <1>7 DEF a, z, u

\* The same for the bytes of a line.
LEMMA LineIsText ==
  ASSUME NEW t \in Seq(Byte)
  PROVE  t \in Seq(Glyph)
BY SeqMonotonic DEF Glyph

\* Both parts of a line that is cut are lines,
LEMMA CutLine ==
  ASSUME NEW t \in Seq(Byte), NEW p \in 0..Len(t)
  PROVE  SubSeq(t, 1, p) \in Seq(Byte) /\ SubSeq(t, p + 1, Len(t)) \in Seq(Byte)
<1>1. Len(t) \in Nat /\ \A n \in 1..Len(t) : t[n] \in Byte
  BY LenProperties, ElementOfSeq
<1>2. p \in Int /\ p + 1 \in Int /\ 1 \in Int /\ Len(t) \in Int
  BY <1>1
<1>3. \A n \in 1..p : t[n] \in Byte
  BY <1>1
<1>4. \A n \in (p + 1)..Len(t) : t[n] \in Byte
  BY <1>1
<1>5. SubSeq(t, 1, p) \in Seq(Byte)
  BY <1>2, <1>3, SubSeqProperties
<1>6. SubSeq(t, p + 1, Len(t)) \in Seq(Byte)
  BY <1>2, <1>4, SubSeqProperties
<1> QED BY <1>5, <1>6

\* and so is a line after a replacement.
LEMMA SpliceLine ==
  ASSUME NEW t \in Seq(Byte), NEW new \in Seq(Byte), NEW from \in 0..Len(t), NEW to \in 0..Len(t)
  PROVE  Splice(t, from, to, new) \in Seq(Byte)
<1>1. SubSeq(t, 1, from) \in Seq(Byte) /\ SubSeq(t, to + 1, Len(t)) \in Seq(Byte)
  BY CutLine
<1>2. SubSeq(t, 1, from) \o new \in Seq(Byte)
  BY <1>1, ConcatProperties
<1>3. SubSeq(t, 1, from) \o new \o SubSeq(t, to + 1, Len(t)) \in Seq(Byte)
  BY <1>1, <1>2, ConcatProperties
<1> QED BY <1>3 DEF Splice

\* Where two texts meet is a place between two characters.
LEMMA SeamIsBoundary ==
  ASSUME NEW s \in Seq(Glyph), NEW t, TextOK(t)
  PROVE  Len(s) \in Boundaries(s \o t)
<1>1. t \in Seq(Glyph) /\ 0 \in Boundaries(t) /\ Len(t) \in Nat /\ Len(s) \in Nat
  BY BytesRight, GlyphRight
<1>2. AtBoundary(t, 0) /\ 0 \in 0..Len(t) /\ Len(s) + 0 = Len(s)
  BY <1>1, BoundaryIs
<1>3. AtBoundary(s \o t, Len(s) + 0)
  BY <1>1, <1>2, BoundaryParts
<1>4. s \o t \in Seq(Glyph)
  BY <1>1, Parts
<1> QED BY <1>2, <1>3, <1>4, BoundaryIs

\* A text that is cut at such a place makes two.
LEMMA CutText ==
  ASSUME NEW t, TextOK(t), NEW p \in Boundaries(t)
  PROVE  TextOK(SubSeq(t, 1, p)) /\ TextOK(SubSeq(t, p + 1, Len(t)))
<1> DEFINE a == SubSeq(t, 1, p)
           z == SubSeq(t, p + 1, Len(t))
<1>1. t \in Seq(Glyph) /\ p \in 0..Len(t)
  BY BytesRight
<1>2. a \in Seq(Glyph) /\ Len(a) = p /\ z \in Seq(Glyph) /\ a \o z = t
  BY <1>1, CutRight
<1> HIDE DEF a, z
<1>3. TextOK(a \o z) /\ Len(a) \in Boundaries(a \o z)
  BY <1>2
<1>4. TextOK(a) /\ TextOK(z)
  BY <1>2, <1>3, TextCut
<1> QED BY <1>4 DEF a, z

\* And putting a text between two places leaves one.
LEMMA SpliceText ==
  ASSUME NEW t, TextOK(t), NEW from \in Boundaries(t), NEW to \in Boundaries(t),
         NEW new, TextOK(new)
  PROVE  /\ TextOK(Splice(t, from, to, new)) /\ from \in Boundaries(Splice(t, from, to, new))
         /\ from + Len(new) \in Boundaries(Splice(t, from, to, new))
<1> DEFINE a == SubSeq(t, 1, from)
           z == SubSeq(t, to + 1, Len(t))
<1>1. TextOK(a) /\ TextOK(z)
  BY CutText
<1>2. t \in Seq(Glyph) /\ from \in 0..Len(t) /\ new \in Seq(Glyph)
  BY BytesRight
<1>3. Len(a) = from
  BY <1>2, CutRight
<1>4. Splice(t, from, to, new) = (a \o new) \o z
  BY DEF Splice
<1> HIDE DEF a, z
<1>5. TextOK(a \o new) /\ a \in Seq(Glyph) /\ z \in Seq(Glyph)
  BY <1>1, TextConcat, BytesRight
<1>6. TextOK((a \o new) \o z)
  BY <1>1, <1>5, TextConcat
<1>7. a \o new \in Seq(Glyph) /\ Len(a \o new) = from + Len(new)
  BY <1>2, <1>3, <1>5, Parts
<1>8. from + Len(new) \in Boundaries((a \o new) \o z)
  BY <1>1, <1>7, SeamIsBoundary
<1>9. from \in Boundaries((a \o new) \o z)
  <2>1. (a \o new) \o z = a \o (new \o z)
    BY <1>2, <1>5, ConcatAssociative, SMTT(20)
  <2>2. TextOK(new \o z)
    BY <1>1, TextConcat
  <2> QED BY <1>3, <1>5, <2>1, <2>2, SeamIsBoundary
<1> QED BY <1>4, <1>6, <1>8, <1>9

\* No bytes are a text.
LEMMA NoBytes == TextOK(<<>>) /\ <<>> \in Seq(Byte) /\ Len(<<>>) = 0
<1>1. <<>> \in Seq(Glyph) /\ <<>> \in Seq(Byte) /\ Len(<<>>) = 0
  BY EmptySeq
<1>2. 0..(Len(<<>>) - 1) = {}
  BY <1>1
<1> QED BY <1>1, <1>2 DEF TextOK

\* A line end is one, and one character.
LEMMA LineEndRight ==
  /\ TextOK(<<NewLine>>) /\ <<NewLine>> \in Seq(Glyph) /\ Len(<<NewLine>>) = 1
  /\ <<NewLine>>[1] = NewLine /\ NewLine # Cont
<1> DEFINE t == <<NewLine>>
<1>1. t \in Seq(Glyph) /\ Len(t) = 1 /\ t[1] = NewLine /\ NewLine # Cont
  BY DEF Glyph, NewLine, Cont
<1> HIDE DEF t
<1>2. ASSUME NEW p \in 0..(Len(t) - 1) PROVE p = 0 /\ t[p + 1] = NewLine /\ Whole(t, 0)
  <2>1. p = 0 /\ t[p + 1] = NewLine /\ t[0 + 1] = NewLine
    BY <1>1
  <2>2. Width(t[0 + 1]) = 1
    BY <2>1 DEF Width
  <2>3. AtBoundary(t, 0 + 1)
    BY <1>1 DEF AtBoundary
  <2>4. (0 + 1)..(0 + Width(t[0 + 1]) - 1) = {} /\ 0 + Width(t[0 + 1]) = 1 /\ 0 + 1 = 1
    BY <2>2
  <2>5. Whole(t, 0)
    BY <1>1, <2>3, <2>4 DEF Whole
  <2> QED BY <2>1, <2>5
<1>3. TextOK(t)
  <2>1. ASSUME NEW p \in 0..(Len(t) - 1) PROVE IF t[p + 1] = Cont THEN p > 0 ELSE Whole(t, p)
    BY <1>1, <1>2
  <2> QED BY <1>1, <2>1 DEF TextOK
<1> QED BY <1>1, <1>3 DEF t

\* The bytes of a character are a text of one character.
LEMMA EncodeRight ==
  ASSUME NEW c \in Chars
  PROVE  /\ Encode(c) \in Seq(Byte) /\ TextOK(Encode(c)) /\ Valid(Encode(c))
         /\ Len(Encode(c)) = Bytes[c] /\ Bytes[c] \in 1..4
         /\ Characters(Encode(c)) = <<c>>
<1> DEFINE t == Encode(c)
           N == Bytes[c]
<1>1. N \in 1..4 /\ c # Cont /\ c \in Symbol /\ Width(c) = N
  BY Utf8Assumption, WidthRight DEF Symbol
<1>2. t \in [1..N -> Byte] /\ t[1] = c /\ \A k \in 2..N : t[k] = Cont
  BY <1>1 DEF Encode, Byte
<1> HIDE DEF t, N
<1>3. t \in Seq(Byte) /\ Len(t) = N /\ t \in Seq(Glyph)
  <2>1. t \in Seq(Byte) /\ Len(t) = N
    BY <1>1, <1>2
  <2> QED BY <2>1, LineIsText
<1>4. AtBoundary(t, 0 + N)
  BY <1>1, <1>3 DEF AtBoundary
<1>5. \A p \in 0..(Len(t) - 1) : IF t[p + 1] = Cont THEN p > 0 ELSE Whole(t, p)
  <2> SUFFICES ASSUME NEW p \in 0..(Len(t) - 1)
               PROVE  IF t[p + 1] = Cont THEN p > 0 ELSE Whole(t, p)
    OBVIOUS
  <2>1. CASE p = 0
    <3>1. t[0 + 1] = c
      BY <1>2
    <3>2. \A q \in (0 + 1)..(0 + N - 1) : t[q + 1] = Cont
      BY <1>1, <1>2
    <3>3. 0 + N <= Len(t)
      BY <1>1, <1>3
    <3>4. Whole(t, 0)
      BY <1>1, <1>4, <3>1, <3>2, <3>3 DEF Whole
    <3> QED BY <1>1, <2>1, <3>1, <3>4
  <2>2. CASE p # 0
    <3>1. p + 1 \in 2..N /\ p > 0
      BY <1>1, <1>3, <2>2
    <3> QED BY <1>2, <3>1
  <2> QED BY <2>1, <2>2
<1>6. TextOK(t)
  BY <1>3, <1>5 DEF TextOK
<1>7. Characters(t) = <<c>>
  <2> DEFINE h == [n \in 0..N |-> IF n = 0 THEN <<>> ELSE <<c>>]
  <2>1. <<>> \in Seq(Symbol) /\ <<c>> \in Seq(Symbol) /\ Append(<<>>, c) = <<c>>
    BY <1>1
  <2>2. h \in [0..N -> Seq(Symbol)] /\ h[0] = <<>>
    BY <1>1, <2>1
  <2>3. ASSUME NEW n \in 1..N
        PROVE  h[n] = IF t[n] = Cont THEN h[n - 1] ELSE Append(h[n - 1], t[n])
    <3>1. CASE n = 1
      <4>1. h[1] = <<c>> /\ h[n - 1] = <<>>
        BY <1>1, <3>1
      <4> QED BY <1>1, <1>2, <2>1, <3>1, <4>1
    <3>2. CASE n # 1
      <4>1. n \in 2..N /\ n \in 0..N /\ n - 1 \in 0..N /\ n # 0 /\ n - 1 # 0
        BY <1>1, <3>2
      <4>2. h[n] = <<c>> /\ h[n - 1] = <<c>>
        BY <4>1
      <4> QED BY <1>2, <4>1, <4>2
    <3> QED BY <3>1, <3>2
  <2>4. Ofs(h, t)
    <3> HIDE DEF h
    <3> QED BY <1>3, <2>2, <2>3 DEF Ofs
  <2>5. Characters(t) = h[N]
    BY <1>3, <2>4, CharactersAre
  <2>6. h[N] = <<c>>
    BY <1>1
  <2> QED BY <2>5, <2>6
<1> QED BY <1>1, <1>3, <1>6, <1>7, ValidIs DEF t, N

\* A line end is one character.
LEMMA LineEndCharacter == Characters(<<NewLine>>) = <<NewLine>>
<1> DEFINE t == <<NewLine>>
           h == [n \in 0..1 |-> IF n = 0 THEN <<>> ELSE <<NewLine>>]
<1>1. t \in Seq(Glyph) /\ Len(t) = 1 /\ t[1] = NewLine /\ NewLine # Cont
  BY LineEndRight
<1>2. <<>> \in Seq(Symbol) /\ <<NewLine>> \in Seq(Symbol) /\ Append(<<>>, NewLine) = <<NewLine>>
  BY DEF Symbol
<1>3. h \in [0..1 -> Seq(Symbol)] /\ h[0] = <<>> /\ h[1] = <<NewLine>>
  BY <1>2
<1> HIDE DEF t, h
<1>4. \A n \in 1..Len(t) : h[n] = IF t[n] = Cont THEN h[n - 1] ELSE Append(h[n - 1], t[n])
  <2> SUFFICES ASSUME NEW n \in 1..Len(t)
               PROVE  h[n] = IF t[n] = Cont THEN h[n - 1] ELSE Append(h[n - 1], t[n])
    OBVIOUS
  <2>1. n = 1 /\ n - 1 = 0
    BY <1>1
  <2> QED BY <1>1, <1>2, <1>3, <2>1
<1>5. Ofs(h, t)
  BY <1>1, <1>3, <1>4 DEF Ofs
<1>6. Characters(t) = <<NewLine>>
  BY <1>1, <1>3, <1>5, CharactersAre
<1> QED BY <1>6 DEF t

-----------------------------------------------------------------------------
(***************************************************************************)
(* The places that the operations look for in a line.                      *)
(***************************************************************************)
GoodLine(t) == t \in Seq(Byte) /\ TextOK(t)

\* The places of a line are offsets in it, its two ends among them.
LEMMA PlacesOfLine ==
  ASSUME NEW t, GoodLine(t)
  PROVE  /\ t \in Seq(Byte) /\ t \in Seq(Glyph) /\ TextOK(t) /\ Len(t) \in Nat
         /\ 0 \in Boundaries(t) /\ Len(t) \in Boundaries(t) /\ Boundaries(t) \subseteq 0..Len(t)
         /\ \A p : p \in Boundaries(t) <=> AtBoundary(t, p)
BY BytesRight, BoundaryIs DEF GoodLine

\* The character before a boundary starts at the nearest boundary before it.
LEMMA PrevCharRight ==
  ASSUME NEW t, GoodLine(t), NEW p \in Boundaries(t)
  PROVE  /\ PrevChar(t, p) \in Boundaries(t) /\ PrevChar(t, p) <= p
         /\ p > 0 => PrevChar(t, p) < p /\ \A q \in Boundaries(t) : q < p => q <= PrevChar(t, p)
<1>1. p \in 0..Len(t) /\ Len(t) \in Nat /\ 0 \in Boundaries(t)
  BY PlacesOfLine
<1>2. CASE p = 0
  BY <1>1, <1>2 DEF PrevChar
<1>3. CASE p # 0
  <2> DEFINE S == {q \in 0..(p - 1) : q = 0 \/ StartsAt(t, q)}
  <2>1. p - 1 \in Nat /\ S \subseteq 0..(p - 1) /\ 0 \in S
    BY <1>1, <1>3
  <2>2. Max(S) \in S /\ \A y \in S : y <= Max(S)
    <3> HIDE DEF S
    <3> QED BY <2>1, MaxRight
  <2>3. PrevChar(t, p) = Max(S)
    BY <1>3 DEF PrevChar
  <2>4. Max(S) \in 0..(p - 1) /\ (Max(S) = 0 \/ StartsAt(t, Max(S)))
    BY <2>2
  <2>5. \A q \in Boundaries(t) : q < p => q \in S
    <3> SUFFICES ASSUME NEW q \in Boundaries(t), q < p PROVE q \in S
      OBVIOUS
    <3>1. q \in 0..(p - 1) /\ q # Len(t)
      BY <1>1, PlacesOfLine
    <3>2. StartsAt(t, q)
      BY <3>1 DEF Boundaries
    <3> QED BY <3>1, <3>2
  <2> HIDE DEF S
  <2>6. Max(S) \in Boundaries(t)
    <3>1. Max(S) \in 0..Len(t)
      BY <1>1, <2>4
    <3> QED BY <1>1, <2>4, <3>1 DEF Boundaries
  <2>7. Max(S) < p
    BY <1>1, <2>4
  <2> QED BY <1>1, <2>2, <2>3, <2>4, <2>5, <2>6, <2>7
<1> QED BY <1>2, <1>3

\* The next place is behind the whole character.
LEMMA NextCharRight ==
  ASSUME NEW t, GoodLine(t), NEW p \in Boundaries(t)
  PROVE  /\ NextChar(t, p) \in Boundaries(t)
         /\ p < Len(t) => /\ t[p + 1] \in Chars /\ NextChar(t, p) = p + Bytes[t[p + 1]]
                          /\ NextChar(t, p) > p /\ NextChar(t, p) <= Len(t)
                          /\ \A q \in (p + 1)..(NextChar(t, p) - 1) : t[q + 1] = Cont
<1>1. p \in 0..Len(t) /\ Len(t) \in Nat /\ Len(t) \in Boundaries(t)
  BY PlacesOfLine
<1>2. CASE p = Len(t)
  BY <1>1, <1>2 DEF NextChar
<1>3. CASE p # Len(t)
  <2>1. p \in 0..(Len(t) - 1) /\ p + 1 \in 1..Len(t) /\ p < Len(t) /\ ~(p >= Len(t))
    BY <1>1, <1>3
  <2>2. t[p + 1] # Cont
    BY <1>3, PlacesOfLine DEF AtBoundary
  <2>3. t[p + 1] \in Chars /\ t[p + 1] \in Symbol
    <3>1. t[p + 1] \in Byte
      BY <2>1, PlacesOfLine, ElementOfSeq
    <3> QED BY <2>2, <3>1 DEF Byte, Symbol
  <2>4. Width(t[p + 1]) = Bytes[t[p + 1]] /\ Bytes[t[p + 1]] \in 1..4
    BY <2>3, WidthRight
  <2>5. Whole(t, p)
    BY <2>1, <2>2, PlacesOfLine DEF TextOK
  <2>6. NextChar(t, p) = p + Bytes[t[p + 1]]
    BY <2>1, <2>2 DEF NextChar, StartsAt
  <2> DEFINE w == Bytes[t[p + 1]]
  <2>7. p + w <= Len(t) /\ AtBoundary(t, p + w) /\ \A q \in (p + 1)..(p + w - 1) : t[q + 1] = Cont
    BY <2>4, <2>5 DEF Whole
  <2>8. p + w \in Boundaries(t)
    BY <2>7, PlacesOfLine
  <2>9. w \in 1..4 /\ NextChar(t, p) = p + w
    BY <2>4, <2>6
  <2>10. p + w > p
    BY <1>1, <2>9
  <2>11. ASSUME NEW q \in (p + 1)..(NextChar(t, p) - 1) PROVE t[q + 1] = Cont
    <3>1. NextChar(t, p) = p + Width(t[p + 1])
      BY <2>4, <2>6
    <3> QED BY <1>1, <2>4, <2>5, <3>1 DEF Whole
  <2>12. NextChar(t, p) > p /\ NextChar(t, p) <= Len(t) /\ NextChar(t, p) \in Boundaries(t)
    <3> HIDE DEF w
    <3> QED BY <2>7, <2>8, <2>9, <2>10
  <2> QED BY <2>3, <2>6, <2>11, <2>12
<1> QED BY <1>2, <1>3

\* The boundary at or before a place is one.
LEMMA AtOrBeforeRight ==
  ASSUME NEW t, GoodLine(t), NEW p \in Nat
  PROVE  /\ AtOrBefore(t, p) \in Boundaries(t) /\ AtOrBefore(t, p) <= p
         /\ p \in Boundaries(t) => AtOrBefore(t, p) = p
<1>1. Len(t) \in Nat /\ Len(t) \in Boundaries(t) /\ 0 \in Boundaries(t)
      /\ Boundaries(t) \subseteq 0..Len(t)
  BY PlacesOfLine
<1>2. CASE p >= Len(t)
  BY <1>1, <1>2 DEF AtOrBefore
<1>3. CASE ~(p >= Len(t))
  <2> DEFINE S == {q \in Boundaries(t) : q <= p}
  <2>1. S \subseteq 0..Len(t) /\ 0 \in S
    BY <1>1
  <2>2. p \in Boundaries(t) => p \in S
    OBVIOUS
  <2>3. \A q \in S : q \in Boundaries(t) /\ q <= p
    OBVIOUS
  <2>4. AtOrBefore(t, p) = Max(S)
    BY <1>3 DEF AtOrBefore
  <2> HIDE DEF S
  <2>5. Max(S) \in S /\ \A y \in S : y <= Max(S)
    BY <1>1, <2>1, MaxRight
  <2>6. Max(S) \in Boundaries(t) /\ Max(S) <= p /\ Max(S) \in Nat
    BY <1>1, <2>3, <2>5
  <2>7. p \in Boundaries(t) => p <= Max(S)
    BY <2>2, <2>5
  <2> QED BY <2>4, <2>6, <2>7
<1> QED BY <1>2, <1>3

\* A boundary is the boundary at or after itself.
LEMMA AtOrAfterRight ==
  ASSUME NEW t, GoodLine(t), NEW p \in Boundaries(t)
  PROVE  AtOrAfter(t, p) = p
<1>1. Len(t) \in Nat /\ Boundaries(t) \subseteq 0..Len(t)
  BY PlacesOfLine
<1>2. CASE p >= Len(t)
  BY <1>1, <1>2 DEF AtOrAfter
<1>3. CASE ~(p >= Len(t))
  <2> DEFINE S == {q \in Boundaries(t) : q >= p}
  <2>1. S \subseteq Nat /\ p \in S /\ \A q \in S : q >= p
    BY <1>1
  <2>2. AtOrAfter(t, p) = Min(S)
    BY <1>3 DEF AtOrAfter
  <2> HIDE DEF S
  <2>3. Min(S) \in S /\ \A y \in S : Min(S) <= y
    BY <2>1, MinRight
  <2>4. Min(S) <= p /\ Min(S) >= p /\ Min(S) \in Nat /\ p \in Nat
    BY <2>1, <2>3
  <2> QED BY <2>2, <2>4
<1> QED BY <1>2, <1>3

\* The columns between two places, a number.
LEMMA ColumnsRight ==
  ASSUME NEW t, NEW from \in Nat, NEW to \in Nat
  PROVE  ColumnsIn(t, from, to) \in Nat /\ ColumnsIn(t, from, from) = 0
<1> DEFINE S(q) == {p \in from..(q - 1) : StartsAt(t, p) /\ Columns[t[p + 1]] = 1}
<1>1. from \in Int /\ to - 1 \in Int
  OBVIOUS
<1>2. IsFiniteSet(from..(to - 1))
  BY <1>1, FS_Interval
<1>3. IsFiniteSet(S(to))
  BY <1>2, FS_Subset
<1>4. Cardinality(S(to)) \in Nat
  BY <1>3, FS_CardinalityType
<1>5. S(from) = {}
  OBVIOUS
<1>6. Cardinality(S(from)) = 0
  BY <1>5, FS_EmptySet
<1> QED BY <1>4, <1>6 DEF ColumnsIn

\* As many columns as fit end at a boundary.
LEMMA PrefixBytesRight ==
  ASSUME NEW t, GoodLine(t), NEW columns \in Nat
  PROVE  PrefixBytes(t, columns) \in Boundaries(t)
<1> DEFINE S == {p \in Boundaries(t) : ColumnsIn(t, 0, p) <= columns}
<1>1. Len(t) \in Nat /\ 0 \in Boundaries(t) /\ Boundaries(t) \subseteq 0..Len(t)
  BY PlacesOfLine
<1>2. S \subseteq 0..Len(t) /\ 0 \in S
  BY <1>1, ColumnsRight
<1>3. PrefixBytes(t, columns) = Max(S)
  BY DEF PrefixBytes
<1>4. \A q \in S : q \in Boundaries(t)
  OBVIOUS
<1> HIDE DEF S
<1>5. Max(S) \in S
  BY <1>1, <1>2, MaxRight
<1> QED BY <1>3, <1>4, <1>5

-----------------------------------------------------------------------------
(***************************************************************************)
(* The field.                                                              *)
(***************************************************************************)
\* The field uses the same operators on texts.
LEMMA FieldBoundaries ==
  ASSUME NEW t
  PROVE  Field!Boundaries(t) = Boundaries(t) /\ Field!Encode(t) = Encode(t)
BY DEF Field!Boundaries, Boundaries, Field!StartsAt, StartsAt, Field!Cont, Cont, Field!Encode,
       Encode

\* The field and the document are UTF-8 by the same test,
LEMMA FieldValid ==
  ASSUME NEW t
  PROVE  Field!Valid(t) <=> Valid(t)
BY FieldBoundaries, Zenon DEF Field!Valid, Valid, Field!Cont, Cont

\* step over characters alike, and are spliced alike.
LEMMA FieldSteps ==
  ASSUME NEW t, NEW p, NEW q, NEW new
  PROVE  /\ Field!PrevChar(t, p) = PrevChar(t, p) /\ Field!NextChar(t, p) = NextChar(t, p)
         /\ Field!Splice(t, p, q, new) = Splice(t, p, q, new)
<1>1. Field!PrevChar(t, p) = PrevChar(t, p)
  BY Zenon DEF Field!PrevChar, PrevChar, Field!Max, Max, Field!StartsAt, StartsAt, Field!Cont, Cont
<1>2. Field!NextChar(t, p) = NextChar(t, p)
  BY Zenon DEF Field!NextChar, NextChar, Field!StartsAt, StartsAt, Field!Cont, Cont
<1>3. Field!Splice(t, p, q, new) = Splice(t, p, q, new)
  BY Zenon DEF Field!Splice, Splice
<1> QED BY <1>1, <1>2, <1>3

\* The query is one of whole characters with its cursor between two of them.
FieldGood(f) ==
  /\ f \in [text : Seq(Byte), cursor : Nat]
  /\ Field!FieldOK(f)

\* A good field has a text that fits, and a cursor in it.
LEMMA FieldParts ==
  ASSUME NEW f, FieldGood(f)
  PROVE  /\ GoodLine(f.text) /\ f.cursor \in Boundaries(f.text) /\ f.cursor \in 0..Len(f.text)
         /\ Len(f.text) \in Nat /\ Len(f.text) <= MaxLen /\ MaxLen \in Nat
<1>1. f.text \in Seq(Byte) /\ Valid(f.text) /\ f.cursor \in Boundaries(f.text)
      /\ Len(f.text) <= MaxLen
  BY FieldBoundaries, FieldValid DEF FieldGood, Field!FieldOK
<1>2. GoodLine(f.text)
  BY <1>1, ValidIs DEF GoodLine
<1> QED BY <1>1, <1>2, PlacesOfLine, EditorAssumption

\* A text that fits and a boundary of it make a good field.
LEMMA FieldMade ==
  ASSUME NEW t, GoodLine(t), Len(t) <= MaxLen, NEW p \in Boundaries(t)
  PROVE  FieldGood([text |-> t, cursor |-> p])
<1>1. t \in Seq(Byte) /\ Valid(t) /\ p \in Nat
  BY PlacesOfLine, ValidIs
<1>2. Field!Valid(t) /\ p \in Field!Boundaries(t)
  BY <1>1, FieldBoundaries, FieldValid
<1> QED BY <1>1, <1>2 DEF FieldGood, Field!FieldOK

\* Each key leaves a valid query that is not too long, and the cursor between
\* two of its characters.
LEMMA KeyKeepsField ==
  ASSUME NEW f, FieldGood(f), NEW memory, NEW key \in Field!FieldKeys(f, memory)
  PROVE  FieldGood(key.field)
<1> DEFINE t == f.text
           p == f.cursor
<1>1. /\ GoodLine(t) /\ p \in Boundaries(t) /\ p \in 0..Len(t) /\ Len(t) \in Nat
      /\ Len(t) <= MaxLen /\ MaxLen \in Nat /\ TextOK(t) /\ t \in Seq(Byte) /\ t \in Seq(Glyph)
      /\ 0 \in Boundaries(t) /\ Len(t) \in Boundaries(t) /\ Boundaries(t) \subseteq 0..Len(t)
  BY FieldParts, PlacesOfLine
<1>3. \A to \in Boundaries(t) : FieldGood([f EXCEPT !.cursor = to])
  <2>1. ASSUME NEW to PROVE [f EXCEPT !.cursor = to] = [text |-> t, cursor |-> to]
    BY DEF FieldGood
  <2>2. ASSUME NEW to \in Boundaries(t) PROVE FieldGood([f EXCEPT !.cursor = to])
    <3>1. FieldGood([text |-> t, cursor |-> to])
      BY <1>1, <2>2, FieldMade
    <3> QED BY <2>1, <3>1
  <2> QED BY <2>2
<1>4. ASSUME NEW a \in Boundaries(t), NEW z \in Boundaries(t), a <= z, NEW new, GoodLine(new),
             Len(t) - (z - a) + Len(new) <= MaxLen
      PROVE  /\ FieldGood([text |-> Splice(t, a, z, new), cursor |-> a + Len(new)])
             /\ FieldGood([text |-> Splice(t, a, z, new), cursor |-> a])
  <2> HIDE DEF t, p
  <2>1. a \in 0..Len(t) /\ z \in 0..Len(t) /\ new \in Seq(Byte) /\ TextOK(new) /\ new \in Seq(Glyph)
    BY <1>1, <1>4, PlacesOfLine
  <2>2. Splice(t, a, z, new) \in Seq(Byte)
    BY <1>1, <2>1, SpliceLine
  <2>3. /\ TextOK(Splice(t, a, z, new)) /\ a \in Boundaries(Splice(t, a, z, new))
        /\ a + Len(new) \in Boundaries(Splice(t, a, z, new))
    BY <1>1, <2>1, SpliceText
  <2>4. Len(Splice(t, a, z, new)) <= MaxLen
    <3> DEFINE h == SubSeq(t, 1, a)
               e == SubSeq(t, z + 1, Len(t))
    <3>1. h \in Seq(Glyph) /\ Len(h) = a /\ e \in Seq(Glyph) /\ Len(e) = Len(t) - z
      BY <1>1, <2>1, CutRight
    <3>2. Splice(t, a, z, new) = (h \o new) \o e
      BY DEF Splice
    <3> HIDE DEF h, e
    <3>3. h \o new \in Seq(Glyph) /\ Len(h \o new) = a + Len(new) /\ Len(new) \in Nat
      BY <2>1, <3>1, Parts
    <3>4. Len((h \o new) \o e) = a + Len(new) + (Len(t) - z)
      BY <3>1, <3>3, Parts, ZenonT(20)
    <3>5. a + Len(new) + (Len(t) - z) = Len(t) - (z - a) + Len(new)
      BY <1>1, <2>1, <3>3
    <3> QED BY <1>4, <3>2, <3>4, <3>5
  <2> QED BY <2>2, <2>3, <2>4, FieldMade DEF GoodLine
<1>5. CASE key \in Field!FieldMoves(f)
  <2>1. PICK to \in {0, Len(t), PrevChar(t, p), NextChar(t, p)} :
          key = Field!Taken([f EXCEPT !.cursor = to])
    BY <1>5, FieldSteps DEF Field!FieldMoves
  <2>2. to \in Boundaries(t)
    <3> HIDE DEF t, p
    <3> QED BY <1>1, <2>1, PrevCharRight, NextCharRight
  <2>3. key.field = [f EXCEPT !.cursor = to]
    BY <2>1 DEF Field!Taken
  <2> QED BY <1>3, <2>2, <2>3
<1>6. ASSUME NEW c \in Chars, key = Field!FieldInsert(f, c, memory) PROVE FieldGood(key.field)
  <2>1. CASE Len(t) + Bytes[c] > MaxLen \/ ~memory
    <3>1. key.field = f
      BY <1>6, <2>1 DEF Field!FieldInsert, Field!Refused
    <3> QED BY <3>1
  <2>2. CASE ~(Len(t) + Bytes[c] > MaxLen \/ ~memory)
    <3>1. key.field = [text |-> Splice(t, p, p, Encode(c)), cursor |-> p + Bytes[c]]
      BY <1>6, <2>2, FieldSteps, FieldBoundaries DEF Field!FieldInsert, Field!Taken
    <3>2. GoodLine(Encode(c)) /\ Len(Encode(c)) = Bytes[c] /\ Bytes[c] \in 1..4
      BY EncodeRight DEF GoodLine
    <3>3. Len(t) - (p - p) + Len(Encode(c)) <= MaxLen /\ p <= p
      BY <1>1, <2>2, <3>2
    <3> HIDE DEF t, p
    <3>4. FieldGood([text |-> Splice(t, p, p, Encode(c)), cursor |-> p + Len(Encode(c))])
      BY <1>1, <1>4, <3>2, <3>3
    <3> QED BY <3>1, <3>2, <3>4
  <2> QED BY <2>1, <2>2
<1>7. CASE key = Field!FieldBackspace(f)
  <2> DEFINE q == PrevChar(t, p)
  <2>1. CASE p = 0
    <3>1. key.field = f
      BY <1>7, <2>1 DEF Field!FieldBackspace, Field!Refused
    <3> QED BY <3>1
  <2>2. CASE p # 0
    <3>1. key.field = [text |-> Splice(t, q, p, <<>>), cursor |-> q]
      BY <1>7, <2>2, FieldSteps DEF Field!FieldBackspace, Field!Taken
    <3> HIDE DEF t, p
    <3>2. q \in Boundaries(t) /\ q <= p
      BY <1>1, PrevCharRight
    <3> HIDE DEF q
    <3>3. GoodLine(<<>>) /\ Len(<<>>) = 0
      BY NoBytes DEF GoodLine
    <3>4. Len(t) - (p - q) + Len(<<>>) <= MaxLen
      <4>1. q \in 0..Len(t)
        BY <1>1, <3>2
      <4>2. Len(t) - (p - q) <= Len(t)
        BY <1>1, <3>2, <4>1
      <4> QED BY <1>1, <3>3, <4>1, <4>2
    <3> QED BY <1>1, <1>4, <3>1, <3>2, <3>3, <3>4
  <2> QED BY <2>1, <2>2
<1>8. CASE key = Field!FieldDelete(f)
  <2> DEFINE q == NextChar(t, p)
  <2>1. CASE p >= Len(t)
    <3>1. key.field = f
      BY <1>8, <2>1 DEF Field!FieldDelete, Field!Refused
    <3> QED BY <3>1
  <2>2. CASE ~(p >= Len(t))
    <3>1. key.field = [f EXCEPT !.text = Splice(t, p, q, <<>>)]
      BY <1>8, <2>2, FieldSteps DEF Field!FieldDelete, Field!Taken
    <3>2. key.field = [text |-> Splice(t, p, q, <<>>), cursor |-> p]
      BY <3>1 DEF FieldGood
    <3> HIDE DEF t, p
    <3>3. q \in Boundaries(t) /\ p < q
      BY <1>1, <2>2, NextCharRight
    <3> HIDE DEF q
    <3>4. GoodLine(<<>>) /\ Len(<<>>) = 0
      BY NoBytes DEF GoodLine
    <3>5. Len(t) - (q - p) + Len(<<>>) <= MaxLen /\ p <= q
      <4>1. q \in 0..Len(t)
        BY <1>1, <3>3
      <4>2. Len(t) - (q - p) <= Len(t)
        BY <1>1, <3>3, <4>1
      <4> QED BY <1>1, <3>3, <3>4, <4>1, <4>2
    <3> QED BY <1>1, <1>4, <3>2, <3>3, <3>4, <3>5
  <2> QED BY <2>1, <2>2
<1>9. CASE key = Field!FieldKillToEnd(f)
  <2>1. key.field = [f EXCEPT !.text = SubSeq(t, 1, p)]
    BY <1>9 DEF Field!FieldKillToEnd, Field!Taken
  <2>2. key.field = [text |-> SubSeq(t, 1, p), cursor |-> p]
    BY <2>1 DEF FieldGood
  <2> HIDE DEF t, p
  <2> DEFINE h == SubSeq(t, 1, p)
  <2>3. TextOK(h) /\ h \in Seq(Byte) /\ Len(h) = p
    BY <1>1, CutText, CutLine, CutRight
  <2> HIDE DEF h
  <2>4. p \in Boundaries(h)
    BY <2>3, PlacesOfLine DEF GoodLine
  <2>5. Len(h) <= MaxLen
    BY <1>1, <2>3
  <2> QED BY <2>2, <2>3, <2>4, <2>5, FieldMade DEF GoodLine, h
<1>10. CASE key = Field!Taken(Field!EmptyField)
  <2>1. key.field = [text |-> <<>>, cursor |-> 0]
    BY <1>10 DEF Field!Taken, Field!EmptyField
  <2>2. GoodLine(<<>>) /\ Len(<<>>) = 0
    BY NoBytes DEF GoodLine
  <2>3. 0 \in Boundaries(<<>>)
    BY <2>2, PlacesOfLine
  <2>4. Len(<<>>) <= MaxLen
    BY <1>1, <2>2
  <2> QED BY <2>1, <2>2, <2>3, <2>4, FieldMade
<1> QED BY <1>5, <1>6, <1>7, <1>8, <1>9, <1>10 DEF Field!FieldKeys

-----------------------------------------------------------------------------
(***************************************************************************)
(* The lines of a document in its text.                                    *)
(***************************************************************************)
\* Texts end to end.
LEMMA Assoc ==
  ASSUME NEW s \in Seq(Glyph), NEW t \in Seq(Glyph), NEW u \in Seq(Glyph)
  PROVE  (s \o t) \o u = s \o (t \o u)
BY ConcatAssociative

\* Where the parentheses are makes no difference.
Regroups(s, t, u) == (s \o t) \o u = s \o (t \o u)

\* Concatenation is associative.
LEMMA Regrouped == \A s, t, u \in Seq(Glyph) : Regroups(s, t, u)
BY Assoc DEF Regroups

\* Nothing is added by an empty text.
LEMMA EmptyEnds ==
  ASSUME NEW s \in Seq(Glyph)
  PROVE  s \o <<>> = s /\ <<>> \o s = s
BY ConcatEmptySeq

\* The end of a line is one byte.
LEMMA EndLine ==
  ASSUME NEW s \in Seq(Glyph)
  PROVE  s \o <<NewLine>> \in Seq(Glyph) /\ Len(s \o <<NewLine>>) = Len(s) + 1
<1>1. <<NewLine>> \in Seq(Glyph) /\ Len(<<NewLine>>) = 1
  BY LineEndRight
<1> DEFINE n == <<NewLine>>
<1> HIDE DEF n
<1>2. n \in Seq(Glyph) /\ Len(n) = 1
  BY <1>1 DEF n
<1>3. s \o n \in Seq(Glyph) /\ Len(s \o n) = Len(s) + 1
  BY <1>2, Parts
<1> QED BY <1>3 DEF n

\* What precedes a row.
Ahead(h, r) == IF r = 0 THEN <<>> ELSE h[r - 1] \o <<NewLine>>

\* The text up to a row is what is ahead of it and the row.
LEMMA AheadRight ==
  ASSUME NEW lines \in Rows, NEW h, Throughs(h, lines), NEW r \in 0..(Len(lines) - 1)
  PROVE  /\ Ahead(h, r) \in Seq(Glyph) /\ h[r] \in Seq(Glyph)
         /\ lines[r + 1] \in Seq(Byte) /\ lines[r + 1] \in Seq(Glyph)
         /\ h[r] = Ahead(h, r) \o lines[r + 1]
<1>1. Len(lines) \in Nat \ {0} /\ r + 1 \in 1..Len(lines)
  BY RowsRight
<1>2. lines[r + 1] \in Seq(Byte) /\ lines[r + 1] \in Seq(Glyph)
  BY <1>1, RowsRight
<1>3. h[r] \in Seq(Glyph)
  BY <1>1 DEF Throughs
<1>4. CASE r = 0
  <2>1. Ahead(h, r) = <<>> /\ h[r] = lines[r + 1]
    BY <1>1, <1>4 DEF Ahead, Throughs
  <2> QED BY <1>2, <1>3, <2>1, ConcatEmptySeq, EmptySeq
<1>5. CASE r # 0
  <2>1. r \in 1..(Len(lines) - 1) /\ r - 1 \in 0..(Len(lines) - 1)
    BY <1>1, <1>5
  <2>2. h[r - 1] \in Seq(Glyph) /\ h[r] = h[r - 1] \o <<NewLine>> \o lines[r + 1]
    BY <2>1 DEF Throughs
  <2>3. Ahead(h, r) = h[r - 1] \o <<NewLine>>
    BY <1>5 DEF Ahead
  <2>4. h[r - 1] \o <<NewLine>> \in Seq(Glyph)
    BY <2>2, LineEndRight, Parts
  <2> QED BY <1>2, <1>3, <2>2, <2>3, <2>4
<1> QED BY <1>4, <1>5

\* Lines that begin alike have texts that do.
BeginAlike(lines, lines2, r) ==
  r <= Len(lines2) - 1 /\ \A i \in 1..r : lines[i] = lines2[i]

\* Documents that begin alike have the same text ahead,
LEMMA SameHead ==
  ASSUME NEW lines \in Rows, NEW lines2 \in Rows, NEW h, Throughs(h, lines),
         NEW k, Throughs(k, lines2),
         NEW r \in 0..(Len(lines) - 1), BeginAlike(lines, lines2, r)
  PROVE  /\ Ahead(h, r) = Ahead(k, r)
         /\ lines[r + 1] = lines2[r + 1] => h[r] = k[r]
<1>1. Len(lines) \in Nat \ {0} /\ Len(lines2) \in Nat \ {0} /\ r \in 0..(Len(lines2) - 1)
      /\ \A i \in 1..r : lines[i] = lines2[i]
  BY RowsRight DEF BeginAlike
<1> DEFINE S == {i \in 0..r : Ahead(h, i) = Ahead(k, i)}
<1>2. 0 \in S
  BY <1>1 DEF Ahead
<1>3. ASSUME NEW i \in 0..r, i < r, i \in S PROVE i + 1 \in S
  <2>1. /\ i \in 0..(Len(lines) - 1) /\ i \in 0..(Len(lines2) - 1) /\ i + 1 \in 1..r
        /\ i + 1 \in 0..r /\ (i + 1) - 1 = i /\ i + 1 # 0
    BY <1>1, <1>3
  <2>2. h[i] = Ahead(h, i) \o lines[i + 1] /\ k[i] = Ahead(k, i) \o lines2[i + 1]
    BY <2>1, AheadRight
  <2>3. h[i] = k[i]
    <3>1. lines[i + 1] = lines2[i + 1] /\ Ahead(h, i) = Ahead(k, i)
      BY <1>1, <1>3, <2>1
    <3> QED BY <2>2, <3>1
  <2>4. Ahead(h, i + 1) = h[i] \o <<NewLine>> /\ Ahead(k, i + 1) = k[i] \o <<NewLine>>
    BY <2>1 DEF Ahead
  <2> QED BY <2>1, <2>3, <2>4
<1>4. Ahead(h, r) = Ahead(k, r)
  <2> HIDE DEF S
  <2>1. r \in Nat /\ 0..r \subseteq S
    BY <1>2, <1>3, Stepwise
  <2>2. r \in S
    BY <2>1
  <2> QED BY <2>2 DEF S
<1>5. h[r] = Ahead(h, r) \o lines[r + 1] /\ k[r] = Ahead(k, r) \o lines2[r + 1]
  BY <1>1, AheadRight
<1> QED BY <1>4, <1>5

\* And lines that end alike.
EndAlike(lines, r, lines2, r2) ==
  /\ Len(lines) - r = Len(lines2) - r2
  /\ \A i \in 1..(Len(lines) - 1 - r) : lines[r + i + 1] = lines2[r2 + i + 1]

\* Behind a row of one and a row of another document is the same text.
CommonTail(h, lines, r, k, lines2, r2) ==
  \E s \in Seq(Glyph) :
    /\ h[Len(lines) - 1] = h[r] \o s /\ k[Len(lines2) - 1] = k[r2] \o s
    /\ s = <<>> \/ s[1] = NewLine

\* and documents that end alike the same text behind.
LEMMA SameTail ==
  ASSUME NEW lines \in Rows, NEW lines2 \in Rows, NEW h, Throughs(h, lines),
         NEW k, Throughs(k, lines2),
         NEW r \in 0..(Len(lines) - 1), NEW r2 \in 0..(Len(lines2) - 1),
         EndAlike(lines, r, lines2, r2)
  PROVE  CommonTail(h, lines, r, k, lines2, r2)
<1> DEFINE N == Len(lines) - 1 - r
           Tail1(s, i) == /\ h[r + i] = h[r] \o s /\ k[r2 + i] = k[r2] \o s
                          /\ s = <<>> \/ s[1] = NewLine
           S == {i \in 0..N : \E s \in Seq(Glyph) : Tail1(s, i)}
<1>1. /\ Len(lines) \in Nat \ {0} /\ Len(lines2) \in Nat \ {0} /\ N \in Nat
      /\ r + N = Len(lines) - 1 /\ r2 + N = Len(lines2) - 1 /\ r + 0 = r /\ r2 + 0 = r2
  BY RowsRight DEF EndAlike
<1>2. h[r] \in Seq(Glyph) /\ k[r2] \in Seq(Glyph)
  BY AheadRight
<1>3. 0 \in S
  <2>1. <<>> \in Seq(Glyph) /\ h[r] \o <<>> = h[r] /\ k[r2] \o <<>> = k[r2]
    BY <1>2, ConcatEmptySeq, EmptySeq
  <2>2. Tail1(<<>>, 0)
    BY <1>1, <2>1
  <2>3. 0 \in 0..N
    BY <1>1
  <2> QED BY <2>1, <2>2, <2>3
<1>4. ASSUME NEW i \in 0..N, i < N, i \in S PROVE i + 1 \in S
  <2>1. PICK s \in Seq(Glyph) : Tail1(s, i)
    BY <1>4
  <2> DEFINE row  == lines[r + (i + 1) + 1]
             line == <<NewLine>> \o row
  <2>2. /\ r + (i + 1) \in 1..(Len(lines) - 1) /\ (r + (i + 1)) - 1 = r + i
        /\ r2 + (i + 1) \in 1..(Len(lines2) - 1) /\ (r2 + (i + 1)) - 1 = r2 + i
        /\ i + 1 \in 1..N /\ i + 1 \in 0..N
    <3> HIDE DEF N
    <3>1. i \in Nat /\ r \in Nat /\ r2 \in Nat /\ i + 1 <= N
      BY <1>1, <1>4
    <3> QED BY <1>1, <3>1
  <2>3. lines2[r2 + (i + 1) + 1] = row
    <3>1. \A m \in 1..N : lines[r + m + 1] = lines2[r2 + m + 1]
      BY DEF EndAlike
    <3> DEFINE j == i + 1
    <3>2. j \in 1..N
      BY <2>2
    <3> HIDE DEF N, j
    <3>3. lines[r + j + 1] = lines2[r2 + j + 1]
      BY <3>1, <3>2
    <3> QED BY <3>3 DEF j
  <2>4. row \in Seq(Glyph)
    <3>1. r + (i + 1) + 1 \in 1..Len(lines)
      BY <1>1, <2>2
    <3> QED BY <3>1, RowsRight
  <2>5. /\ h[r + (i + 1)] = h[r + i] \o <<NewLine>> \o row
        /\ k[r2 + (i + 1)] = k[r2 + i] \o <<NewLine>> \o row
    BY <2>2, <2>3 DEF Throughs
  <2> HIDE DEF row
  <2>6. line \in Seq(Glyph) /\ line[1] = NewLine /\ Len(line) = 1 + Len(row) /\ Len(row) \in Nat
    <3>1. line \in Seq(Glyph) /\ Len(line) = 1 + Len(row) /\ Len(row) \in Nat
      BY <2>4, LineEndRight, Parts
    <3>2. line[0 + 1] = <<NewLine>>[0 + 1]
      <4>1. 0 \in 0..(Len(<<NewLine>>) - 1) /\ <<NewLine>> \in Seq(Glyph)
        BY LineEndRight
      <4> QED BY <2>4, <4>1, Parts
    <3> QED BY <3>1, <3>2, LineEndRight
  <2>7. ASSUME NEW g \in Seq(Glyph)
        PROVE  (g \o s) \o <<NewLine>> \o row = g \o (s \o line)
    <3>1. g \o s \in Seq(Glyph) /\ <<NewLine>> \in Seq(Glyph)
      BY LineEndRight, Parts
    <3>2. (g \o s) \o <<NewLine>> \o row = (g \o s) \o (<<NewLine>> \o row)
      BY <2>4, <3>1, Assoc, ZenonT(20)
    <3>3. (g \o s) \o (<<NewLine>> \o row) = g \o (s \o (<<NewLine>> \o row))
      BY <2>6, Assoc, Zenon
    <3> QED BY <3>2, <3>3
  <2> HIDE DEF line
  <2>8. s \o line \in Seq(Glyph) /\ (s \o line)[1] = NewLine
    <3>1. s \o line \in Seq(Glyph) /\ Len(s) \in Nat
      BY <2>6, Parts
    <3>2. CASE s = <<>>
      <4>1. s \o line = line
        BY <2>6, <3>2, ConcatEmptySeq
      <4> QED BY <2>6, <3>1, <4>1
    <3>3. CASE s # <<>>
      <4>1. Len(s) # 0
        BY <3>3, EmptySeq
      <4>2. 0 \in 0..(Len(s) - 1)
        BY <3>1, <4>1
      <4>3. (s \o line)[0 + 1] = s[0 + 1]
        BY <2>6, <4>2, Parts
      <4> QED BY <2>1, <3>1, <3>3, <4>3
    <3> QED BY <3>2, <3>3
  <2>9. h[r + (i + 1)] = h[r] \o (s \o line) /\ k[r2 + (i + 1)] = k[r2] \o (s \o line)
    BY <1>2, <2>1, <2>5, <2>7
  <2> QED BY <2>2, <2>8, <2>9
<1>5. N \in S
  <2> HIDE DEF S, N
  <2>1. 0..N \subseteq S
    BY <1>1, <1>3, <1>4, Stepwise
  <2>2. N \in 0..N
    BY <1>1
  <2> QED BY <2>1, <2>2
<1>6. PICK s \in Seq(Glyph) : Tail1(s, N)
  BY <1>5
<1>7. h[r + N] = h[r] \o s /\ k[r2 + N] = k[r2] \o s /\ (s = <<>> \/ s[1] = NewLine)
  BY <1>6
<1> HIDE DEF N
<1> QED BY <1>1, <1>7 DEF CommonTail

\* The text goes on behind every row.
LEMMA TailExists ==
  ASSUME NEW lines \in Rows, NEW h, Throughs(h, lines), NEW r \in 0..(Len(lines) - 1)
  PROVE  \E s \in Seq(Glyph) : h[Len(lines) - 1] = h[r] \o s /\ (s = <<>> \/ s[1] = NewLine)
<1>1. EndAlike(lines, r, lines, r)
  BY DEF EndAlike
<1> QED BY <1>1, SameTail DEF CommonTail

\* A row starts where what precedes it ends.
LEMMA AheadLen ==
  ASSUME NEW b, b.lines \in Rows, NEW h, Throughs(h, b.lines), NEW r \in 0..LastRow(b)
  PROVE  Len(Ahead(h, r)) = RowStart(b, r) /\ Len(h[r]) = RowStart(b, r) + Len(Line(b, r))
<1> DEFINE L == LastRow(b)
           S == {i \in 0..L : Len(Ahead(h, i)) = RowStart(b, i)}
<1>1. L \in Nat /\ L = Len(b.lines) - 1 /\ Len(b.lines) \in Nat
  BY RowsRight DEF LastRow
<1>3. ASSUME NEW i \in 0..L
      PROVE  /\ Ahead(h, i) \in Seq(Glyph) /\ Line(b, i) \in Seq(Glyph) /\ h[i] \in Seq(Glyph)
             /\ Len(h[i]) = Len(Ahead(h, i)) + Len(Line(b, i))
             /\ Len(Line(b, i)) \in Nat /\ Len(Ahead(h, i)) \in Nat
  <2>1. Ahead(h, i) \in Seq(Glyph) /\ h[i] \in Seq(Glyph) /\ Line(b, i) \in Seq(Glyph)
        /\ h[i] = Ahead(h, i) \o Line(b, i)
    BY <1>1, AheadRight DEF Line
  <2> QED BY <2>1, Parts
<1>4. 0 \in S
  BY <1>1, RowStartRight, EmptySeq DEF Ahead
<1>5. ASSUME NEW i \in 0..L, i < L, i \in S PROVE i + 1 \in S
  <2>1. Ahead(h, i + 1) = h[i] \o <<NewLine>> /\ i + 1 \in 0..L
    <3>1. i + 1 # 0 /\ (i + 1) - 1 = i /\ i + 1 \in 0..L
      BY <1>1, <1>5
    <3> QED BY <3>1 DEF Ahead
  <2>2. Len(Ahead(h, i + 1)) = Len(h[i]) + 1
    BY <1>3, <2>1, EndLine
  <2>3. RowStart(b, i + 1) = RowStart(b, i) + Len(Line(b, i)) + 1
    BY RowStartRight
  <2>4. Len(Ahead(h, i)) = RowStart(b, i)
    BY <1>5
  <2>5. Len(Ahead(h, i + 1)) = RowStart(b, i + 1)
    BY <1>3, <2>2, <2>3, <2>4
  <2> QED BY <2>1, <2>5
<1>6. r \in S
  <2> HIDE DEF S, L
  <2>1. 0..L \subseteq S
    BY <1>1, <1>4, <1>5, Stepwise
  <2> QED BY <2>1 DEF L
<1> QED BY <1>3, <1>6

-----------------------------------------------------------------------------
(***************************************************************************)
(* Lines of whole characters are a text of whole characters, and back.     *)
(***************************************************************************)
LinesOK(lines) == \A i \in 1..Len(lines) : TextOK(lines[i])

\* Between a text and a line end is a place.
LEMMA EndIsBoundary ==
  ASSUME NEW s \in Seq(Glyph), NEW t \in Seq(Glyph), t = <<>> \/ t[1] = NewLine
  PROVE  Len(s) \in Boundaries(s \o t)
<1>1. AtBoundary(t, 0)
  <2>1. Len(t) \in Nat /\ 0 \in 0..Len(t)
    BY GlyphRight
  <2>2. CASE t = <<>>
    BY <2>1, <2>2, EmptySeq DEF AtBoundary
  <2>3. CASE t[1] = NewLine
    BY <2>1, <2>3, LineEndRight DEF AtBoundary
  <2> QED BY <2>2, <2>3
<1>2. Len(s) \in Nat /\ Len(t) \in Nat /\ s \o t \in Seq(Glyph) /\ Len(s) + 0 = Len(s)
  BY Parts
<1>3. AtBoundary(s \o t, Len(s) + 0)
  <2>1. 0 \in 0..Len(t)
    BY <1>2
  <2> QED BY <1>1, <2>1, BoundaryParts
<1> QED BY <1>2, <1>3, BoundaryIs

\* What follows a line end is a text of its own.
LEMMA BehindLineEnd ==
  ASSUME NEW t \in Seq(Glyph), TextOK(<<NewLine>> \o t)
  PROVE  TextOK(t)
<1> DEFINE n == <<NewLine>>
           u == n \o t
<1>1. n \in Seq(Glyph) /\ Len(n) = 1 /\ n[1] = NewLine /\ NewLine # Cont
  BY LineEndRight
<1> HIDE DEF n
<1>2. u \in Seq(Glyph) /\ Len(u) = 1 + Len(t) /\ Len(t) \in Nat
  BY <1>1, Parts, SMTT(20)
<1>3. u[0 + 1] = n[0 + 1]
  <2>1. 0 \in 0..(Len(n) - 1)
    BY <1>1
  <2> QED BY <1>1, <2>1, Parts
<1>4. TextOK(u)
  BY DEF n
<1> HIDE DEF u
<1>5. u[0 + 1] = NewLine /\ Width(u[0 + 1]) = 1
  BY <1>1, <1>3 DEF Width
<1>6. Whole(u, 0)
  <2>1. 0 \in 0..(Len(u) - 1)
    BY <1>2
  <2> QED BY <1>1, <1>4, <1>5, <2>1 DEF TextOK
<1>7. AtBoundary(u, 0 + 1)
  BY <1>5, <1>6 DEF Whole
<1>8. Len(n) \in Boundaries(u)
  BY <1>1, <1>2, <1>7, BoundaryIs
<1> QED BY <1>1, <1>4, <1>8, TextCut DEF u

\* Lines that are UTF-8 make a text that is UTF-8,
LEMMA LinesMakeText ==
  ASSUME NEW lines \in Rows, LinesOK(lines), NEW h, Throughs(h, lines),
         NEW r \in 0..(Len(lines) - 1)
  PROVE  TextOK(h[r]) /\ TextOK(Ahead(h, r))
<1> DEFINE S == {i \in 0..(Len(lines) - 1) : TextOK(Ahead(h, i))}
<1>1. Len(lines) \in Nat \ {0} /\ Len(lines) - 1 \in Nat
  BY RowsRight
<1>2. ASSUME NEW i \in 0..(Len(lines) - 1), TextOK(Ahead(h, i)) PROVE TextOK(h[i])
  <2>1. i + 1 \in 1..Len(lines)
    BY <1>1
  <2>2. h[i] = Ahead(h, i) \o lines[i + 1] /\ TextOK(lines[i + 1])
    BY <2>1, AheadRight DEF LinesOK
  <2> QED BY <1>2, <2>2, TextConcat
<1>3. 0 \in S
  BY <1>1, NoBytes DEF Ahead
<1>4. ASSUME NEW i \in 0..(Len(lines) - 1), i < Len(lines) - 1, i \in S PROVE i + 1 \in S
  <2>1. i + 1 \in 0..(Len(lines) - 1) /\ i + 1 # 0 /\ (i + 1) - 1 = i
    BY <1>1, <1>4
  <2>2. TextOK(h[i])
    BY <1>2, <1>4
  <2>3. Ahead(h, i + 1) = h[i] \o <<NewLine>>
    BY <2>1 DEF Ahead
  <2>4. TextOK(h[i] \o <<NewLine>>)
    BY <2>2, LineEndRight, TextConcat
  <2> QED BY <2>1, <2>3, <2>4
<1>5. r \in S
  <2> HIDE DEF S
  <2>1. 0..(Len(lines) - 1) \subseteq S
    BY <1>1, <1>3, <1>4, Stepwise
  <2> QED BY <2>1
<1> QED BY <1>2, <1>5

\* and a text that is UTF-8 has lines that are.
LEMMA TextMakesLines ==
  ASSUME NEW lines \in Rows, NEW h, Throughs(h, lines), TextOK(h[Len(lines) - 1])
  PROVE  LinesOK(lines)
<1>1. Len(lines) \in Nat \ {0}
  BY RowsRight
<1>2. ASSUME NEW r \in 0..(Len(lines) - 1) PROVE TextOK(h[r]) /\ h[r] \in Seq(Glyph)
  <2>1. PICK s \in Seq(Glyph) :
          h[Len(lines) - 1] = h[r] \o s /\ (s = <<>> \/ s[1] = NewLine)
    BY TailExists
  <2>2. h[r] \in Seq(Glyph)
    BY AheadRight
  <2>3. Len(h[r]) \in Boundaries(h[r] \o s)
    BY <2>1, <2>2, EndIsBoundary
  <2>4. TextOK(h[r] \o s)
    BY <2>1
  <2> QED BY <2>2, <2>3, <2>4, TextCut
<1>3. ASSUME NEW i \in 1..Len(lines) PROVE TextOK(lines[i])
  <2>1. CASE i = 1
    <3>1. h[0] = lines[i] /\ 0 \in 0..(Len(lines) - 1)
      BY <1>1, <2>1 DEF Throughs
    <3> QED BY <1>2, <3>1
  <2>2. CASE i # 1
    <3> DEFINE r == i - 1
    <3>1. r \in 1..(Len(lines) - 1) /\ r \in 0..(Len(lines) - 1) /\ r - 1 \in 0..(Len(lines) - 1)
          /\ r + 1 = i
      BY <1>1, <2>2
    <3> HIDE DEF r
    <3>2. h[r] = h[r - 1] \o <<NewLine>> \o lines[i]
      BY <3>1 DEF Throughs
    <3>3. lines[i] \in Seq(Glyph) /\ h[r - 1] \in Seq(Glyph) /\ TextOK(h[r])
      BY <1>2, <3>1, RowsRight
    <3> DEFINE n == <<NewLine>>
    <3>4. n \in Seq(Glyph) /\ Len(n) = 1 /\ n[1] = NewLine
      BY LineEndRight
    <3>5. h[r] = (h[r - 1] \o n) \o lines[i]
      BY <3>2
    <3>6. TextOK(n \o lines[i]) => TextOK(lines[i])
      BY <3>3, BehindLineEnd
    <3> HIDE DEF n
    <3>7. h[r] = h[r - 1] \o (n \o lines[i]) /\ n \o lines[i] \in Seq(Glyph)
      BY <3>3, <3>4, <3>5, Assoc, Parts, ZenonT(20)
    <3>8. (n \o lines[i])[0 + 1] = n[0 + 1]
      <4>1. 0 \in 0..(Len(n) - 1)
        BY <3>4
      <4> QED BY <3>3, <3>4, <4>1, Parts
    <3>9. Len(h[r - 1]) \in Boundaries(h[r - 1] \o (n \o lines[i]))
      <4> DEFINE v == n \o lines[i]
      <4>1. v \in Seq(Glyph) /\ v[1] = NewLine
        BY <3>4, <3>7, <3>8
      <4> HIDE DEF v
      <4> QED BY <3>3, <4>1, EndIsBoundary DEF v
    <3>10. TextOK(h[r - 1] \o (n \o lines[i]))
      BY <3>3, <3>7
    <3>11. TextOK(n \o lines[i])
      BY <3>3, <3>7, <3>9, <3>10, TextCut
    <3> QED BY <3>6, <3>11
  <2> QED BY <2>1, <2>2
<1> QED BY <1>3 DEF LinesOK

\* Splitting a text and joining the lines gives the text again.
LEMMA SplitJoins ==
  ASSUME NEW text \in Seq(Glyph)
  PROVE  /\ Split(text) \in Rows
         /\ \A k : Throughs(k, Split(text)) => k[Len(Split(text)) - 1] = text
<1> DEFINE N == Len(text)
<1>1. PICK h : Splits(h, text)
  BY SplitsExist
<1>2. N \in Nat /\ h \in [0..N -> Rows] /\ h[0] = <<<<>>>> /\ Split(text) = h[N]
  BY <1>1, SplitIs, LenProperties, Zenon DEF Splits
<1>3. \A n \in 1..N : h[n] = SplitNext(h[n - 1], text[n])
  BY <1>1 DEF Splits
<1> DEFINE S == {n \in 0..N : \A k : Throughs(k, h[n]) => k[Len(h[n]) - 1] = SubSeq(text, 1, n)}
<1>4. 0 \in S
  <2>1. Len(<<<<>>>>) = 1 /\ <<<<>>>>[1] = <<>>
    OBVIOUS
  <2>2. Len(h[0]) = 1 /\ h[0][1] = <<>>
    BY <1>2, <2>1, Zenon
  <2>3. SubSeq(text, 1, 0) = <<>>
    BY SubSeqEmpty
  <2>4. ASSUME NEW k, Throughs(k, h[0]) PROVE k[Len(h[0]) - 1] = <<>>
    <3>1. Len(h[0]) - 1 = 0
      BY <2>2
    <3>2. k[0] = <<>>
      BY <2>2, <2>4 DEF Throughs
    <3> QED BY <3>1, <3>2
  <2>5. 0 \in 0..N
    BY <1>2
  <2> QED BY <2>3, <2>4, <2>5
<1>5. ASSUME NEW n \in 0..N, n < N, n \in S PROVE n + 1 \in S
  <2> DEFINE lines  == h[n]
             lines2 == h[n + 1]
             x      == text[n + 1]
             R      == Len(lines)
  <2>1. n + 1 \in 1..N /\ n + 1 \in 0..N /\ (n + 1) - 1 = n /\ 1 \in 1..N
    BY <1>2, <1>5
  <2>2. lines \in Rows /\ lines2 \in Rows /\ lines2 = SplitNext(lines, x) /\ x \in Glyph
    <3>1. lines2 = SplitNext(h[(n + 1) - 1], x)
      BY <1>3, <2>1
    <3>2. x \in Glyph
      BY <2>1, ElementOfSeq
    <3> QED BY <1>2, <2>1, <3>1, <3>2
  <2>3. PICK k : Throughs(k, lines)
    BY <2>2, ThroughsExist
  <2>4. k[R - 1] = SubSeq(text, 1, n)
    BY <1>5, <2>3
  <2>5. SubSeq(text, 1, n + 1) = SubSeq(text, 1, n) \o <<x>>
    <3>1. n + 1 \in 1..Len(text)
      BY <2>1
    <3>2. SubSeq(text, 1, n + 1) = SubSeq(text, 1, (n + 1) - 1) \o <<text[n + 1]>>
      BY <2>1, <3>1, SubSeqRecursiveSecond
    <3> QED BY <2>1, <3>2
  <2>6. x # NewLine => x \in Byte
    BY <2>2 DEF Glyph
  <2> HIDE DEF lines, lines2, x
  <2>7. R \in Nat \ {0} /\ \A i \in 1..R : lines[i] \in Seq(Byte) /\ lines[i] \in Seq(Glyph)
    BY <2>2, RowsRight
  <2>8. R - 1 \in 0..(Len(lines) - 1) /\ R \in 1..R /\ (R - 1) + 1 = R
    BY <2>7
  <2>9. k[R - 1] \in Seq(Glyph) /\ Ahead(k, R - 1) \in Seq(Glyph)
        /\ k[R - 1] = Ahead(k, R - 1) \o lines[R]
    BY <2>2, <2>3, <2>8, AheadRight
  <2>10. ASSUME NEW k2, Throughs(k2, lines2) PROVE k2[Len(lines2) - 1] = k[R - 1] \o <<x>>
    <3>1. CASE x = NewLine
      <4>1. lines2 = Append(lines, <<>>)
        BY <2>2, <3>1 DEF SplitNext
      <4>2. lines \in Seq(Seq(Byte)) /\ <<>> \in Seq(Byte)
        BY <2>2, NoBytes DEF Rows
      <4>3. /\ Len(lines2) = R + 1 /\ lines2[R + 1] = <<>>
            /\ \A i \in 1..R : lines2[i] = lines[i]
        BY <4>1, <4>2, AppendProperties
      <4>4. k2[R - 1] = k[R - 1]
        <5>1. R - 1 <= Len(lines2) - 1 /\ \A i \in 1..(R - 1) : lines[i] = lines2[i]
          BY <2>7, <4>3
        <5>2. lines[(R - 1) + 1] = lines2[(R - 1) + 1]
          BY <2>8, <4>3
        <5> HIDE DEF R
        <5>3. BeginAlike(lines, lines2, R - 1)
          BY <5>1 DEF BeginAlike
        <5> QED BY <2>2, <2>3, <2>8, <2>10, <5>2, <5>3, SameHead
      <4>5. R \in 0..(Len(lines2) - 1) /\ R # 0 /\ Len(lines2) - 1 = R
        BY <2>7, <4>3
      <4>6. k2[R] = Ahead(k2, R) \o lines2[R + 1] /\ Ahead(k2, R) \in Seq(Glyph)
        BY <2>2, <2>10, <4>5, AheadRight
      <4>7. Ahead(k2, R) = k2[R - 1] \o <<NewLine>>
        BY <4>5 DEF Ahead
      <4>8. k2[R] = Ahead(k2, R)
        BY <4>3, <4>6, EmptyEnds
      <4> QED BY <3>1, <4>4, <4>5, <4>7, <4>8
    <3>2. CASE x # NewLine
      <4>1. lines2 = [lines EXCEPT ![R] = Append(lines[R], x)]
        BY <2>2, <3>2 DEF SplitNext
      <4>2. lines \in Seq(Seq(Byte)) /\ R \in 1..Len(lines) /\ x \in Byte
            /\ Append(lines[R], x) \in Seq(Byte)
        BY <2>2, <2>6, <2>7, <2>8, <3>2, AppendProperties DEF Rows
      <4>3. /\ Len(lines2) = R /\ lines2[R] = Append(lines[R], x)
            /\ \A i \in 1..(R - 1) : lines2[i] = lines[i]
        <5>1. /\ Len(lines2) = Len(lines)
              /\ \A j \in 1..Len(lines) : lines2[j] =
                        IF j = R THEN Append(lines[R], x) ELSE lines[j]
          BY <4>1, <4>2, ExceptSeq
        <5>2. \A i \in 1..(R - 1) : i \in 1..R /\ i # R
          BY <2>7
        <5> QED BY <2>8, <5>1, <5>2
      <4>4. Ahead(k2, R - 1) = Ahead(k, R - 1)
        <5>1. R - 1 <= Len(lines2) - 1 /\ \A i \in 1..(R - 1) : lines[i] = lines2[i]
          BY <2>7, <4>3
        <5> HIDE DEF R
        <5>3. BeginAlike(lines, lines2, R - 1)
          BY <5>1 DEF BeginAlike
        <5> QED BY <2>2, <2>3, <2>8, <2>10, <5>3, SameHead
      <4>5. k2[R - 1] = Ahead(k2, R - 1) \o lines2[R]
        <5>1. R - 1 \in 0..(Len(lines2) - 1)
          BY <2>8, <4>3
        <5>2. k2[R - 1] = Ahead(k2, R - 1) \o lines2[(R - 1) + 1]
          BY <2>2, <2>10, <5>1, AheadRight
        <5> QED BY <2>8, <5>2
      <4>6. Append(lines[R], x) = lines[R] \o <<x>> /\ <<x>> \in Seq(Glyph)
            /\ lines[R] \in Seq(Glyph)
        <5>1. lines[R] \in Seq(Byte) /\ lines[R] \in Seq(Glyph) /\ <<x>> \in Seq(Glyph)
          BY <2>2, <2>7, <2>8
        <5> QED BY <4>2, <5>1, AppendIsConcat
      <4>7. Ahead(k, R - 1) \o (lines[R] \o <<x>>) = (Ahead(k, R - 1) \o lines[R]) \o <<x>>
        BY <2>9, <4>6, Assoc
      <4> QED BY <2>9, <4>3, <4>4, <4>5, <4>6, <4>7
    <3> QED BY <3>1, <3>2
  <2>11. \A k2 : Throughs(k2, lines2) => k2[Len(lines2) - 1] = SubSeq(text, 1, n + 1)
    BY <2>4, <2>5, <2>10
  <2> QED BY <2>1, <2>11 DEF lines2
<1>6. N \in S
  <2> HIDE DEF S, N
  <2>1. 0..N \subseteq S
    BY <1>2, <1>4, <1>5, Stepwise
  <2> QED BY <1>2, <2>1
<1>7. SubSeq(text, 1, N) = text
  BY SubSeqFull
<1>8. h[N] \in Rows
  BY <1>2
<1> QED BY <1>2, <1>6, <1>7, <1>8

-----------------------------------------------------------------------------
(***************************************************************************)
(* Places in the lines are offsets in the text.                            *)
(***************************************************************************)
Places == [row : Nat, col : Nat]

\* There is a line, and all lines are of whole characters.
Sound(b) == b.lines \in Rows /\ LinesOK(b.lines)

\* What a sound document has: rows, each of them UTF-8, and a text.
LEMMA SoundRows ==
  ASSUME NEW b, Sound(b)
  PROVE  /\ b.lines \in Rows /\ LastRow(b) \in Nat /\ LastRow(b) = Len(b.lines) - 1
         /\ \A row \in 0..LastRow(b) : GoodLine(Line(b, row)) /\ Line(b, row) = b.lines[row + 1]
         /\ TextOK(ToText(b)) /\ ToText(b) \in Seq(Glyph) /\ Len(ToText(b)) \in Nat
<1>1. b.lines \in Rows /\ LastRow(b) \in Nat /\ LastRow(b) = Len(b.lines) - 1
  BY RowsRight DEF Sound, LastRow
<1>2. ASSUME NEW row \in 0..LastRow(b)
      PROVE  GoodLine(Line(b, row)) /\ Line(b, row) = b.lines[row + 1]
  <2>1. row + 1 \in 1..Len(b.lines)
    BY <1>1
  <2> QED BY <1>1, <2>1, RowsRight DEF Sound, LinesOK, GoodLine, Line
<1>3. PICK h : Throughs(h, b.lines)
  BY <1>1, ThroughsExist
<1>4. ToText(b) = h[LastRow(b)] /\ ToText(b) \in Seq(Glyph)
  BY <1>1, <1>3, ToTextRight
<1>5. TextOK(h[Len(b.lines) - 1])
  <2>1. Len(b.lines) - 1 \in 0..(Len(b.lines) - 1)
    BY <1>1
  <2> QED BY <1>1, <1>3, <2>1, LinesMakeText DEF Sound
<1> QED BY <1>1, <1>2, <1>4, <1>5, GlyphRight

\* A place that exists is where the code takes it to be.
LEMMA PlaceIsNormal ==
  ASSUME NEW b, Sound(b), NEW pos \in Places, IsPlace(b, pos)
  PROVE  /\ Normal(b, pos) = pos /\ Offset(b, pos) = RowStart(b, pos.row) + pos.col
         /\ pos.row \in 0..LastRow(b) /\ pos.col \in Boundaries(Line(b, pos.row))
         /\ pos.col \in 0..Len(Line(b, pos.row)) /\ Len(Line(b, pos.row)) \in Nat
<1>1. pos.row \in 0..LastRow(b) /\ pos.col \in Boundaries(Line(b, pos.row)) /\ LastRow(b) \in Nat
  BY SoundRows DEF IsPlace
<1>2. GoodLine(Line(b, pos.row))
  BY <1>1, SoundRows
<1>3. AtOrBefore(Line(b, pos.row), pos.col) = pos.col
  BY <1>2, <1>1, AtOrBeforeRight DEF Places
<1>4. ~(pos.row > LastRow(b))
  BY <1>1
<1>5. Normal(b, pos) = pos
  BY <1>3, <1>4 DEF Normal, Pos, Places
<1> QED BY <1>1, <1>2, <1>5, PlacesOfLine DEF Offset

\* Any place is brought to one that exists.
LEMMA NormalIsPlace ==
  ASSUME NEW b, Sound(b), NEW pos \in Places
  PROVE  Normal(b, pos) \in Places /\ IsPlace(b, Normal(b, pos))
<1> DEFINE row == IF pos.row > LastRow(b) THEN LastRow(b) ELSE pos.row
           col == AtOrBefore(Line(b, row), pos.col)
<1>1. row \in 0..LastRow(b) /\ pos.col \in Nat
  BY SoundRows DEF Places
<1>2. Normal(b, pos) = Pos(row, col)
  BY DEF Normal
<1> HIDE DEF row
<1>3. GoodLine(Line(b, row))
  BY <1>1, SoundRows
<1>4. col \in Boundaries(Line(b, row)) /\ col \in Nat
  BY <1>1, <1>3, AtOrBeforeRight, PlacesOfLine
<1> HIDE DEF col
<1> QED BY <1>1, <1>2, <1>4 DEF Pos, Places, IsPlace

\* The text around a place.
LEMMA PlaceInText ==
  ASSUME NEW b, Sound(b), NEW pos \in Places, IsPlace(b, pos), NEW h, Throughs(h, b.lines)
  PROVE  /\ Offset(b, pos) \in Boundaries(ToText(b)) /\ Offset(b, pos) \in Nat
         /\ SubSeq(ToText(b), 1, Offset(b, pos))
              = Ahead(h, pos.row) \o SubSeq(Line(b, pos.row), 1, pos.col)
<1> DEFINE row  == pos.row
           line == Line(b, row)
           a    == SubSeq(line, 1, pos.col)
           z    == SubSeq(line, pos.col + 1, Len(line))
           g    == Ahead(h, row)
<1>1. /\ row \in 0..LastRow(b) /\ pos.col \in Boundaries(line) /\ pos.col \in 0..Len(line)
      /\ Offset(b, pos) = RowStart(b, row) + pos.col /\ b.lines \in Rows /\ GoodLine(line)
      /\ row \in 0..(Len(b.lines) - 1) /\ line = b.lines[row + 1] /\ LastRow(b) = Len(b.lines) - 1
      /\ Len(b.lines) - 1 \in 0..(Len(b.lines) - 1) /\ LastRow(b) \in Nat
  BY PlaceIsNormal, SoundRows
<1>2. line \in Seq(Glyph) /\ TextOK(line)
  BY <1>1, PlacesOfLine
<1>3. /\ a \in Seq(Glyph) /\ Len(a) = pos.col /\ z \in Seq(Glyph) /\ a \o z = line
      /\ TextOK(a) /\ TextOK(z)
  <2> HIDE DEF line
  <2> QED BY <1>1, <1>2, CutRight, CutText
<1>4. /\ g \in Seq(Glyph) /\ h[row] = g \o line /\ h[row] \in Seq(Glyph)
      /\ Len(g) = RowStart(b, row)
  BY <1>1, AheadRight, AheadLen
<1>5. PICK s \in Seq(Glyph) :
        h[Len(b.lines) - 1] = h[row] \o s /\ (s = <<>> \/ s[1] = NewLine)
  BY <1>1, TailExists
<1>6. ToText(b) = h[row] \o s
  BY <1>1, <1>5, ToTextRight
<1>7. TextOK(s)
  <2>1. TextOK(h[row] \o s)
    BY <1>6, SoundRows
  <2>2. Len(h[row]) \in Boundaries(h[row] \o s)
    BY <1>4, <1>5, EndIsBoundary
  <2> QED BY <1>4, <2>1, <2>2, TextCut
<1> HIDE DEF a, z, g, line, row
<1>8. ToText(b) = (g \o a) \o (z \o s)
  <2>1. h[row] = (g \o a) \o z
    <3>1. (g \o a) \o z = g \o (a \o z)
      BY <1>3, <1>4, Assoc, ZenonT(20)
    <3>2. h[row] = g \o (a \o z)
      BY <1>3, <1>4, Zenon
    <3> QED BY <3>1, <3>2
  <2>2. g \o a \in Seq(Glyph)
    BY <1>3, <1>4, Parts
  <2>3. ((g \o a) \o z) \o s = (g \o a) \o (z \o s)
    BY <1>3, <2>2, Assoc
  <2> QED BY <1>6, <2>1, <2>3
<1>9. g \o a \in Seq(Glyph) /\ Len(g \o a) = Offset(b, pos) /\ z \o s \in Seq(Glyph)
      /\ Len(g \o a) \in Nat
  <2>1. g \o a \in Seq(Glyph) /\ Len(g \o a) = Len(g) + Len(a) /\ z \o s \in Seq(Glyph)
    BY <1>3, <1>4, Parts
  <2> QED BY <1>1, <1>3, <1>4, <2>1, GlyphRight
<1>10. TextOK(z \o s)
  BY <1>3, <1>7, TextConcat
<1>11. Offset(b, pos) \in Boundaries(ToText(b))
  BY <1>8, <1>9, <1>10, SeamIsBoundary
<1>12. SubSeq(ToText(b), 1, Offset(b, pos)) = g \o a
  BY <1>8, <1>9, UncutRight
<1> QED BY <1>9, <1>11, <1>12 DEF g, a, line, row

\* An offset is in one of the rows, and if it is between two characters it is
\* that of a place.
LEMMA OffsetHasPlace ==
  ASSUME NEW b, Sound(b), NEW o \in Nat
  PROVE  /\ AtOffset(b, o) \in Places /\ IsPlace(b, AtOffset(b, o))
         /\ o \in Boundaries(ToText(b)) => Offset(b, AtOffset(b, o)) = o
<1> DEFINE L   == LastRow(b)
           S   == {r \in 0..L : RowStart(b, r) <= o}
           row == Max(S)
           col == o - RowStart(b, row)
           line == Line(b, row)
           at  == AtOffset(b, o)
<1>1. /\ L \in Nat /\ RowStart(b, 0) = 0 /\ L = Len(b.lines) - 1 /\ b.lines \in Rows
      /\ \A r \in 0..L : RowStart(b, r) \in Nat
      /\ \A r \in 0..L : RowStart(b, r + 1) = RowStart(b, r) + Len(Line(b, r)) + 1
  <2>1. L \in Nat /\ L = Len(b.lines) - 1 /\ b.lines \in Rows
    BY SoundRows
  <2>2. \A r \in 0..L : r \in 0..Len(b.lines)
    BY <2>1
  <2> QED BY <2>1, <2>2, RowStartRight
<1>2. row \in S /\ \A r \in S : r <= row
  <2>1. S \subseteq 0..L /\ 0 \in S
    BY <1>1
  <2> HIDE DEF S
  <2> QED BY <1>1, <2>1, MaxRight
<1>3. at = Pos(row, AtOrBefore(line, col))
  BY DEF AtOffset
<1>4. row \in 0..L /\ RowStart(b, row) <= o /\ RowStart(b, row) \in Nat /\ col \in Nat
  BY <1>1, <1>2
<1>5. row < L => o < RowStart(b, row + 1)
  <2> SUFFICES ASSUME row < L, ~(o < RowStart(b, row + 1)) PROVE FALSE
    OBVIOUS
  <2>1. row + 1 \in 0..L /\ RowStart(b, row + 1) <= o
    <3> HIDE DEF row, L
    <3>1. row + 1 \in 0..L
      BY <1>1, <1>4
    <3>2. RowStart(b, row + 1) \in Nat
      BY <1>1, <3>1
    <3> QED BY <3>1, <3>2
  <2>2. row + 1 \in S
    BY <2>1
  <2>3. row + 1 <= row
    BY <1>2, <2>2
  <2> HIDE DEF row
  <2> QED BY <1>4, <2>3
<1> HIDE DEF row, S, L
<1>6. GoodLine(line)
  BY <1>4, SoundRows DEF L
<1>7. at \in Places /\ IsPlace(b, at)
  <2>1. AtOrBefore(line, col) \in Boundaries(line) /\ AtOrBefore(line, col) \in Nat
    <3> HIDE DEF col, line
    <3> QED BY <1>4, <1>6, AtOrBeforeRight, PlacesOfLine
  <2>2. row \in Nat
    BY <1>1, <1>4
  <2> HIDE DEF at
  <2> QED BY <1>3, <1>4, <2>1, <2>2 DEF Pos, Places, IsPlace, L
<1>8. ASSUME o \in Boundaries(ToText(b)) PROVE Offset(b, at) = o
  <2>1. PICK h : Throughs(h, b.lines)
    BY <1>1, ThroughsExist
  <2> DEFINE g == Ahead(h, row)
  <2>2. /\ g \in Seq(Glyph) /\ h[row] = g \o line /\ h[row] \in Seq(Glyph) /\ line \in Seq(Glyph)
        /\ Len(g) = RowStart(b, row) /\ Len(h[row]) = RowStart(b, row) + Len(line)
    <3>1. row \in 0..(Len(b.lines) - 1) /\ line = b.lines[row + 1] /\ row \in 0..LastRow(b)
      BY <1>1, <1>4, SoundRows DEF L
    <3> QED BY <1>1, <2>1, <3>1, AheadRight, AheadLen
  <2>3. PICK s \in Seq(Glyph) :
          h[Len(b.lines) - 1] = h[row] \o s /\ (s = <<>> \/ s[1] = NewLine)
    <3>1. row \in 0..(Len(b.lines) - 1)
      BY <1>1, <1>4
    <3> QED BY <1>1, <2>1, <3>1, TailExists
  <2>4. ToText(b) = h[row] \o s
    BY <1>1, <2>1, <2>3, ToTextRight DEF L
  <2> HIDE DEF g, line
  <2>5. Len(line) \in Nat /\ Len(s) \in Nat /\ o \in 0..Len(ToText(b))
        /\ Len(ToText(b)) = RowStart(b, row) + Len(line) + Len(s)
    <3>1. Len(line) \in Nat /\ Len(s) \in Nat
      BY <2>2, GlyphRight
    <3>2. o \in 0..Len(ToText(b))
      BY <1>8, SoundRows, BoundaryIs
    <3>3. Len(h[row] \o s) = Len(h[row]) + Len(s)
      BY <2>2, Parts
    <3> QED BY <2>2, <2>4, <3>1, <3>2, <3>3
  <2>6. col \in 0..Len(line)
    <3>1. CASE row < L
      <4>1. o < RowStart(b, row) + Len(line) + 1
        BY <1>1, <1>4, <1>5, <3>1 DEF line
      <4> QED BY <1>4, <2>5, <4>1
    <3>2. CASE row = L
      <4>1. ToText(b) = h[row]
        BY <1>1, <2>1, <3>2, ToTextRight DEF L
      <4>2. o <= RowStart(b, row) + Len(line)
        BY <2>2, <2>5, <4>1
      <4> QED BY <1>4, <2>5, <4>2
    <3>3. row < L \/ row = L
      BY <1>1, <1>4, SMTT(20)
    <3> QED BY <3>1, <3>2, <3>3
  <2>7. AtBoundary(line, col)
    <3>1. CASE col = Len(line)
      BY <2>6, <3>1 DEF AtBoundary
    <3>2. CASE col # Len(line)
      <4>1. col \in 0..(Len(line) - 1)
        BY <2>5, <2>6, <3>2
      <4>2. line \o s \in Seq(Glyph) /\ Len(line \o s) = Len(line) + Len(s)
        BY <2>2, Parts
      <4>3. ToText(b) = g \o (line \o s)
        BY <2>2, <2>4, Assoc, SMTT(20)
      <4>4. AtBoundary(g \o (line \o s), o)
        BY <1>8, <4>3, SoundRows, BoundaryIs
      <4>5. col \in 0..Len(line \o s) /\ Len(g) + col = o
        BY <1>4, <2>2, <2>5, <4>1, <4>2
      <4> HIDE DEF col
      <4>6. AtBoundary(line \o s, col)
        BY <2>2, <4>2, <4>4, <4>5, BoundaryParts
      <4> QED BY <2>2, <4>1, <4>6, BoundaryParts
    <3> QED BY <3>1, <3>2
  <2>8. col \in Boundaries(line)
    BY <2>2, <2>7, BoundaryIs
  <2>9. at = Pos(row, col)
    <3>1. AtOrBefore(line, col) = col
      <4> HIDE DEF col
      <4> QED BY <1>4, <1>6, <2>8, AtOrBeforeRight
    <3> QED BY <1>3, <3>1 DEF line
  <2>10. Offset(b, at) = RowStart(b, row) + col
    <3>1. Offset(b, at) = RowStart(b, at.row) + at.col
      BY <1>7, PlaceIsNormal
    <3> HIDE DEF at
    <3> QED BY <2>9, <3>1 DEF Pos
  <2> QED BY <1>4, <2>10
<1> QED BY <1>7, <1>8

\* Places are in the order of their offsets.
LEMMA RowsInOrder ==
  ASSUME NEW b, Sound(b), NEW p \in 0..LastRow(b), NEW q \in 0..LastRow(b), p < q
  PROVE  RowStart(b, p) + Len(Line(b, p)) < RowStart(b, q)
<1> DEFINE L == LastRow(b)
           N == q - p - 1
           S == {i \in 0..N : RowStart(b, p) + Len(Line(b, p)) < RowStart(b, p + 1 + i)}
<1>1. L \in Nat /\ L = Len(b.lines) - 1 /\ b.lines \in Rows
  BY SoundRows
<1>2. N \in Nat /\ p + 1 + N = q
  BY <1>1
<1>3. ASSUME NEW r \in 0..L
      PROVE  /\ RowStart(b, r) \in Nat /\ Len(Line(b, r)) \in Nat
             /\ RowStart(b, r + 1) = RowStart(b, r) + Len(Line(b, r)) + 1
  <2>1. r \in 0..Len(b.lines) /\ GoodLine(Line(b, r))
    BY <1>1, SoundRows
  <2> QED BY <1>1, <2>1, RowStartRight, PlacesOfLine
<1>4. 0 \in S
  <2>1. p + 1 + 0 = p + 1 /\ 0 \in 0..N
    BY <1>1, <1>2
  <2>2. RowStart(b, p) + Len(Line(b, p)) < RowStart(b, p + 1)
    BY <1>3
  <2> QED BY <2>1, <2>2
<1>5. ASSUME NEW i \in 0..N, i < N, i \in S PROVE i + 1 \in S
  <2> DEFINE r == p + 1 + i
  <2>1. r \in 0..L /\ p + 1 + (i + 1) = r + 1 /\ i + 1 \in 0..N
    <3> HIDE DEF N
    <3>1. L \in Nat /\ p \in Nat /\ q \in Nat /\ q <= L /\ i \in Nat /\ i < N /\ p + 1 + N = q
      BY <1>1, <1>2, <1>5
    <3>2. N \in Nat
      BY <1>2
    <3> HIDE DEF L
    <3> QED BY <3>1, <3>2
  <2>2. RowStart(b, p) + Len(Line(b, p)) < RowStart(b, r)
    BY <1>5
  <2> HIDE DEF r
  <2>3. RowStart(b, p) + Len(Line(b, p)) < RowStart(b, r + 1)
    BY <1>3, <2>1, <2>2, SMTT(20)
  <2> QED BY <2>1, <2>3
<1>6. N \in S
  <2> HIDE DEF S, N
  <2>1. 0..N \subseteq S
    BY <1>2, <1>4, <1>5, Stepwise
  <2> QED BY <1>2, <2>1
<1> QED BY <1>2, <1>6

\* Offsets are in the order of the places.
LEMMA OffsetsInOrder ==
  ASSUME NEW b, Sound(b), NEW p \in Places, NEW q \in Places, IsPlace(b, p), IsPlace(b, q)
  PROVE  /\ Before(p, q) => Offset(b, p) < Offset(b, q)
         /\ p # q => Before(p, q) \/ Before(q, p)
<1>1. /\ p.row \in 0..LastRow(b) /\ q.row \in 0..LastRow(b)
      /\ p.col \in 0..Len(Line(b, p.row)) /\ q.col \in Nat
      /\ Offset(b, p) = RowStart(b, p.row) + p.col /\ Offset(b, q) = RowStart(b, q.row) + q.col
  BY PlaceIsNormal DEF Places
<1>2. /\ RowStart(b, p.row) \in Nat /\ RowStart(b, q.row) \in Nat /\ Len(Line(b, p.row)) \in Nat
  <2>1. /\ p.row \in 0..Len(b.lines) /\ q.row \in 0..Len(b.lines) /\ GoodLine(Line(b, p.row))
        /\ b.lines \in Rows
    BY <1>1, SoundRows
  <2> QED BY <2>1, RowStartRight, PlacesOfLine
<1>3. Before(p, q) => Offset(b, p) < Offset(b, q)
  <2>1. CASE p.row < q.row
    <3>1. RowStart(b, p.row) + Len(Line(b, p.row)) < RowStart(b, q.row)
      BY <1>1, <2>1, RowsInOrder
    <3> QED BY <1>1, <1>2, <3>1
  <2>2. CASE p.row = q.row /\ p.col < q.col
    BY <1>1, <1>2, <2>2
  <2> QED BY <2>1, <2>2 DEF Before
<1>4. p # q => Before(p, q) \/ Before(q, p)
  <2>1. p.row \in Nat /\ q.row \in Nat /\ p.col \in Nat /\ q.col \in Nat
        /\ (p # q => p.row # q.row \/ p.col # q.col)
    BY DEF Places
  <2> QED BY <2>1 DEF Before
<1> QED BY <1>3, <1>4

-----------------------------------------------------------------------------
(***************************************************************************)
(* Edits of the lines as edits of the text.                                *)
(***************************************************************************)
\* What depends only on the lines of a buffer.
LEMMA SameLines ==
  ASSUME NEW c, Sound(c), NEW d, d.lines = c.lines
  PROVE  /\ Sound(d) /\ LastRow(d) = LastRow(c) /\ ToText(d) = ToText(c)
         /\ \A row : Line(d, row) = Line(c, row)
         /\ \A pos : IsPlace(d, pos) <=> IsPlace(c, pos)
         /\ \A row \in 0..LastRow(c) : RowStart(d, row) = RowStart(c, row)
         /\ \A pos \in Places : IsPlace(c, pos) => Offset(d, pos) = Offset(c, pos)
<1>1. Sound(d) /\ LastRow(d) = LastRow(c) /\ c.lines \in Rows /\ d.lines \in Rows
  BY DEF Sound, LastRow
<1>2. \A row : Line(d, row) = Line(c, row)
  BY DEF Line
<1>3. \A pos : IsPlace(d, pos) <=> IsPlace(c, pos)
  BY <1>1, <1>2 DEF IsPlace
<1>4. ToText(d) = ToText(c)
  <2>1. PICK h : Throughs(h, c.lines)
    BY <1>1, ThroughsExist
  <2>2. Throughs(h, d.lines)
    BY <2>1
  <2> QED BY <1>1, <2>1, <2>2, ToTextRight
<1>5. ASSUME NEW row \in 0..LastRow(c) PROVE RowStart(d, row) = RowStart(c, row)
  <2>1. PICK s : Starts(s, c)
    BY <1>1, StartsExist
  <2>2. Starts(s, d)
    BY <1>2, <2>1 DEF Starts
  <2>3. row \in 0..Len(c.lines) /\ row \in 0..Len(d.lines)
    BY SoundRows
  <2> QED BY <1>1, <2>1, <2>2, <2>3, RowStartIs
<1>6. ASSUME NEW pos \in Places, IsPlace(c, pos) PROVE Offset(d, pos) = Offset(c, pos)
  <2>1. Offset(c, pos) = RowStart(c, pos.row) + pos.col /\ pos.row \in 0..LastRow(c)
    BY <1>6, PlaceIsNormal
  <2>2. Offset(d, pos) = RowStart(d, pos.row) + pos.col
    BY <1>1, <1>3, <1>6, PlaceIsNormal
  <2> QED BY <1>5, <2>1, <2>2
<1> QED BY <1>1, <1>2, <1>3, <1>4, <1>5, <1>6

\* Four texts end to end.
Regroups4(g, u, v, s) == (g \o (u \o v)) \o s = (g \o u) \o (v \o s)

\* Four texts can be grouped in any way.
LEMMA Regrouped4 == \A g, u, v, s \in Seq(Glyph) : Regroups4(g, u, v, s)
<1> SUFFICES ASSUME NEW g \in Seq(Glyph), NEW u \in Seq(Glyph), NEW v \in Seq(Glyph),
                    NEW s \in Seq(Glyph)
             PROVE  Regroups4(g, u, v, s)
  OBVIOUS
<1>1. g \o u \in Seq(Glyph)
  BY Parts
<1>2. Regroups(g, u, v) /\ Regroups(g \o u, v, s)
  BY <1>1, Regrouped
<1> QED BY <1>2 DEF Regroups, Regroups4

\* The length of two texts end to end is the sum.
LEMMA Glued ==
  ASSUME NEW s \in Seq(Glyph), NEW t \in Seq(Glyph)
  PROVE  s \o t \in Seq(Glyph) /\ Len(s \o t) = Len(s) + Len(t)
BY Parts

\* A splice inside a part of a text.
Inside(g, p, s, new, a, z) ==
  /\ Splice((g \o p) \o s, Len(g) + a, Len(g) + z, new) = (g \o Splice(p, a, z, new)) \o s
  /\ Splice(p, a, z, new) \in Seq(Glyph)

\* A replacement in the middle leaves both ends of the text.
LEMMA SpliceInside ==
  ASSUME NEW g \in Seq(Glyph), NEW p \in Seq(Glyph), NEW s \in Seq(Glyph), NEW new \in Seq(Glyph),
         NEW a \in 0..Len(p), NEW z \in 0..Len(p)
  PROVE  Inside(g, p, s, new, a, z)
<1> DEFINE p1 == SubSeq(p, 1, a)
           p2 == SubSeq(p, a + 1, Len(p))
           q1 == SubSeq(p, 1, z)
           q2 == SubSeq(p, z + 1, Len(p))
           t  == (g \o p) \o s
<1>1. /\ p1 \in Seq(Glyph) /\ p2 \in Seq(Glyph) /\ p1 \o p2 = p /\ Len(p1) = a
      /\ q1 \in Seq(Glyph) /\ q2 \in Seq(Glyph) /\ q1 \o q2 = p /\ Len(q1) = z
  BY CutRight
<1>2. Splice(p, a, z, new) = (p1 \o new) \o q2
  BY DEF Splice
<1>3. t = (g \o p) \o s
  OBVIOUS
<1> HIDE DEF p1, p2, q1, q2, t
<1>4. SubSeq(t, 1, Len(g) + a) = g \o p1 /\ g \o p1 \in Seq(Glyph)
  <2> DEFINE x == g \o p1
             y == p2 \o s
  <2>1. Regroups4(g, p1, p2, s)
    BY <1>1, Regrouped4
  <2>2. t = x \o y
    BY <1>1, <1>3, <2>1 DEF Regroups4
  <2>3. x \in Seq(Glyph) /\ y \in Seq(Glyph) /\ Len(x) = Len(g) + a
    BY <1>1, Glued
  <2> HIDE DEF x, y
  <2>4. SubSeq(x \o y, 1, Len(x)) = x
    BY <2>3, UncutRight
  <2> QED BY <2>2, <2>3, <2>4 DEF x
<1>5. SubSeq(t, Len(g) + z + 1, Len(t)) = q2 \o s /\ q2 \o s \in Seq(Glyph)
  <2> DEFINE x == g \o q1
             y == q2 \o s
  <2>1. Regroups4(g, q1, q2, s)
    BY <1>1, Regrouped4
  <2>2. t = x \o y
    BY <1>1, <1>3, <2>1 DEF Regroups4
  <2>3. x \in Seq(Glyph) /\ y \in Seq(Glyph) /\ Len(x) = Len(g) + z
    BY <1>1, Glued
  <2> HIDE DEF x, y
  <2>4. SubSeq(x \o y, Len(x) + 1, Len(x \o y)) = y
    BY <2>3, UncutRight
  <2> QED BY <2>2, <2>3, <2>4 DEF y
<1>6. Splice(t, Len(g) + a, Len(g) + z, new) = ((g \o p1) \o new) \o (q2 \o s)
  BY <1>4, <1>5 DEF Splice
<1>7. p1 \o new \in Seq(Glyph)
  BY <1>1, Glued
<1>8. (p1 \o new) \o q2 \in Seq(Glyph)
  BY <1>1, <1>7, Glued
<1>9. Regroups(g, p1, new) /\ Regroups4(g, p1 \o new, q2, s)
  BY <1>1, <1>7, Regrouped, Regrouped4
<1>10. (g \o ((p1 \o new) \o q2)) \o s = ((g \o p1) \o new) \o (q2 \o s)
  BY <1>9, Zenon DEF Regroups, Regroups4
<1> QED BY <1>2, <1>3, <1>6, <1>8, <1>10 DEF Inside

\* Rows that are replaced, with what precedes and what follows them as it was.
Rewrites(b, r, r2, d, q2, part, a, z, new) ==
  /\ r \in 0..LastRow(b) /\ r2 \in 0..LastRow(b) /\ r \in 0..LastRow(d) /\ q2 \in 0..LastRow(d)
  /\ BeginAlike(b.lines, d.lines, r) /\ EndAlike(b.lines, r2, d.lines, q2)
  /\ a \in 0..Len(part) /\ z \in 0..Len(part)
  /\ RowStart(b, r) + a \in Boundaries(ToText(b)) /\ RowStart(b, r) + z \in Boundaries(ToText(b))
  /\ \A h : Throughs(h, b.lines) => h[r2] = Ahead(h, r) \o part
  /\ \A k : Throughs(k, d.lines) => k[q2] = Ahead(k, r) \o Splice(part, a, z, new)

\* So replacing rows by others that differ in one place splices the text there.
LEMMA RowsSpliced ==
  ASSUME NEW b, Sound(b), NEW d, d.lines \in Rows, NEW r, NEW r2, NEW q2,
         NEW part \in Seq(Glyph), NEW a, NEW z, NEW new, TextOK(new),
         Rewrites(b, r, r2, d, q2, part, a, z, new)
  PROVE  /\ ToText(d) = Splice(ToText(b), RowStart(b, r) + a, RowStart(b, r) + z, new)
         /\ Sound(d) /\ RowStart(d, r) = RowStart(b, r)
<1>1. PICK h : Throughs(h, b.lines)
  BY ThroughsExist DEF Sound
<1>2. PICK k : Throughs(k, d.lines)
  BY ThroughsExist
<1>3. /\ b.lines \in Rows /\ TextOK(ToText(b)) /\ LastRow(b) = Len(b.lines) - 1
      /\ LastRow(d) = Len(d.lines) - 1 /\ Len(d.lines) \in Nat \ {0} /\ LastRow(d) \in 0..LastRow(d)
  BY SoundRows, RowsRight DEF LastRow
<1>4. /\ r \in 0..(Len(b.lines) - 1) /\ r2 \in 0..(Len(b.lines) - 1)
      /\ r \in 0..(Len(d.lines) - 1) /\ q2 \in 0..(Len(d.lines) - 1)
      /\ r \in 0..LastRow(b) /\ r \in 0..LastRow(d)
  BY <1>3 DEF Rewrites
<1> DEFINE g == Ahead(h, r)
<1>5. Ahead(k, r) = g
  <2>1. BeginAlike(b.lines, d.lines, r)
    BY DEF Rewrites
  <2> QED BY <1>1, <1>2, <1>3, <1>4, <2>1, SameHead
<1>6. g \in Seq(Glyph) /\ Len(g) = RowStart(b, r) /\ RowStart(d, r) = Len(g)
  <2>1. g \in Seq(Glyph)
    BY <1>1, <1>3, <1>4, AheadRight
  <2>2. Len(g) = RowStart(b, r)
    BY <1>1, <1>3, <1>4, AheadLen
  <2>3. Len(Ahead(k, r)) = RowStart(d, r)
    BY <1>2, <1>4, AheadLen
  <2> QED BY <1>5, <2>1, <2>2, <2>3
<1>7. h[r2] = g \o part /\ k[q2] = g \o Splice(part, a, z, new)
  BY <1>1, <1>2, <1>5 DEF Rewrites
<1> HIDE DEF g
<1>8. PICK s \in Seq(Glyph) :
        h[Len(b.lines) - 1] = h[r2] \o s /\ k[Len(d.lines) - 1] = k[q2] \o s
  <2>1. EndAlike(b.lines, r2, d.lines, q2)
    BY DEF Rewrites
  <2>2. CommonTail(h, b.lines, r2, k, d.lines, q2)
    BY <1>1, <1>2, <1>3, <1>4, <2>1, SameTail
  <2> QED BY <2>2 DEF CommonTail
<1>9. /\ ToText(b) = (g \o part) \o s /\ ToText(d) = (g \o Splice(part, a, z, new)) \o s
      /\ ToText(d) = k[Len(d.lines) - 1]
  BY <1>1, <1>2, <1>3, <1>7, <1>8, ToTextRight
<1>10. a \in 0..Len(part) /\ z \in 0..Len(part) /\ new \in Seq(Glyph)
  BY BytesRight DEF Rewrites
<1>11. ToText(d) = Splice(ToText(b), RowStart(b, r) + a, RowStart(b, r) + z, new)
  <2>1. Inside(g, part, s, new, a, z)
    BY <1>6, <1>10, SpliceInside
  <2>2. Splice((g \o part) \o s, Len(g) + a, Len(g) + z, new)
          = (g \o Splice(part, a, z, new)) \o s
    BY <2>1 DEF Inside
  <2> QED BY <1>6, <1>9, <2>2
<1>12. TextOK(ToText(d))
  <2>1. RowStart(b, r) + a \in Boundaries(ToText(b)) /\ RowStart(b, r) + z \in Boundaries(ToText(b))
    BY DEF Rewrites
  <2> QED BY <1>3, <1>11, <2>1, SpliceText
<1>13. LinesOK(d.lines)
  BY <1>2, <1>9, <1>12, TextMakesLines
<1> QED BY <1>6, <1>11, <1>13 DEF Sound

\* The rows of a splice, one by one.
RowsOfSplice(lines, from, to, new, lines2) ==
  /\ lines2 \in Seq(Seq(Byte))
  /\ Len(lines2) = Len(lines) - (to - from) + Len(new)
  /\ \A i \in 1..from : lines2[i] = lines[i]
  /\ \A i \in 1..Len(new) : lines2[from + i] = new[i]
  /\ \A i \in 1..(Len(lines) - to) : lines2[from + Len(new) + i] = lines[to + i]

\* The rows of a document of which some are replaced.
LEMMA SplicedRows ==
  ASSUME NEW lines \in Seq(Seq(Byte)), NEW new \in Seq(Seq(Byte)),
         NEW from \in 0..Len(lines), NEW to \in from..Len(lines)
  PROVE  RowsOfSplice(lines, from, to, new, Splice(lines, from, to, new))
<1> DEFINE V == Seq(Byte)
           x == SubSeq(lines, 1, from)
           y == SubSeq(lines, to + 1, Len(lines))
           w == x \o new
           u == w \o y
<1>1. /\ Len(lines) \in Nat /\ Len(new) \in Nat /\ from \in Nat /\ to \in Nat
      /\ \A i \in 1..Len(lines) : lines[i] \in V
  BY LenProperties, ElementOfSeq
<1>2. x \in Seq(V) /\ Len(x) = from /\ \A i \in 1..from : x[i] = lines[i]
  <2>1. 1 \in Int /\ from \in Int /\ \A i \in 1..from : lines[i] \in V
    BY <1>1
  <2>2. /\ x \in Seq(V) /\ Len(x) = IF 1 <= from THEN from - 1 + 1 ELSE 0
        /\ \A i \in 1..(from - 1 + 1) : x[i] = lines[1 + i - 1]
    <3> HIDE DEF V
    <3> QED BY <2>1, SubSeqProperties, SMTT(20)
  <2>3. from - 1 + 1 = from /\ \A i \in 1..from : 1 + i - 1 = i
    BY <1>1
  <2> HIDE DEF x
  <2> QED BY <1>1, <2>2, <2>3
<1>3. y \in Seq(V) /\ Len(y) = Len(lines) - to
      /\ \A i \in 1..(Len(lines) - to) : y[i] = lines[to + i]
  <2>1. to + 1 \in Int /\ Len(lines) \in Int /\ \A i \in (to + 1)..Len(lines) : lines[i] \in V
    BY <1>1
  <2>2. /\ y \in Seq(V)
        /\ Len(y) = IF to + 1 <= Len(lines) THEN Len(lines) - (to + 1) + 1 ELSE 0
        /\ \A i \in 1..(Len(lines) - (to + 1) + 1) : y[i] = lines[to + 1 + i - 1]
    <3> HIDE DEF V
    <3> QED BY <2>1, SubSeqProperties, SMTT(30)
  <2>3. /\ Len(lines) - (to + 1) + 1 = Len(lines) - to
        /\ (to + 1 <= Len(lines) <=> Len(lines) - to # 0)
        /\ \A i \in 1..(Len(lines) - to) : to + 1 + i - 1 = to + i
    BY <1>1
  <2> HIDE DEF y
  <2>4. \A i \in 1..(Len(lines) - to) : y[i] = lines[to + i]
    BY <2>2, <2>3
  <2> QED BY <2>2, <2>3, <2>4
<1> HIDE DEF x, y
<1>4. /\ w \in Seq(V) /\ Len(w) = from + Len(new)
      /\ \A i \in 1..(from + Len(new)) : w[i] = IF i <= from THEN x[i] ELSE new[i - from]
  <2> HIDE DEF V, w
  <2>1. new \in Seq(V)
    BY DEF V
  <2>2. /\ x \o new \in Seq(V) /\ Len(x \o new) = Len(x) + Len(new)
        /\ \A i \in 1..(Len(x) + Len(new)) :
             (x \o new)[i] = IF i <= Len(x) THEN x[i] ELSE new[i - Len(x)]
    BY <1>2, <2>1, ConcatProperties
  <2> QED BY <1>2, <2>2 DEF w
<1>5. /\ u \in Seq(V) /\ Len(u) = from + Len(new) + (Len(lines) - to)
      /\ \A i \in 1..(from + Len(new) + (Len(lines) - to)) :
           u[i] = IF i <= from + Len(new) THEN w[i] ELSE y[i - (from + Len(new))]
  <2> HIDE DEF V, w, u
  <2>1. /\ w \o y \in Seq(V) /\ Len(w \o y) = Len(w) + Len(y)
        /\ \A i \in 1..(Len(w) + Len(y)) : (w \o y)[i] = IF i <= Len(w) THEN w[i] ELSE y[i - Len(w)]
    BY <1>3, <1>4, ConcatProperties
  <2> QED BY <1>3, <1>4, <2>1 DEF u
<1>6. Splice(lines, from, to, new) = u
  BY DEF Splice, x, y
<1> HIDE DEF V, w, u
<1>7. \A i \in 1..from : u[i] = lines[i]
  <2> SUFFICES ASSUME NEW i \in 1..from PROVE u[i] = lines[i]
    OBVIOUS
  <2>1. i \in 1..(from + Len(new) + (Len(lines) - to)) /\ i \in 1..(from + Len(new))
        /\ i <= from /\ i <= from + Len(new)
    BY <1>1
  <2> QED BY <1>2, <1>4, <1>5, <2>1
<1>8. \A i \in 1..Len(new) : u[from + i] = new[i]
  <2> SUFFICES ASSUME NEW i \in 1..Len(new) PROVE u[from + i] = new[i]
    OBVIOUS
  <2>1. /\ from + i \in 1..(from + Len(new) + (Len(lines) - to))
        /\ from + i \in 1..(from + Len(new))
        /\ ~(from + i <= from) /\ from + i <= from + Len(new) /\ (from + i) - from = i
    BY <1>1
  <2> QED BY <1>4, <1>5, <2>1
<1>9. \A i \in 1..(Len(lines) - to) : u[from + Len(new) + i] = lines[to + i]
  <2> SUFFICES ASSUME NEW i \in 1..(Len(lines) - to) PROVE u[from + Len(new) + i] = lines[to + i]
    OBVIOUS
  <2>1. /\ from + Len(new) + i \in 1..(from + Len(new) + (Len(lines) - to))
        /\ ~(from + Len(new) + i <= from + Len(new))
        /\ (from + Len(new) + i) - (from + Len(new)) = i
    BY <1>1
  <2> QED BY <1>3, <1>5, <2>1
<1>10. from + Len(new) + (Len(lines) - to) = Len(lines) - (to - from) + Len(new)
  BY <1>1
<1>11. RowsOfSplice(lines, from, to, new, u)
  BY <1>5, <1>7, <1>8, <1>9, <1>10 DEF V, RowsOfSplice
<1> QED BY <1>6, <1>11

-----------------------------------------------------------------------------
(***************************************************************************)
(* Buffers with whole characters whose places exist, and what an edit does *)
(* to such a buffer.                                                       *)
(***************************************************************************)
Buffers == [lines : Rows, at : Places, selecting : BOOLEAN, anchor : Places]

\* Cursor and anchor are places, and without a selection the anchor rests.
Good(b) ==
  /\ b \in Buffers /\ LinesOK(b.lines)
  /\ IsPlace(b, b.at) /\ IsPlace(b, b.anchor)
  /\ b.selecting \/ b.anchor = Origin

\* The buffer with nothing selected.
Quiet(lines, at) == [lines |-> lines, at |-> at, selecting |-> FALSE, anchor |-> Origin]

\* A piece of the text was replaced, the cursor is behind what replaced it.
Edited(b, d, from, to, new) ==
  /\ Good(d) /\ ~HasSelection(d)
  /\ ToText(d) = Splice(ToText(b), from, to, new)
  /\ Offset(d, d.at) = from + Len(new)

\* The parts of a good buffer.
LEMMA GoodParts ==
  ASSUME NEW b, Good(b)
  PROVE  /\ b \in Buffers /\ Sound(b) /\ b.lines \in Rows /\ b.at \in Places /\ b.anchor \in Places
         /\ IsPlace(b, b.at) /\ IsPlace(b, b.anchor) /\ b.selecting \in BOOLEAN
         /\ b.selecting \/ b.anchor = Origin
BY DEF Good, Buffers, Sound

\* The origin is a place of every buffer.
LEMMA OriginIsPlace ==
  ASSUME NEW b, Sound(b)
  PROVE  Origin \in Places /\ IsPlace(b, Origin) /\ Offset(b, Origin) = 0
<1>1. Origin \in Places /\ Origin.row = 0 /\ Origin.col = 0
  BY DEF Origin, Pos, Places
<1>2. 0 \in 0..LastRow(b) /\ GoodLine(Line(b, 0))
  BY SoundRows
<1>3. 0 \in Boundaries(Line(b, 0))
  BY <1>2, PlacesOfLine
<1>4. IsPlace(b, Origin)
  BY <1>1, <1>2, <1>3 DEF IsPlace
<1>5. Offset(b, Origin) = RowStart(b, 0) + 0 /\ RowStart(b, 0) = 0
  BY <1>1, <1>4, PlaceIsNormal, RowStartRight, SoundRows
<1> QED BY <1>1, <1>4, <1>5

\* A buffer without a selection is good if its lines and its cursor are.
LEMMA QuietIsGood ==
  ASSUME NEW b, Sound(b), NEW at \in Places, IsPlace(b, at)
  PROVE  /\ Good(Quiet(b.lines, at)) /\ Quiet(b.lines, at).lines = b.lines
         /\ Quiet(b.lines, at).at = at /\ ~HasSelection(Quiet(b.lines, at))
         /\ ToText(Quiet(b.lines, at)) = ToText(b)
         /\ Offset(Quiet(b.lines, at), at) = Offset(b, at)
<1> DEFINE d == Quiet(b.lines, at)
<1>1. d.lines = b.lines /\ d.at = at /\ d.selecting = FALSE /\ d.anchor = Origin
  BY DEF Quiet
<1>2. /\ Sound(d) /\ ToText(d) = ToText(b) /\ Offset(d, at) = Offset(b, at)
      /\ IsPlace(d, at)
  BY <1>1, SameLines
<1>3. IsPlace(d, Origin) /\ Origin \in Places
  BY <1>2, OriginIsPlace
<1>4. d \in Buffers
  BY <1>3 DEF Quiet, Buffers, Sound
<1> HIDE DEF d
<1>5. Good(d) /\ ~HasSelection(d)
  BY <1>1, <1>2, <1>3, <1>4 DEF Good, Sound, HasSelection
<1> QED BY <1>1, <1>2, <1>5 DEF d

\* Buffers are told apart by their parts.
LEMMA SameBuffers ==
  ASSUME NEW c \in Buffers, NEW d \in Buffers,
         c.lines = d.lines, c.at = d.at, c.selecting = d.selecting, c.anchor = d.anchor
  PROVE  c = d
BY DEF Buffers

\* A buffer that is rid of its selection.
LEMMA ClearIs ==
  ASSUME NEW b \in Buffers
  PROVE  ClearSelection(b) = Quiet(b.lines, b.at)
<1>1. Origin \in Places
  BY DEF Origin, Pos, Places
<1>2. /\ ClearSelection(b) \in Buffers /\ ClearSelection(b).selecting = FALSE
      /\ ClearSelection(b).anchor = Origin /\ ClearSelection(b).lines = b.lines
      /\ ClearSelection(b).at = b.at
  BY <1>1 DEF Buffers, ClearSelection
<1>3. Quiet(b.lines, b.at) \in Buffers
  BY <1>1 DEF Buffers, Quiet
<1>4. /\ Quiet(b.lines, b.at).selecting = FALSE /\ Quiet(b.lines, b.at).anchor = Origin
      /\ Quiet(b.lines, b.at).lines = b.lines /\ Quiet(b.lines, b.at).at = b.at
  BY DEF Quiet
<1> QED BY <1>2, <1>3, <1>4, SameBuffers

\* Another cursor, and no selection.
LEMMA QuietIs ==
  ASSUME NEW b \in Buffers, NEW x \in Places
  PROVE  /\ ClearSelection([b EXCEPT !.at = x]) = Quiet(b.lines, x)
         /\ ClearSelection(b) = Quiet(b.lines, b.at)
         /\ (~b.selecting /\ b.anchor = Origin) => b = Quiet(b.lines, b.at)
<1>1. /\ [b EXCEPT !.at = x] \in Buffers /\ [b EXCEPT !.at = x].lines = b.lines
      /\ [b EXCEPT !.at = x].at = x
  BY DEF Buffers
<1>2. ClearSelection([b EXCEPT !.at = x]) = Quiet(b.lines, x)
  BY <1>1, ClearIs
<1>3. ClearSelection(b) = Quiet(b.lines, b.at)
  BY ClearIs
<1>4. (~b.selecting /\ b.anchor = Origin) => b = Quiet(b.lines, b.at)
  BY DEF Quiet, Buffers
<1> QED BY <1>2, <1>3, <1>4

\* Where the selection of a buffer is.
LEMMA SelectedRight ==
  ASSUME NEW b, Good(b)
  PROVE  /\ Selected(b).from \in Places /\ Selected(b).to \in Places
         /\ IsPlace(b, Selected(b).from) /\ IsPlace(b, Selected(b).to)
         /\ ~HasSelection(b) => Selected(b).from = b.at /\ Selected(b).to = b.at
         /\ HasSelection(b) => \/ Selected(b).from = b.at /\ Selected(b).to = b.anchor
                               \/ Selected(b).from = b.anchor /\ Selected(b).to = b.at
         /\ Offset(b, Selected(b).from) <= Offset(b, Selected(b).to)
         /\ Offset(b, b.at) \in Nat /\ Offset(b, b.anchor) \in Nat
<1>1. /\ Sound(b) /\ b.at \in Places /\ b.anchor \in Places
      /\ IsPlace(b, b.at) /\ IsPlace(b, b.anchor)
  BY GoodParts
<1>2. PICK h : Throughs(h, b.lines)
  BY <1>1, ThroughsExist DEF Sound
<1>3. Offset(b, b.at) \in Nat /\ Offset(b, b.anchor) \in Nat
  BY <1>1, <1>2, PlaceInText
<1>4. CASE ~HasSelection(b)
  <2>1. Selected(b).from = b.at /\ Selected(b).to = b.at
    BY <1>4 DEF Selected
  <2> QED BY <1>1, <1>3, <1>4, <2>1
<1>5. CASE HasSelection(b) /\ Before(b.anchor, b.at)
  <2>1. Selected(b).from = b.anchor /\ Selected(b).to = b.at
    BY <1>5 DEF Selected
  <2>2. Offset(b, b.anchor) < Offset(b, b.at)
    BY <1>1, <1>5, OffsetsInOrder
  <2> QED BY <1>1, <1>3, <1>5, <2>1, <2>2
<1>6. CASE HasSelection(b) /\ ~Before(b.anchor, b.at)
  <2>1. Selected(b).from = b.at /\ Selected(b).to = b.anchor
    BY <1>6 DEF Selected
  <2>2. b.anchor # b.at
    BY <1>6 DEF HasSelection
  <2>3. Before(b.at, b.anchor)
    BY <1>1, <1>6, <2>2, OffsetsInOrder
  <2>4. Offset(b, b.at) < Offset(b, b.anchor)
    BY <1>1, <2>3, OffsetsInOrder
  <2> QED BY <1>1, <1>3, <1>6, <2>1, <2>4
<1> QED BY <1>4, <1>5, <1>6

-----------------------------------------------------------------------------
(***************************************************************************)
(* The whole text.                                                         *)
(***************************************************************************)
\* A text that is set is the text, in whole lines.
LEMMA SetTextRight ==
  ASSUME NEW b \in Buffers, NEW text, TextOK(text)
  PROVE  /\ Good(SetText(b, text)) /\ SetText(b, text) \in Buffers /\ Sound(SetText(b, text))
         /\ ~HasSelection(SetText(b, text)) /\ ToText(SetText(b, text)) = text
<1> DEFINE c  == [b EXCEPT !.lines = Split(text)]
           at == EndOf(c, LastRow(c))
<1>1. text \in Seq(Glyph)
  BY BytesRight
<1>2. Split(text) \in Rows /\ \A k : Throughs(k, Split(text)) => k[Len(Split(text)) - 1] = text
  BY <1>1, SplitJoins
<1>3. PICK k : Throughs(k, Split(text))
  BY <1>2, ThroughsExist
<1>4. k[Len(Split(text)) - 1] = text
  BY <1>2, <1>3
<1>5. c.lines = Split(text) /\ c \in Buffers
  BY <1>2 DEF Buffers
<1> HIDE DEF c
<1>6. Sound(c)
  BY <1>2, <1>3, <1>4, <1>5, TextMakesLines DEF Sound
<1>7. ToText(c) = text
  BY <1>2, <1>3, <1>4, <1>5, ToTextRight DEF LastRow
<1>8. at \in Places /\ IsPlace(c, at)
  <2>1. LastRow(c) \in 0..LastRow(c) /\ LastRow(c) \in Nat /\ GoodLine(Line(c, LastRow(c)))
    BY <1>6, SoundRows
  <2>2. Len(Line(c, LastRow(c))) \in Boundaries(Line(c, LastRow(c)))
        /\ Len(Line(c, LastRow(c))) \in Nat
    BY <2>1, PlacesOfLine
  <2> QED BY <2>1, <2>2 DEF EndOf, Pos, Places, IsPlace
<1> HIDE DEF at
<1>9. SetText(b, text) = Quiet(c.lines, at)
  <2>1. SetText(b, text) = ClearSelection([c EXCEPT !.at = at])
    BY DEF SetText, c, at
  <2> QED BY <1>5, <1>8, <2>1, QuietIs
<1>10. Good(Quiet(c.lines, at)) /\ ~HasSelection(Quiet(c.lines, at))
       /\ ToText(Quiet(c.lines, at)) = text
  BY <1>6, <1>7, <1>8, QuietIsGood
<1> QED BY <1>9, <1>10, GoodParts

\* Replacing a part of the text by another text does that and no more.
LEMMA ReplaceRight ==
  ASSUME NEW b, Good(b), NEW range, range.from \in Places, range.to \in Places,
         IsPlace(b, range.from), IsPlace(b, range.to), NEW text, TextOK(text)
  PROVE  Edited(b, Replace(b, range, text), Offset(b, range.from), Offset(b, range.to), text)
<1> DEFINE from == Offset(b, range.from)
           to   == Offset(b, range.to)
           s    == Splice(ToText(b), from, to, text)
           new  == SetText(b, s)
           at   == AtOffset(new, from + Len(text))
<1>1. Sound(b) /\ b \in Buffers /\ TextOK(ToText(b))
  BY GoodParts, SoundRows
<1>2. from \in Boundaries(ToText(b)) /\ to \in Boundaries(ToText(b)) /\ from \in Nat
  <2>1. PICK h : Throughs(h, b.lines)
    BY <1>1, ThroughsExist DEF Sound
  <2> QED BY <1>1, <2>1, PlaceInText
<1>3. TextOK(s) /\ from + Len(text) \in Boundaries(s) /\ Len(text) \in Nat
  <2> HIDE DEF from, to
  <2> QED BY <1>1, <1>2, SpliceText, BytesRight
<1>4. Replace(b, range, text) = ClearSelection([new EXCEPT !.at = at])
  BY DEF Replace
<1> HIDE DEF from, to, s
<1>5. Good(new) /\ Sound(new) /\ ToText(new) = s /\ new \in Buffers
  BY <1>1, <1>3, SetTextRight
<1> HIDE DEF new
<1>6. at \in Places /\ IsPlace(new, at) /\ Offset(new, at) = from + Len(text)
  <2>1. from + Len(text) \in Nat /\ from + Len(text) \in Boundaries(ToText(new))
    BY <1>2, <1>3, <1>5
  <2> QED BY <1>5, <2>1, OffsetHasPlace
<1> HIDE DEF at
<1>7. Replace(b, range, text) = Quiet(new.lines, at)
  BY <1>4, <1>5, <1>6, QuietIs
<1>8. Edited(b, Quiet(new.lines, at), from, to, text)
  <2>1. /\ Good(Quiet(new.lines, at)) /\ Quiet(new.lines, at).at = at
        /\ ~HasSelection(Quiet(new.lines, at)) /\ ToText(Quiet(new.lines, at)) = ToText(new)
        /\ Offset(Quiet(new.lines, at), at) = Offset(new, at)
    BY <1>5, <1>6, QuietIsGood
  <2> QED BY <1>5, <1>6, <2>1 DEF Edited, s
<1> QED BY <1>7, <1>8 DEF from, to

\* A cursor and a selection: without one the buffer is only rid of its marks.
LEMMA WithoutSelectionIs ==
  ASSUME NEW b, Good(b)
  PROVE  /\ ClampCursor(b) = b
         /\ ~HasSelection(b) => WithoutSelection(b) = Quiet(b.lines, b.at)
<1>1. b \in Buffers /\ Sound(b) /\ b.at \in Places /\ IsPlace(b, b.at)
      /\ (b.selecting \/ b.anchor = Origin)
  BY GoodParts
<1>2. Normal(b, b.at) = b.at
  BY <1>1, PlaceIsNormal
<1>3. ClampCursor(b) = b
  BY <1>1, <1>2 DEF ClampCursor, Buffers
<1>4. ASSUME ~HasSelection(b) PROVE WithoutSelection(b) = Quiet(b.lines, b.at)
  <2>1. ClearCollapsed(b) = Quiet(b.lines, b.at)
    <3>1. CASE b.selecting
      BY <1>1, <1>4, <3>1, QuietIs DEF ClearCollapsed
    <3>2. CASE ~b.selecting
      BY <1>1, <3>2, QuietIs DEF ClearCollapsed
    <3> QED BY <3>1, <3>2
  <2> DEFINE d == Quiet(b.lines, b.at)
  <2>2. d \in Buffers /\ d.at = b.at /\ Sound(d) /\ IsPlace(d, d.at) /\ d.at \in Places
    <3>1. Good(d) /\ d.at = b.at
      BY <1>1, QuietIsGood
    <3> HIDE DEF d
    <3> QED BY <3>1, GoodParts
  <2> HIDE DEF d
  <2>3. Normal(d, d.at) = d.at
    BY <2>2, PlaceIsNormal
  <2>4. ClampCursor(d) = d
    BY <2>2, <2>3 DEF ClampCursor, Buffers
  <2> QED BY <2>1, <2>4 DEF WithoutSelection, d
<1> QED BY <1>3, <1>4

-----------------------------------------------------------------------------
(***************************************************************************)
(* The shortcuts for edits in one line, or at its end.                     *)
(***************************************************************************)
\* The selection of a buffer is empty.
Unselected(d) == (d.selecting /\ d.anchor = d.at) \/ (~d.selecting /\ d.anchor = Origin)

\* A buffer some rows of which are replaced is edited, if its cursor is good.
LEMMA RowsEdited ==
  ASSUME NEW b, Good(b), NEW d \in Buffers, NEW r, NEW r2, NEW q2,
         NEW part \in Seq(Glyph), NEW a, NEW z, NEW new, TextOK(new),
         Rewrites(b, r, r2, d, q2, part, a, z, new),
         d.at.row \in 0..LastRow(d), d.at.col \in Boundaries(Line(d, d.at.row)),
         Unselected(d), RowStart(d, d.at.row) + d.at.col = RowStart(d, r) + a + Len(new)
  PROVE  Edited(b, d, RowStart(b, r) + a, RowStart(b, r) + z, new)
<1>1. Sound(b) /\ d.lines \in Rows /\ d.at \in Places
  BY GoodParts DEF Buffers
<1>2. /\ ToText(d) = Splice(ToText(b), RowStart(b, r) + a, RowStart(b, r) + z, new)
      /\ Sound(d) /\ RowStart(d, r) = RowStart(b, r)
  BY <1>1, RowsSpliced
<1>3. IsPlace(d, d.at)
  BY DEF IsPlace
<1>4. IsPlace(d, Origin)
  BY <1>2, OriginIsPlace
<1>5. IsPlace(d, d.anchor) /\ (d.selecting \/ d.anchor = Origin) /\ ~HasSelection(d)
  BY <1>3, <1>4 DEF Unselected, HasSelection
<1>6. Good(d)
  BY <1>2, <1>3, <1>5 DEF Good, Sound
<1>7. Offset(d, d.at) = RowStart(b, r) + a + Len(new)
  BY <1>1, <1>2, <1>3, PlaceIsNormal
<1> QED BY <1>2, <1>5, <1>6, <1>7 DEF Edited

\* The places of a row in the text.
LEMMA RowPlace ==
  ASSUME NEW b, Sound(b), NEW row \in 0..LastRow(b), NEW p \in Boundaries(Line(b, row))
  PROVE  /\ Pos(row, p) \in Places /\ IsPlace(b, Pos(row, p)) /\ p \in Nat
         /\ Offset(b, Pos(row, p)) = RowStart(b, row) + p
         /\ RowStart(b, row) + p \in Boundaries(ToText(b))
<1>1. LastRow(b) \in Nat /\ GoodLine(Line(b, row)) /\ b.lines \in Rows
  BY SoundRows
<1>2. p \in Nat /\ row \in Nat
  BY <1>1, PlacesOfLine
<1>3. Pos(row, p) \in Places /\ IsPlace(b, Pos(row, p)) /\ Pos(row, p).row = row
      /\ Pos(row, p).col = p
  BY <1>2 DEF Pos, Places, IsPlace
<1>4. Offset(b, Pos(row, p)) = RowStart(b, row) + p
  BY <1>3, PlaceIsNormal
<1>5. PICK h : Throughs(h, b.lines)
  BY <1>1, ThroughsExist
<1>6. Offset(b, Pos(row, p)) \in Boundaries(ToText(b))
  BY <1>3, <1>5, PlaceInText
<1> QED BY <1>2, <1>3, <1>4, <1>6

\* One row of the lines is another.
RowReplaced(lines, lines2, row, cut) ==
  /\ lines2 \in Rows /\ Len(lines2) = Len(lines) /\ lines2[row + 1] = cut
  /\ \A i \in 1..Len(lines) : i # row + 1 => lines2[i] = lines[i]

\* One row is replaced.
LEMMA ReplacesRow ==
  ASSUME NEW lines \in Rows, NEW row \in 0..(Len(lines) - 1), NEW cut \in Seq(Byte)
  PROVE  RowReplaced(lines, [lines EXCEPT ![row + 1] = cut], row, cut)
<1> DEFINE N == Len(lines)
           lines2 == [lines EXCEPT ![row + 1] = cut]
<1>1. N \in Nat \ {0}
  BY RowsRight
<1>2. lines \in [1..N -> Seq(Byte)] /\ row + 1 \in 1..N
  BY <1>1, LenProperties DEF Rows
<1>3. /\ lines2 \in [1..N -> Seq(Byte)] /\ lines2[row + 1] = cut
      /\ \A i \in 1..N : i # row + 1 => lines2[i] = lines[i]
  BY <1>2
<1> HIDE DEF N, lines2
<1>4. lines2 \in Seq(Seq(Byte))
  BY <1>1, <1>3, SeqDef
<1>5. Len(lines2) = N
  BY <1>1, <1>3, <1>4, LenProperties
<1>6. lines2 # <<>>
  BY <1>1, <1>5, EmptySeq
<1> QED BY <1>3, <1>4, <1>5, <1>6 DEF RowReplaced, Rows, N, lines2

\* A piece of one line is replaced.
LEMMA InLine ==
  ASSUME NEW b, Good(b), NEW row \in 0..LastRow(b), NEW from \in Boundaries(Line(b, row)),
         NEW to \in Boundaries(Line(b, row)), NEW new, GoodLine(new), NEW d \in Buffers,
         RowReplaced(b.lines, d.lines, row, Splice(Line(b, row), from, to, new)),
         d.at = Pos(row, from + Len(new)), Unselected(d)
  PROVE  Edited(b, d, RowStart(b, row) + from, RowStart(b, row) + to, new)
<1> DEFINE line == Line(b, row)
           cut  == Splice(line, from, to, new)
           N    == Len(b.lines)
<1>1. /\ Sound(b) /\ b.lines \in Rows /\ GoodLine(line) /\ line = b.lines[row + 1]
      /\ LastRow(b) = N - 1 /\ N \in Nat \ {0}
  BY GoodParts, SoundRows, RowsRight
<1>2. /\ line \in Seq(Byte) /\ line \in Seq(Glyph) /\ TextOK(line) /\ Len(line) \in Nat
      /\ Boundaries(line) \subseteq 0..Len(line)
  BY <1>1, PlacesOfLine
<1>3. new \in Seq(Byte) /\ new \in Seq(Glyph) /\ TextOK(new) /\ Len(new) \in Nat
  BY PlacesOfLine
<1>4. /\ from \in 0..Len(line) /\ to \in 0..Len(line) /\ from \in Nat /\ row \in Nat
      /\ row \in 0..(N - 1) /\ row + 1 \in 1..N
  BY <1>1, <1>2
<1>5. cut \in Seq(Byte) /\ from + Len(new) \in Boundaries(cut)
  <2>1. from \in Boundaries(line) /\ to \in Boundaries(line)
    OBVIOUS
  <2> HIDE DEF line
  <2> QED BY <1>2, <1>3, <1>4, <2>1, SpliceLine, SpliceText
<1>6. RowReplaced(b.lines, d.lines, row, cut)
  OBVIOUS
<1>7. /\ d.lines \in Rows /\ Len(d.lines) = N /\ d.lines[row + 1] = cut
      /\ \A i \in 1..N : i # row + 1 => d.lines[i] = b.lines[i]
  BY <1>6 DEF RowReplaced, N
<1>8. LastRow(d) = N - 1 /\ Line(d, row) = cut
  BY <1>7 DEF LastRow, Line
<1>9. d.at.row = row /\ d.at.col = from + Len(new)
  BY <1>3, <1>4 DEF Pos
<1>10. /\ RowStart(b, row) + from \in Boundaries(ToText(b))
       /\ RowStart(b, row) + to \in Boundaries(ToText(b))
  BY <1>1, RowPlace
<1>11. BeginAlike(b.lines, d.lines, row) /\ EndAlike(b.lines, row, d.lines, row)
  <2> HIDE DEF N, cut, line
  <2>1. BeginAlike(b.lines, d.lines, row)
    <3>1. row <= N - 1 /\ \A i \in 1..row : i \in 1..N /\ i # row + 1
      BY <1>1, <1>4
    <3> QED BY <1>7, <3>1 DEF BeginAlike
  <2>2. \A i \in 1..(N - 1 - row) : row + i + 1 \in 1..N /\ row + i + 1 # row + 1
    BY <1>1, <1>4
  <2>3. N = Len(b.lines)
    BY DEF N
  <2> QED BY <1>7, <2>1, <2>2, <2>3 DEF EndAlike
<1>12. ASSUME NEW h, Throughs(h, b.lines) PROVE h[row] = Ahead(h, row) \o line
  <2>1. h[row] = Ahead(h, row) \o b.lines[row + 1]
    BY <1>1, <1>4, <1>12, AheadRight
  <2> QED BY <1>1, <2>1, Zenon
<1>13. ASSUME NEW k, Throughs(k, d.lines) PROVE k[row] = Ahead(k, row) \o cut
  <2> HIDE DEF line, cut
  <2>1. row \in 0..(Len(d.lines) - 1) /\ d.lines \in Rows
    BY <1>4, <1>7
  <2>2. k[row] = Ahead(k, row) \o d.lines[row + 1]
    BY <1>13, <2>1, AheadRight
  <2> QED BY <1>7, <2>2, Zenon
<1>14. Rewrites(b, row, row, d, row, line, from, to, new)
  <2> HIDE DEF line, N
  <2> QED BY <1>1, <1>4, <1>8, <1>10, <1>11, <1>12, <1>13 DEF Rewrites
<1>15. RowStart(d, d.at.row) + d.at.col = RowStart(d, row) + from + Len(new)
  <2>1. RowStart(d, row) \in Nat
    <3>1. row \in 0..Len(d.lines)
      BY <1>4, <1>7
    <3> QED BY <1>7, <3>1, RowStartRight
  <2> QED BY <1>3, <1>4, <1>9, <2>1
<1>16. /\ d.at.row \in 0..LastRow(d) /\ d.at.col \in Boundaries(Line(d, d.at.row))
       /\ line \in Seq(Glyph)
  BY <1>1, <1>2, <1>4, <1>5, <1>8, <1>9
<1> HIDE DEF line, cut, N
<1> QED BY <1>3, <1>14, <1>15, <1>16, RowsEdited
\* What precedes two lines.
TwoLines(g, s, t) == ((g \o s) \o <<NewLine>>) \o t = g \o ((s \o <<NewLine>>) \o t)

\* Two lines end to end, and what is ahead of them.
LEMMA TwoLinesGlue ==
  ASSUME NEW g \in Seq(Glyph), NEW s \in Seq(Glyph), NEW t \in Seq(Glyph)
  PROVE  TwoLines(g, s, t) /\ (s \o <<NewLine>>) \o t \in Seq(Glyph)
<1>1. <<NewLine>> \in Seq(Glyph)
  BY LineEndRight
<1>2. s \o <<NewLine>> \in Seq(Glyph)
  BY <1>1, Glued
<1>3. Regroups(g, s, <<NewLine>>) /\ Regroups(g, s \o <<NewLine>>, t)
  BY <1>1, <1>2, Regrouped
<1>4. TwoLines(g, s, t)
  BY <1>3, Zenon DEF Regroups, TwoLines
<1> QED BY <1>2, <1>4, Glued

\* Two rows that follow each other.
LEMMA NextRow ==
  ASSUME NEW lines \in Rows, NEW h, Throughs(h, lines), NEW r \in 0..(Len(lines) - 1),
         r + 1 \in 0..(Len(lines) - 1)
  PROVE  /\ h[r + 1] = Ahead(h, r) \o ((lines[r + 1] \o <<NewLine>>) \o lines[r + 2])
         /\ (lines[r + 1] \o <<NewLine>>) \o lines[r + 2] \in Seq(Glyph)
<1> DEFINE g == Ahead(h, r)
           s == lines[r + 1]
           t == lines[r + 2]
<1>1. g \in Seq(Glyph) /\ s \in Seq(Glyph) /\ h[r] = g \o s
  BY AheadRight
<1>2. Len(lines) \in Nat /\ r \in Nat /\ r + 2 \in 1..Len(lines) /\ r + 1 \in 1..(Len(lines) - 1)
      /\ r + 1 - 1 = r /\ r + 1 + 1 = r + 2
  BY RowsRight
<1>3. t \in Seq(Glyph)
  BY <1>2, RowsRight
<1>4. h[r + 1] = h[r] \o <<NewLine>> \o t
  <2>1. \A q \in 1..(Len(lines) - 1) : h[q] = h[q - 1] \o <<NewLine>> \o lines[q + 1]
    BY DEF Throughs
  <2>2. PICK q \in 1..(Len(lines) - 1) : q = r + 1
    BY <1>2
  <2>3. h[q] = h[q - 1] \o <<NewLine>> \o lines[q + 1]
    BY <2>1
  <2>4. q - 1 = r /\ q + 1 = r + 2
    BY <1>2, <2>2
  <2> QED BY <2>2, <2>3, <2>4
<1> HIDE DEF g, s, t
<1>5. TwoLines(g, s, t) /\ (s \o <<NewLine>>) \o t \in Seq(Glyph)
  BY <1>1, <1>3, TwoLinesGlue
<1>6. h[r + 1] = g \o ((s \o <<NewLine>>) \o t)
  BY <1>1, <1>4, <1>5, Zenon DEF TwoLines
<1> QED BY <1>5, <1>6 DEF g, s, t

\* Other lines and another cursor.
OtherQuiet(lines, at, lines2, at2) ==
  [Quiet(lines, at) EXCEPT !.lines = lines2, !.at = at2] = Quiet(lines2, at2)

\* A document without a selection, wherever its cursor is.
LEMMA Requiet ==
  ASSUME NEW lines \in Rows, NEW at \in Places, NEW lines2 \in Rows, NEW at2 \in Places
  PROVE  /\ OtherQuiet(lines, at, lines2, at2)
         /\ Quiet(lines, at) \in Buffers /\ Unselected(Quiet(lines, at))
         /\ Quiet(lines, at).lines = lines /\ Quiet(lines, at).at = at
<1>1. Origin \in Places
  BY DEF Origin, Pos, Places
<1>2. Quiet(lines, at) \in Buffers /\ Quiet(lines2, at2) \in Buffers
  BY <1>1 DEF Buffers, Quiet
<1>3. /\ Quiet(lines, at).lines = lines /\ Quiet(lines, at).at = at
      /\ Quiet(lines, at).selecting = FALSE /\ Quiet(lines, at).anchor = Origin
      /\ Quiet(lines2, at2).lines = lines2 /\ Quiet(lines2, at2).at = at2
      /\ Quiet(lines2, at2).selecting = FALSE /\ Quiet(lines2, at2).anchor = Origin
  BY DEF Quiet
<1> DEFINE c == Quiet(lines, at)
           d == [c EXCEPT !.lines = lines2, !.at = at2]
<1> HIDE DEF c
<1>4. d \in Buffers /\ d.lines = lines2 /\ d.at = at2 /\ d.selecting = c.selecting
      /\ d.anchor = c.anchor
  <2>1. c \in Buffers
    BY <1>2 DEF c
  <2> QED BY <2>1 DEF Buffers
<1>5. d = Quiet(lines2, at2)
  <2> HIDE DEF d
  <2> QED BY <1>2, <1>3, <1>4, SameBuffers DEF c
<1>6. OtherQuiet(lines, at, lines2, at2)
  BY <1>5 DEF OtherQuiet, c
<1> QED BY <1>2, <1>3, <1>6 DEF Unselected

\* A row that becomes two.
Broken(lines, lines2, row, head, tail) ==
  /\ lines2 \in Rows /\ Len(lines2) = Len(lines) + 1
  /\ lines2[row + 1] = head /\ lines2[row + 2] = tail
  /\ BeginAlike(lines, lines2, row) /\ EndAlike(lines, row, lines2, row + 1)

\* One row becomes two.
LEMMA BreaksRow ==
  ASSUME NEW lines \in Rows, NEW row \in 0..(Len(lines) - 1),
         NEW head \in Seq(Byte), NEW tail \in Seq(Byte)
  PROVE  Broken(lines, Splice(lines, row, row + 1, <<head, tail>>), row, head, tail)
<1> DEFINE N      == Len(lines)
           new    == <<head, tail>>
           lines2 == Splice(lines, row, row + 1, new)
<1>1. N \in Nat \ {0} /\ lines \in Seq(Seq(Byte)) /\ row \in 0..(N - 1)
  BY RowsRight DEF Rows
<1>2. new \in Seq(Seq(Byte)) /\ Len(new) = 2 /\ new[1] = head /\ new[2] = tail
  OBVIOUS
<1> HIDE DEF new, N, lines2
<1>3. row \in 0..N /\ row + 1 \in row..N /\ row \in Nat
  BY <1>1
<1>4. RowsOfSplice(lines, row, row + 1, new, lines2)
  BY <1>1, <1>2, <1>3, SplicedRows DEF N, lines2
<1>5. /\ lines2 \in Seq(Seq(Byte)) /\ Len(lines2) = N - (row + 1 - row) + 2
      /\ \A i \in 1..row : lines2[i] = lines[i]
      /\ \A i \in 1..2 : lines2[row + i] = new[i]
      /\ \A i \in 1..(N - (row + 1)) : lines2[row + 2 + i] = lines[row + 1 + i]
  BY <1>2, <1>4 DEF RowsOfSplice, N
<1>6. N - (row + 1 - row) + 2 = N + 1 /\ N + 1 # 0 /\ 1 \in 1..2 /\ 2 \in 1..2
  BY <1>1
<1>7. lines2[row + 1] = head /\ lines2[row + 2] = tail /\ Len(lines2) = N + 1
  BY <1>2, <1>5, <1>6
<1>8. lines2 # <<>>
  BY <1>6, <1>7, EmptySeq
<1>9. BeginAlike(lines, lines2, row)
  <2>1. row <= Len(lines2) - 1
    BY <1>1, <1>7
  <2> QED BY <1>5, <2>1 DEF BeginAlike
<1>10. EndAlike(lines, row, lines2, row + 1)
  <2>1. N - row = Len(lines2) - (row + 1)
    BY <1>1, <1>7
  <2>2. ASSUME NEW i \in 1..(N - 1 - row) PROVE lines[row + i + 1] = lines2[row + 1 + i + 1]
    <3>1. /\ i \in 1..(N - (row + 1)) /\ row + i + 1 = row + 1 + i /\ row + 1 + i + 1 = row + 2 + i
      BY <1>1
    <3> QED BY <1>5, <3>1
  <2> QED BY <2>1, <2>2 DEF EndAlike, N
<1>11. lines2 \in Rows
  BY <1>5, <1>8 DEF Rows
<1>12. Broken(lines, lines2, row, head, tail)
  BY <1>7, <1>9, <1>10, <1>11 DEF Broken, N
<1> QED BY <1>12 DEF lines2, new

\* Two rows that become one.
Joined(lines, lines2, row, joined) ==
  /\ lines2 \in Rows /\ Len(lines2) = Len(lines) - 1 /\ lines2[row + 1] = joined
  /\ BeginAlike(lines, lines2, row) /\ EndAlike(lines, row + 1, lines2, row)

\* Two rows become one.
LEMMA JoinsRows ==
  ASSUME NEW lines \in Rows, NEW row \in 0..(Len(lines) - 2), NEW joined \in Seq(Byte)
  PROVE  Joined(lines, Splice(lines, row, row + 2, <<joined>>), row, joined)
<1> DEFINE N      == Len(lines)
           new    == <<joined>>
           lines2 == Splice(lines, row, row + 2, new)
<1>1. N \in Nat \ {0} /\ lines \in Seq(Seq(Byte)) /\ row \in 0..(N - 2)
  BY RowsRight DEF Rows
<1>2. new \in Seq(Seq(Byte)) /\ Len(new) = 1 /\ new[1] = joined
  OBVIOUS
<1> HIDE DEF new, N, lines2
<1>3. row \in 0..N /\ row + 2 \in row..N /\ row \in Nat
  BY <1>1
<1>4. RowsOfSplice(lines, row, row + 2, new, lines2)
  BY <1>1, <1>2, <1>3, SplicedRows DEF N, lines2
<1>5. /\ lines2 \in Seq(Seq(Byte)) /\ Len(lines2) = N - (row + 2 - row) + 1
      /\ \A i \in 1..row : lines2[i] = lines[i]
      /\ \A i \in 1..1 : lines2[row + i] = new[i]
      /\ \A i \in 1..(N - (row + 2)) : lines2[row + 1 + i] = lines[row + 2 + i]
  <2>1. /\ lines2 \in Seq(Seq(Byte)) /\ Len(lines2) = N - (row + 2 - row) + Len(new)
        /\ \A i \in 1..row : lines2[i] = lines[i]
        /\ \A i \in 1..Len(new) : lines2[row + i] = new[i]
        /\ \A i \in 1..(N - (row + 2)) : lines2[row + Len(new) + i] = lines[row + 2 + i]
    BY <1>4, SMTT(20) DEF RowsOfSplice, N
  <2> QED BY <1>2, <2>1
<1>6. N - (row + 2 - row) + 1 = N - 1 /\ N - 1 # 0 /\ 1 \in 1..1
  BY <1>1
<1>7. lines2[row + 1] = joined /\ Len(lines2) = N - 1
  BY <1>2, <1>5, <1>6
<1>8. lines2 # <<>>
  BY <1>6, <1>7, EmptySeq
<1>9. BeginAlike(lines, lines2, row)
  <2>1. row <= Len(lines2) - 1
    BY <1>1, <1>7
  <2> QED BY <1>5, <2>1 DEF BeginAlike
<1>10. EndAlike(lines, row + 1, lines2, row)
  <2>1. N - (row + 1) = Len(lines2) - row
    BY <1>1, <1>7
  <2>2. ASSUME NEW i \in 1..(N - 1 - (row + 1)) PROVE lines[row + 1 + i + 1] = lines2[row + i + 1]
    <3>1. /\ i \in 1..(N - (row + 2)) /\ row + 1 + i + 1 = row + 2 + i /\ row + i + 1 = row + 1 + i
      BY <1>1
    <3> QED BY <1>5, <3>1
  <2> QED BY <2>1, <2>2 DEF EndAlike, N
<1>11. lines2 \in Rows
  BY <1>5, <1>8 DEF Rows
<1>12. Joined(lines, lines2, row, joined)
  BY <1>7, <1>9, <1>10, <1>11 DEF Joined, N
<1> QED BY <1>12 DEF lines2, new

\* A line end is put in a line.
LEMMA NewlineEdited ==
  ASSUME NEW b, Good(b), NEW row, NEW col, row = b.at.row, col = b.at.col,
         NEW head, NEW tail, head = SubSeq(Line(b, row), 1, col),
         tail = SubSeq(Line(b, row), col + 1, Len(Line(b, row)))
  PROVE  /\ Splice(b.lines, row, row + 1, <<head, tail>>) \in Rows
         /\ Pos(row + 1, 0) \in Places
         /\ Edited(b, Quiet(Splice(b.lines, row, row + 1, <<head, tail>>), Pos(row + 1, 0)),
                   Offset(b, b.at), Offset(b, b.at), <<NewLine>>)
<1> DEFINE line == Line(b, row)
           N    == Len(b.lines)
           lines == Splice(b.lines, row, row + 1, <<head, tail>>)
           cut  == Splice(line, col, col, <<NewLine>>)
           at   == Pos(row + 1, 0)
           d    == Quiet(lines, at)
<1>1. /\ Sound(b) /\ b.lines \in Rows /\ b.at \in Places /\ IsPlace(b, b.at)
      /\ LastRow(b) = N - 1 /\ b \in Buffers
  BY GoodParts, SoundRows, RowsRight
<1>2. N \in Nat \ {0}
  BY <1>1, RowsRight
<1>3. /\ row \in 0..LastRow(b) /\ col \in Boundaries(line) /\ col \in 0..Len(line)
      /\ Len(line) \in Nat
      /\ Offset(b, b.at) = RowStart(b, row) + col
  BY <1>1, PlaceIsNormal
<1>4. /\ row \in Nat /\ row \in 0..(N - 1) /\ row + 1 \in 1..N /\ row + 1 \in 0..N
      /\ row + 1 + 1 = row + 2 /\ N + 1 - 1 = N /\ row \in 0..N /\ row \in 0..(N + 1)
  BY <1>1, <1>2, <1>3, SMTT(20)
<1>5. GoodLine(line) /\ line = b.lines[row + 1]
  BY <1>1, <1>3, SoundRows
<1>6. line \in Seq(Byte) /\ line \in Seq(Glyph) /\ TextOK(line) /\ col \in Nat
  BY <1>3, <1>5, PlacesOfLine
<1>7. /\ head \in Seq(Byte) /\ tail \in Seq(Byte) /\ Len(head) = col /\ TextOK(tail)
  <2> HIDE DEF line
  <2> QED BY <1>3, <1>6, CutLine, CutRight, CutText DEF line
<1>8. Broken(b.lines, lines, row, head, tail)
  BY <1>1, <1>4, <1>7, BreaksRow
<1>9. cut = (head \o <<NewLine>>) \o tail
  BY DEF Splice
<1>10. RowStart(b, row) + col \in Boundaries(ToText(b))
  BY <1>1, <1>3, RowPlace
<1> HIDE DEF line, N, lines, cut
<1>11. /\ lines \in Rows /\ Len(lines) = N + 1 /\ lines[row + 1] = head /\ lines[row + 2] = tail
       /\ BeginAlike(b.lines, lines, row) /\ EndAlike(b.lines, row, lines, row + 1)
  BY <1>8 DEF Broken, N
<1>12. at \in Places /\ at.row = row + 1 /\ at.col = 0
  BY <1>4 DEF Pos, Places
<1> HIDE DEF at
<1>13. d \in Buffers /\ Unselected(d) /\ d.lines = lines /\ d.at = at
  BY <1>11, <1>12, Requiet
<1> HIDE DEF d
<1>14. LastRow(d) = N /\ Line(d, row + 1) = tail /\ Line(d, row) = head
  <2>1. LastRow(d) = N
    <3>1. Len(d.lines) = N + 1
      BY <1>11, <1>13
    <3> QED BY <1>2, <3>1 DEF LastRow
  <2>2. Line(d, row) = head
    BY <1>11, <1>13 DEF Line
  <2>3. Line(d, row + 1) = tail
    <3>1. Line(d, row + 1) = lines[row + 1 + 1]
      BY <1>13 DEF Line
    <3> QED BY <1>4, <1>11, <3>1
  <2> QED BY <2>1, <2>2, <2>3
<1>15. ASSUME NEW h, Throughs(h, b.lines) PROVE h[row] = Ahead(h, row) \o line
  <2>1. row \in 0..(Len(b.lines) - 1)
    BY <1>4 DEF N
  <2>2. h[row] = Ahead(h, row) \o b.lines[row + 1]
    BY <1>1, <1>15, <2>1, AheadRight
  <2> QED BY <1>5, <2>2, Zenon
<1>16. ASSUME NEW k, Throughs(k, d.lines) PROVE k[row + 1] = Ahead(k, row) \o cut
  <2>1. row \in 0..(Len(lines) - 1) /\ row + 1 \in 0..(Len(lines) - 1)
    BY <1>2, <1>4, <1>11
  <2>2. Throughs(k, lines)
    BY <1>13, <1>16
  <2>3. k[row + 1] = Ahead(k, row) \o ((lines[row + 1] \o <<NewLine>>) \o lines[row + 2])
    BY <1>11, <2>1, <2>2, NextRow
  <2> QED BY <1>9, <1>11, <2>3, Zenon
<1>17. row \in 0..LastRow(d) /\ row + 1 \in 0..LastRow(d)
  BY <1>4, <1>14
<1>18. Rewrites(b, row, row, d, row + 1, line, col, col, <<NewLine>>)
  BY <1>3, <1>10, <1>11, <1>13, <1>15, <1>16, <1>17 DEF Rewrites, cut
<1>19. RowStart(d, row + 1) + 0 = RowStart(d, row) + col + Len(<<NewLine>>)
  <2>1. d.lines \in Rows /\ row \in 0..Len(d.lines)
    BY <1>4, <1>11, <1>13
  <2>2. RowStart(d, row + 1) = RowStart(d, row) + Len(Line(d, row)) + 1 /\ RowStart(d, row) \in Nat
    BY <1>17, <2>1, RowStartRight
  <2>3. Len(<<NewLine>>) = 1
    BY LineEndRight
  <2> QED BY <1>6, <1>7, <1>14, <2>2, <2>3
<1>20. d.at.row \in 0..LastRow(d) /\ d.at.col \in Boundaries(Line(d, d.at.row))
  <2>1. 0 \in Boundaries(tail)
    BY <1>7, BytesRight
  <2> QED BY <1>12, <1>13, <1>14, <1>17, <2>1
<1>21. Edited(b, d, RowStart(b, row) + col, RowStart(b, row) + col, <<NewLine>>)
  <2>1. RowStart(d, d.at.row) + d.at.col = RowStart(d, row) + col + Len(<<NewLine>>)
    BY <1>12, <1>13, <1>19
  <2>2. TextOK(<<NewLine>>)
    BY LineEndRight
  <2> QED BY <1>6, <1>13, <1>18, <1>20, <2>1, <2>2, RowsEdited
<1> QED BY <1>3, <1>11, <1>12, <1>21 DEF d, lines, at

\* A line takes in the next one.
LEMMA JoinEdited ==
  ASSUME NEW b, Good(b), NEW row \in 0..(LastRow(b) - 1),
         NEW joined, joined = Line(b, row) \o Line(b, row + 1)
  PROVE  /\ Splice(b.lines, row, row + 2, <<joined>>) \in Rows
         /\ EndOf(b, row) \in Places
         /\ Edited(b, Quiet(Splice(b.lines, row, row + 2, <<joined>>), EndOf(b, row)),
                   RowStart(b, row) + Len(Line(b, row)),
                   RowStart(b, row) + Len(Line(b, row)) + 1, <<>>)
<1> DEFINE N     == Len(b.lines)
           l1    == Line(b, row)
           l2    == Line(b, row + 1)
           lines == Splice(b.lines, row, row + 2, <<joined>>)
           part  == (l1 \o <<NewLine>>) \o l2
           at    == EndOf(b, row)
           d     == Quiet(lines, at)
<1>1. /\ Sound(b) /\ b.lines \in Rows /\ LastRow(b) = N - 1 /\ LastRow(b) \in Nat
  BY GoodParts, SoundRows
<1>2. N \in Nat \ {0}
  BY <1>1, RowsRight
<1>3. /\ row \in Nat /\ row \in 0..(N - 2) /\ row \in 0..(N - 1) /\ row + 1 \in 0..(N - 1)
      /\ row \in 0..LastRow(b) /\ row + 1 \in 0..LastRow(b) /\ row + 1 + 1 = row + 2
      /\ row \in 0..(N - 1 - 1) /\ row \in 0..N
  BY <1>1, <1>2
<1>4. GoodLine(l1) /\ l1 = b.lines[row + 1] /\ GoodLine(l2) /\ l2 = b.lines[row + 2]
  BY <1>1, <1>3, SoundRows
<1> HIDE DEF N, l1, l2
<1>5. /\ l1 \in Seq(Byte) /\ l1 \in Seq(Glyph) /\ TextOK(l1) /\ Len(l1) \in Nat
      /\ Len(l1) \in Boundaries(l1)
      /\ l2 \in Seq(Byte) /\ l2 \in Seq(Glyph) /\ TextOK(l2) /\ Len(l2) \in Nat
      /\ 0 \in Boundaries(l2)
  BY <1>4, PlacesOfLine
<1>6. joined = l1 \o l2 /\ joined \in Seq(Byte) /\ Len(l1) \in Boundaries(joined)
  <2>1. joined = l1 \o l2
    BY DEF l1, l2
  <2>2. l1 \o l2 \in Seq(Byte)
    BY <1>5, ConcatProperties
  <2>3. Len(l1) \in Boundaries(l1 \o l2)
    BY <1>5, SeamIsBoundary
  <2> QED BY <2>1, <2>2, <2>3
<1>7. Joined(b.lines, lines, row, joined)
  <2>1. row \in 0..(Len(b.lines) - 2)
    BY <1>3 DEF N
  <2> QED BY <1>1, <1>6, <2>1, JoinsRows
<1> HIDE DEF lines
<1>8. /\ lines \in Rows /\ Len(lines) = N - 1 /\ lines[row + 1] = joined
      /\ BeginAlike(b.lines, lines, row) /\ EndAlike(b.lines, row + 1, lines, row)
  BY <1>7 DEF Joined, N
<1>9. at \in Places /\ at.row = row /\ at.col = Len(l1)
  BY <1>3, <1>5 DEF EndOf, Pos, Places, l1
<1> HIDE DEF at
<1>10. d \in Buffers /\ Unselected(d) /\ d.lines = lines /\ d.at = at
  BY <1>8, <1>9, Requiet
<1> HIDE DEF d
<1>11. LastRow(d) = N - 1 - 1 /\ Line(d, row) = joined
  BY <1>8, <1>10 DEF LastRow, Line
<1>12. /\ RowStart(b, row) + Len(l1) \in Boundaries(ToText(b))
       /\ RowStart(b, row) + Len(l1) + 1 \in Boundaries(ToText(b))
       /\ RowStart(b, row) \in Nat
  <2>1. RowStart(b, row) + Len(l1) \in Boundaries(ToText(b))
    BY <1>1, <1>3, <1>5, RowPlace DEF l1
  <2>2. RowStart(b, row + 1) + 0 \in Boundaries(ToText(b))
    BY <1>1, <1>3, <1>5, RowPlace DEF l2
  <2>3. RowStart(b, row + 1) = RowStart(b, row) + Len(l1) + 1 /\ RowStart(b, row) \in Nat
    BY <1>1, <1>3, RowStartRight DEF l1, N
  <2> QED BY <1>5, <2>1, <2>2, <2>3
<1>13. part \in Seq(Glyph) /\ Len(part) = Len(l1) + 1 + Len(l2)
       /\ Splice(part, Len(l1), Len(l1) + 1, <<>>) = joined
  <2> DEFINE x == l1 \o <<NewLine>>
             y == <<NewLine>> \o l2
  <2>1. <<NewLine>> \in Seq(Glyph) /\ Len(<<NewLine>>) = 1
    BY LineEndRight
  <2>2. x \in Seq(Glyph) /\ Len(x) = Len(l1) + 1 /\ y \in Seq(Glyph)
    BY <1>5, <2>1, Glued
  <2>3. Regroups(l1, <<NewLine>>, l2)
    BY <1>5, <2>1, Regrouped
  <2>4. part = x \o l2 /\ part = l1 \o y
    BY <2>3 DEF Regroups
  <2> HIDE DEF x, y
  <2>5. part \in Seq(Glyph) /\ Len(part) = Len(l1) + 1 + Len(l2)
    <3>1. x \o l2 \in Seq(Glyph) /\ Len(x \o l2) = Len(x) + Len(l2)
      BY <1>5, <2>2, Glued
    <3> QED BY <2>2, <2>4, <3>1
  <2>6. SubSeq(part, 1, Len(l1)) = l1
    <3>1. SubSeq(l1 \o y, 1, Len(l1)) = l1
      BY <1>5, <2>2, UncutRight
    <3> QED BY <2>4, <3>1
  <2>7. SubSeq(part, Len(l1) + 1 + 1, Len(part)) = l2
    <3>1. SubSeq(x \o l2, Len(x) + 1, Len(x \o l2)) = l2
      BY <1>5, <2>2, UncutRight
    <3> QED BY <2>2, <2>4, <3>1
  <2>8. Splice(part, Len(l1), Len(l1) + 1, <<>>) = (l1 \o <<>>) \o l2
    <3> HIDE DEF part
    <3> QED BY <2>6, <2>7 DEF Splice
  <2>9. l1 \o <<>> = l1
    BY <1>5, EmptyEnds
  <2> QED BY <1>6, <2>5, <2>8, <2>9
<1>14. ASSUME NEW h, Throughs(h, b.lines) PROVE h[row + 1] = Ahead(h, row) \o part
  <2>1. row \in 0..(Len(b.lines) - 1) /\ row + 1 \in 0..(Len(b.lines) - 1)
    BY <1>3 DEF N
  <2>2. h[row + 1] = Ahead(h, row) \o ((b.lines[row + 1] \o <<NewLine>>) \o b.lines[row + 2])
    BY <1>1, <1>14, <2>1, NextRow
  <2> QED BY <1>4, <2>2, Zenon
<1> HIDE DEF part
<1>15. ASSUME NEW k, Throughs(k, d.lines)
       PROVE  k[row] = Ahead(k, row) \o Splice(part, Len(l1), Len(l1) + 1, <<>>)
  <2>1. Throughs(k, lines) /\ row \in 0..(Len(lines) - 1)
    BY <1>3, <1>8, <1>10, <1>15
  <2>2. k[row] = Ahead(k, row) \o lines[row + 1]
    BY <1>8, <2>1, AheadRight
  <2> QED BY <1>8, <1>13, <2>2, Zenon
<1>16. Len(l1) \in 0..Len(part) /\ Len(l1) + 1 \in 0..Len(part)
  BY <1>5, <1>13
<1>17. row \in 0..LastRow(d)
  BY <1>3, <1>11
<1>18. RowStart(b, row) + (Len(l1) + 1) = RowStart(b, row) + Len(l1) + 1
  BY <1>5, <1>12
<1>19. Rewrites(b, row, row + 1, d, row, part, Len(l1), Len(l1) + 1, <<>>)
  BY <1>3, <1>8, <1>10, <1>12, <1>14, <1>15, <1>16, <1>17, <1>18 DEF Rewrites
<1>20. RowStart(d, d.at.row) + d.at.col = RowStart(d, row) + Len(l1) + Len(<<>>)
  <2>1. d.lines \in Rows /\ row \in 0..Len(d.lines)
    BY <1>3, <1>8, <1>10
  <2>2. RowStart(d, row) \in Nat /\ Len(<<>>) = 0
    BY <2>1, RowStartRight, NoBytes
  <2> QED BY <1>5, <1>9, <1>10, <2>2
<1>21. d.at.row \in 0..LastRow(d) /\ d.at.col \in Boundaries(Line(d, d.at.row)) /\ TextOK(<<>>)
  BY <1>6, <1>9, <1>10, <1>11, <1>17, NoBytes
<1>22. Edited(b, d, RowStart(b, row) + Len(l1), RowStart(b, row) + (Len(l1) + 1), <<>>)
  BY <1>10, <1>13, <1>19, <1>20, <1>21, RowsEdited
<1>23. Edited(b, d, RowStart(b, row) + Len(l1), RowStart(b, row) + Len(l1) + 1, <<>>)
  BY <1>18, <1>22
<1> QED BY <1>8, <1>9, <1>23 DEF d, lines, at, l1

-----------------------------------------------------------------------------
(***************************************************************************)
(* The bytes of a line in the text, and what the deletions take away.      *)
(***************************************************************************)
\* A text made of two.
GlueOf(s, t, u) ==
  /\ Len(u) = Len(s) + Len(t)
  /\ \A p \in 0..(Len(s) - 1) : u[p + 1] = s[p + 1]
  /\ \A p \in 0..(Len(t) - 1) : u[Len(s) + p + 1] = t[p + 1]

\* The parts of a text are found in it again.
LEMMA Gluing ==
  ASSUME NEW s \in Seq(Glyph), NEW t \in Seq(Glyph)
  PROVE  GlueOf(s, t, s \o t) /\ s \o t \in Seq(Glyph) /\ Len(s) \in Nat /\ Len(t) \in Nat
BY Parts DEF GlueOf

\* The bytes of a row are in the text where the row starts.
LEMMA TextAt ==
  ASSUME NEW b, Sound(b), NEW row \in 0..LastRow(b)
  PROVE  /\ RowStart(b, row) \in Nat /\ Len(Line(b, row)) \in Nat
         /\ RowStart(b, row) + Len(Line(b, row)) \in 0..Len(ToText(b))
         /\ \A p \in 0..(Len(Line(b, row)) - 1) :
              ToText(b)[RowStart(b, row) + p + 1] = Line(b, row)[p + 1]
         /\ RowStart(b, row) + Len(Line(b, row)) < Len(ToText(b)) =>
              ToText(b)[RowStart(b, row) + Len(Line(b, row)) + 1] = NewLine
         /\ row < LastRow(b) => RowStart(b, row) + Len(Line(b, row)) < Len(ToText(b))
<1> DEFINE L == LastRow(b)
           line == Line(b, row)
           T == ToText(b)
<1>1. /\ b.lines \in Rows /\ L \in Nat /\ L = Len(b.lines) - 1
      /\ row \in 0..(Len(b.lines) - 1) /\ line = b.lines[row + 1]
  BY SoundRows
<1>2. PICK h : Throughs(h, b.lines)
  BY <1>1, ThroughsExist
<1> DEFINE g == Ahead(h, row)
<1>3. g \in Seq(Glyph) /\ line \in Seq(Glyph) /\ h[row] = g \o line
  <2>1. h[row] = g \o b.lines[row + 1] /\ g \in Seq(Glyph) /\ b.lines[row + 1] \in Seq(Glyph)
    BY <1>1, <1>2, AheadRight
  <2> QED BY <1>1, <2>1
<1>4. Len(g) = RowStart(b, row)
  BY <1>1, <1>2, AheadLen
<1>5. T = h[Len(b.lines) - 1]
  BY <1>1, <1>2, ToTextRight
<1> HIDE DEF T, line, g
<1>6. PICK s \in Seq(Glyph) : T = h[row] \o s /\ (s = <<>> \/ s[1] = NewLine)
  <2>1. PICK s \in Seq(Glyph) : h[Len(b.lines) - 1] = h[row] \o s /\ (s = <<>> \/ s[1] = NewLine)
    <3>1. EndAlike(b.lines, row, b.lines, row)
      BY DEF EndAlike
    <3>2. CommonTail(h, b.lines, row, h, b.lines, row)
      BY <1>1, <1>2, <3>1, SameTail
    <3> QED BY <3>2 DEF CommonTail
  <2> QED BY <1>5, <2>1
<1> DEFINE x == g \o line
<1>7. /\ x \in Seq(Glyph) /\ Len(x) = Len(g) + Len(line) /\ Len(g) \in Nat /\ Len(line) \in Nat
      /\ \A p \in 0..(Len(line) - 1) : x[Len(g) + p + 1] = line[p + 1]
  <2>1. GlueOf(g, line, x) /\ x \in Seq(Glyph) /\ Len(g) \in Nat /\ Len(line) \in Nat
    BY <1>3, Gluing
  <2> HIDE DEF x
  <2> QED BY <2>1 DEF GlueOf
<1>8. T = x \o s
  BY <1>3, <1>6
<1> HIDE DEF x
<1>9. /\ Len(T) = Len(x) + Len(s) /\ Len(s) \in Nat
      /\ \A p \in 0..(Len(x) - 1) : T[p + 1] = x[p + 1]
      /\ \A p \in 0..(Len(s) - 1) : T[Len(x) + p + 1] = s[p + 1]
  <2>1. GlueOf(x, s, T) /\ Len(s) \in Nat
    BY <1>6, <1>7, <1>8, Gluing
  <2> QED BY <2>1 DEF GlueOf
<1>10. ASSUME NEW p \in 0..(Len(line) - 1) PROVE T[Len(g) + p + 1] = line[p + 1]
  <2>1. PICK y \in 0..(Len(x) - 1) : y = Len(g) + p
    <3>1. Len(g) + p \in 0..(Len(x) - 1)
      BY <1>7
    <3> QED BY <3>1
  <2>2. T[y + 1] = x[y + 1]
    BY <1>9
  <2>3. x[Len(g) + p + 1] = line[p + 1]
    BY <1>7
  <2> QED BY <2>1, <2>2, <2>3
<1>11. Len(x) < Len(T) => T[Len(x) + 1] = NewLine
  <2> SUFFICES ASSUME Len(x) < Len(T) PROVE T[Len(x) + 1] = NewLine
    OBVIOUS
  <2>1. 0 \in 0..(Len(s) - 1) /\ Len(s) # 0 /\ Len(x) + 0 + 1 = Len(x) + 1 /\ 0 + 1 = 1
    BY <1>7, <1>9
  <2>2. s # <<>>
    BY <2>1, EmptySeq
  <2>3. T[Len(x) + 0 + 1] = s[0 + 1]
    BY <1>9, <2>1
  <2> QED BY <1>6, <2>1, <2>2, <2>3
<1>12. ASSUME row < L PROVE Len(x) < Len(T)
  <2>1. row \in 0..L /\ L \in 0..L /\ row \in Nat
    BY <1>1
  <2>2. RowStart(b, row) + Len(line) < RowStart(b, L)
    BY <1>12, <2>1, RowsInOrder DEF line
  <2>3. RowStart(b, L) + Len(Line(b, L)) = Len(h[L])
    BY <1>1, <1>2, <2>1, AheadLen
  <2>4. Len(h[L]) = Len(T)
    BY <1>1, <1>5
  <2>5. Len(Line(b, L)) \in Nat /\ RowStart(b, L) \in Nat
    <3>1. L \in 0..Len(b.lines)
      BY <1>1
    <3>2. GoodLine(Line(b, L))
      BY <2>1, SoundRows
    <3> QED BY <1>1, <3>1, <3>2, RowStartRight, PlacesOfLine
  <2> HIDE DEF L
  <2> QED BY <1>4, <1>7, <2>2, <2>3, <2>4, <2>5
<1>13. Len(x) \in 0..Len(T)
  BY <1>7, <1>9
<1> QED BY <1>4, <1>7, <1>10, <1>11, <1>12, <1>13 DEF T, line

\* From one place in a text to the next.
OneChar(t, from, to) ==
  /\ from \in Nat /\ to \in (from + 1)..Len(t) /\ t[from + 1] # Cont
  /\ \A q \in (from + 1)..(to - 1) : t[q + 1] = Cont

\* What is left of a line.
RestOfLine(t, from, to) ==
  /\ from \in Nat /\ to \in (from + 1)..Len(t)
  /\ \A q \in from..(to - 1) : t[q + 1] # NewLine
  /\ to < Len(t) => t[to + 1] = NewLine

\* A character of a line is one of the text.
LEMMA CharOfLine ==
  ASSUME NEW b, Sound(b), NEW row \in 0..LastRow(b), NEW from, NEW to,
         OneChar(Line(b, row), from, to)
  PROVE  OneChar(ToText(b), RowStart(b, row) + from, RowStart(b, row) + to)
<1> DEFINE line == Line(b, row)
           T == ToText(b)
           r == RowStart(b, row)
<1>1. /\ r \in Nat /\ Len(line) \in Nat /\ r + Len(line) \in 0..Len(T)
      /\ \A p \in 0..(Len(line) - 1) : T[r + p + 1] = line[p + 1]
  BY TextAt
<1>2. /\ from \in Nat /\ to \in (from + 1)..Len(line) /\ line[from + 1] # Cont
      /\ \A q \in (from + 1)..(to - 1) : line[q + 1] = Cont
  BY DEF OneChar
<1>3. Len(T) \in Nat
  BY SoundRows
<1> HIDE DEF line, T, r
<1> DEFINE f == r + from
           e == r + to
<1>4. f \in Nat /\ e \in (f + 1)..Len(T) /\ from \in 0..(Len(line) - 1)
  BY <1>1, <1>2, <1>3
<1>5. T[f + 1] # Cont
  BY <1>1, <1>2, <1>4
<1>6. ASSUME NEW q \in (f + 1)..(e - 1) PROVE T[q + 1] = Cont
  <2>1. PICK p \in (from + 1)..(to - 1) : q = r + p
    <3>1. q - r \in (from + 1)..(to - 1) /\ q = r + (q - r)
      BY <1>1, <1>2
    <3> QED BY <3>1
  <2>2. p \in 0..(Len(line) - 1)
    BY <1>1, <1>2
  <2>3. T[r + p + 1] = Cont
    BY <1>1, <1>2, <2>2
  <2> QED BY <2>1, <2>3
<1> HIDE DEF f, e
<1>7. OneChar(T, f, e)
  BY <1>4, <1>5, <1>6 DEF OneChar
<1> QED BY <1>7 DEF T, r, f, e

\* The character before a place, and the one behind it.
LEMMA CharBefore ==
  ASSUME NEW t, GoodLine(t), NEW p \in Boundaries(t), p > 0
  PROVE  OneChar(t, PrevChar(t, p), p) /\ PrevChar(t, p) \in Boundaries(t)
<1> DEFINE q == PrevChar(t, p)
<1>1. q \in Boundaries(t) /\ q < p /\ \A x \in Boundaries(t) : x < p => x <= q
  BY PrevCharRight
<1>2. /\ Len(t) \in Nat /\ Boundaries(t) \subseteq 0..Len(t)
      /\ \A x : x \in Boundaries(t) <=> AtBoundary(t, x)
  BY PlacesOfLine
<1> HIDE DEF q
<1>3. q \in Nat /\ p \in (q + 1)..Len(t) /\ q # Len(t)
  BY <1>1, <1>2
<1>4. t[q + 1] # Cont
  BY <1>1, <1>2, <1>3 DEF AtBoundary
<1>5. ASSUME NEW x \in (q + 1)..(p - 1) PROVE t[x + 1] = Cont
  <2>1. x < p /\ ~(x <= q) /\ x \in 0..Len(t)
    BY <1>3
  <2>2. x \notin Boundaries(t)
    BY <1>1, <2>1
  <2>3. ~AtBoundary(t, x)
    BY <1>2, <2>2
  <2> QED BY <2>1, <2>3 DEF AtBoundary
<1>6. OneChar(t, q, p)
  BY <1>3, <1>4, <1>5 DEF OneChar
<1> QED BY <1>1, <1>6 DEF q

\* A line does not end in the middle of the character at a boundary.
LEMMA CharBehind ==
  ASSUME NEW t, GoodLine(t), NEW p \in Boundaries(t), p < Len(t)
  PROVE  OneChar(t, p, NextChar(t, p)) /\ NextChar(t, p) \in Boundaries(t)
<1> DEFINE q == NextChar(t, p)
<1>1. q \in Boundaries(t) /\ q > p /\ \A x \in (p + 1)..(q - 1) : t[x + 1] = Cont
  BY NextCharRight
<1>2. /\ Len(t) \in Nat /\ Boundaries(t) \subseteq 0..Len(t)
      /\ \A x : x \in Boundaries(t) <=> AtBoundary(t, x)
  BY PlacesOfLine
<1> HIDE DEF q
<1>3. p \in Nat /\ q \in (p + 1)..Len(t) /\ p # Len(t)
  BY <1>1, <1>2
<1>4. t[p + 1] # Cont
  BY <1>2, <1>3 DEF AtBoundary
<1>5. OneChar(t, p, q)
  BY <1>1, <1>3, <1>4 DEF OneChar
<1> QED BY <1>1, <1>5 DEF q

\* No byte of a line is a line end.
LEMMA NoLineEnd ==
  ASSUME NEW t \in Seq(Byte), NEW i \in 1..Len(t)
  PROVE  t[i] # NewLine /\ t[i] \in Byte
<1>1. t[i] \in Byte
  BY ElementOfSeq
<1>2. NewLine \notin Byte
  BY FoldAssumption DEF Byte, NewLine, Cont
<1> QED BY <1>1, <1>2

\* What follows a place in a line, up to the end of it.
LEMMA RestIsRest ==
  ASSUME NEW b, Sound(b), NEW row \in 0..LastRow(b), NEW p \in Boundaries(Line(b, row)),
         p # Len(Line(b, row))
  PROVE  RestOfLine(ToText(b), RowStart(b, row) + p, RowStart(b, row) + Len(Line(b, row)))
<1> DEFINE line == Line(b, row)
           T == ToText(b)
           r == RowStart(b, row)
<1>1. /\ r \in Nat /\ Len(line) \in Nat /\ r + Len(line) \in 0..Len(T)
      /\ \A q \in 0..(Len(line) - 1) : T[r + q + 1] = line[q + 1]
      /\ r + Len(line) < Len(T) => T[r + Len(line) + 1] = NewLine
  BY TextAt
<1>2. GoodLine(line) /\ Len(T) \in Nat
  BY SoundRows
<1>3. line \in Seq(Byte) /\ p \in 0..Len(line) /\ p # Len(line)
  BY <1>2, PlacesOfLine
<1> HIDE DEF line, T, r
<1>4. r + p \in Nat /\ r + Len(line) \in (r + p + 1)..Len(T)
  BY <1>1, <1>2, <1>3
<1>5. ASSUME NEW q \in (r + p)..(r + Len(line) - 1) PROVE T[q + 1] # NewLine
  <2>1. PICK x \in 0..(Len(line) - 1) : q = r + x
    <3>1. q - r \in 0..(Len(line) - 1) /\ q = r + (q - r)
      BY <1>1, <1>3
    <3> QED BY <3>1
  <2>2. T[r + x + 1] = line[x + 1]
    BY <1>1
  <2>3. x + 1 \in 1..Len(line)
    BY <1>1
  <2>4. line[x + 1] # NewLine
    BY <1>3, <2>3, NoLineEnd
  <2> QED BY <2>1, <2>2, <2>4
<1>6. RestOfLine(T, r + p, r + Len(line))
  BY <1>1, <1>4, <1>5 DEF RestOfLine
<1> QED BY <1>6 DEF T, r, line

-----------------------------------------------------------------------------
(***************************************************************************)
(* What each key does to a good buffer.                                    *)
(***************************************************************************)
\* The buffer is left as it was, or its selection is replaced by a text.
Inserted(b, d, text) ==
  \/ d = b
  \/ ~HasSelection(b) /\ d = Quiet(b.lines, b.at)
  \/ Edited(b, d, Offset(b, Selected(b).from), Offset(b, Selected(b).to), text)

\* One character was erased, before the cursor or behind it,
ErasedBefore(b, d) ==
  /\ ~HasSelection(b)
  /\ \E from : /\ Edited(b, d, from, Offset(b, b.at), <<>>)
               /\ OneChar(ToText(b), from, Offset(b, b.at))

ErasedAfter(b, d) ==
  /\ ~HasSelection(b)
  /\ \E to : /\ Edited(b, d, Offset(b, b.at), to, <<>>)
             /\ OneChar(ToText(b), Offset(b, b.at), to)

\* or what is left of the line.
ErasedRest(b, d) ==
  /\ ~HasSelection(b)
  /\ \E to : /\ Edited(b, d, Offset(b, b.at), to, <<>>)
             /\ RestOfLine(ToText(b), Offset(b, b.at), to)

\* Inserting a text replaces the selection by it, or is only a deselection.
LEMMA InsertTextDoes ==
  ASSUME NEW b, Good(b), NEW text, TextOK(text), NEW memory
  PROVE  Inserted(b, InsertText(b, text, memory).buffer, text)
<1>1. CASE (text = <<>> /\ ~HasSelection(b)) \/ ~memory
  BY <1>1 DEF InsertText, NotDone, Inserted
<1>2. CASE ~((text = <<>> /\ ~HasSelection(b)) \/ ~memory)
  <2>1. InsertText(b, text, memory).buffer = Replace(b, Selected(b), text)
    BY <1>2 DEF InsertText, Done
  <2>2. /\ Selected(b).from \in Places /\ Selected(b).to \in Places
        /\ IsPlace(b, Selected(b).from) /\ IsPlace(b, Selected(b).to)
    BY SelectedRight
  <2>3. Edited(b, Replace(b, Selected(b), text),
               Offset(b, Selected(b).from), Offset(b, Selected(b).to), text)
    BY <2>2, ReplaceRight
  <2> QED BY <2>1, <2>3 DEF Inserted
<1> QED BY <1>1, <1>2

\* Deleting the selection replaces it by nothing,
LEMMA DeleteSelectionDoes ==
  ASSUME NEW b, Good(b), NEW memory
  PROVE  Inserted(b, DeleteSelection(b, memory).buffer, <<>>)
<1>1. Inserted(b, InsertText(b, <<>>, memory).buffer, <<>>)
  BY InsertTextDoes, NoBytes
<1>2. Inserted(b, NotDone(b).buffer, <<>>)
  BY DEF NotDone, Inserted
<1> QED BY <1>1, <1>2 DEF DeleteSelection

\* The place of the cursor, and the buffer without its marks.
LEMMA HereRight ==
  ASSUME NEW b, Good(b)
  PROVE  /\ b.at.row \in 0..LastRow(b) /\ b.at.row \in Nat /\ b.at.col \in Nat
         /\ GoodLine(Line(b, b.at.row))
         /\ b.at.col \in Boundaries(Line(b, b.at.row)) /\ b.at.col <= Len(Line(b, b.at.row))
         /\ Len(Line(b, b.at.row)) \in Nat
         /\ Offset(b, b.at) = RowStart(b, b.at.row) + b.at.col
         /\ b.at = Pos(b.at.row, b.at.col)
         /\ b.lines \in Rows /\ b.at \in Places /\ b.at.row \in 0..(Len(b.lines) - 1)
<1>1. Sound(b) /\ b.at \in Places /\ IsPlace(b, b.at) /\ b.lines \in Rows
  BY GoodParts
<1>2. /\ b.at.row \in 0..LastRow(b) /\ b.at.col \in Boundaries(Line(b, b.at.row))
      /\ b.at.col \in 0..Len(Line(b, b.at.row)) /\ Len(Line(b, b.at.row)) \in Nat
      /\ Offset(b, b.at) = RowStart(b, b.at.row) + b.at.col
  BY <1>1, PlaceIsNormal
<1>3. LastRow(b) = Len(b.lines) - 1 /\ LastRow(b) \in Nat /\ GoodLine(Line(b, b.at.row))
  BY <1>1, <1>2, SoundRows
<1>4. b.at.row \in Nat /\ b.at.col \in Nat /\ b.at = Pos(b.at.row, b.at.col)
  BY <1>1 DEF Places, Pos
<1> QED BY <1>1, <1>2, <1>3, <1>4

\* A cut in a line of a buffer without a selection.
LEMMA CutDoes ==
  ASSUME NEW b, Good(b), NEW c \in Buffers, c.lines = b.lines, c.at = b.at, Unselected(c),
         NEW row \in 0..LastRow(b), NEW from \in Boundaries(Line(b, row)),
         NEW to \in Boundaries(Line(b, row)),
         c.selecting => Pos(row, from) = c.at
  PROVE  Edited(b, CutInLine(c, row, from, to),
                RowStart(b, row) + from, RowStart(b, row) + to, <<>>)
<1> DEFINE d   == CutInLine(c, row, from, to)
           cut == Splice(Line(b, row), from, to, <<>>)
           lines == [b.lines EXCEPT ![row + 1] = cut]
<1>1. /\ Sound(b) /\ b.lines \in Rows /\ GoodLine(Line(b, row)) /\ Line(b, row) = b.lines[row + 1]
      /\ row \in 0..(Len(b.lines) - 1)
  BY GoodParts, SoundRows
<1>2. /\ Line(b, row) \in Seq(Byte) /\ from \in 0..Len(Line(b, row)) /\ to \in 0..Len(Line(b, row))
      /\ from \in Nat /\ row \in Nat
  BY <1>1, PlacesOfLine
<1>3. cut \in Seq(Byte)
  BY <1>2, NoBytes, SpliceLine
<1>4. RowReplaced(b.lines, lines, row, cut)
  <2> HIDE DEF cut
  <2> QED BY <1>1, <1>3, ReplacesRow
<1>5. lines \in Rows
  BY <1>4 DEF RowReplaced
<1>6. Pos(row, from) \in Places
  BY <1>2 DEF Pos, Places
<1>7. [c.lines EXCEPT ![row + 1] = Splice(@, from, to, <<>>)] = lines
  BY <1>1
<1> HIDE DEF lines, cut
<1>8. /\ d \in Buffers /\ d.lines = lines /\ d.at = Pos(row, from)
      /\ d.selecting = c.selecting /\ d.anchor = c.anchor
  BY <1>5, <1>6, <1>7 DEF CutInLine, Buffers
<1> HIDE DEF d
<1>9. Unselected(d)
  BY <1>8 DEF Unselected
<1>10. RowReplaced(b.lines, d.lines, row, Splice(Line(b, row), from, to, <<>>))
  BY <1>4, <1>8 DEF cut
<1>11. d.at = Pos(row, from + Len(<<>>)) /\ GoodLine(<<>>)
  BY <1>2, <1>8, NoBytes DEF GoodLine
<1>12. Edited(b, d, RowStart(b, row) + from, RowStart(b, row) + to, <<>>)
  BY <1>8, <1>9, <1>10, <1>11, InLine
<1> QED BY <1>12 DEF d

\* and a character that is typed replaces it by its bytes.
LEMMA InsertCharDoes ==
  ASSUME NEW b, Good(b), NEW c \in Chars, NEW memory
  PROVE  Inserted(b, InsertChar(b, c, memory).buffer, Encode(c))
<1> DEFINE d   == WithoutSelection(b)
           row == b.at.row
           col == b.at.col
           cut == Splice(Line(b, row), col, col, Encode(c))
           lines == [b.lines EXCEPT ![row + 1] = cut]
           e   == [d EXCEPT !.lines[d.at.row + 1] = Splice(@, d.at.col, d.at.col, Encode(c)),
                            !.at.col = @ + Bytes[c]]
<1>1. CASE HasSelection(b)
  <2>1. InsertChar(b, c, memory) = InsertText(b, Encode(c), memory)
    BY <1>1 DEF InsertChar
  <2>2. TextOK(Encode(c))
    BY EncodeRight
  <2> QED BY <2>1, <2>2, InsertTextDoes
<1>2. CASE ~HasSelection(b)
  <2>1. d = Quiet(b.lines, b.at)
    BY <1>2, WithoutSelectionIs
  <2>2. CASE ~memory
    <3>1. InsertChar(b, c, memory).buffer = d
      BY <1>2, <2>2 DEF InsertChar, NotDone
    <3> QED BY <1>2, <2>1, <3>1 DEF Inserted
  <2>3. CASE memory
    <3>1. InsertChar(b, c, memory).buffer = e
      BY <1>2, <2>3 DEF InsertChar, Done
    <3>2. /\ row \in 0..LastRow(b) /\ row \in Nat /\ col \in Nat /\ GoodLine(Line(b, row))
          /\ col \in Boundaries(Line(b, row)) /\ Offset(b, b.at) = RowStart(b, row) + col
          /\ b.lines \in Rows /\ b.at \in Places /\ row \in 0..(Len(b.lines) - 1)
          /\ Line(b, row) = b.lines[row + 1]
      BY HereRight DEF Line
    <3>3. /\ Encode(c) \in Seq(Byte) /\ GoodLine(Encode(c)) /\ Len(Encode(c)) = Bytes[c]
          /\ Bytes[c] \in Nat
      BY EncodeRight DEF GoodLine
    <3>4. Line(b, row) \in Seq(Byte) /\ col \in 0..Len(Line(b, row))
      BY <3>2, PlacesOfLine
    <3>5. cut \in Seq(Byte)
      BY <3>3, <3>4, SpliceLine
    <3>6. RowReplaced(b.lines, lines, row, cut)
      <4> HIDE DEF cut, row
      <4> QED BY <3>2, <3>5, ReplacesRow
    <3>7. lines \in Rows
      BY <3>6 DEF RowReplaced
    <3>8. /\ d \in Buffers /\ d.lines = b.lines /\ d.at = b.at /\ Unselected(d)
      <4>1. Quiet(b.lines, b.at) \in Buffers /\ Unselected(Quiet(b.lines, b.at))
        BY <3>2, Requiet
      <4>2. Quiet(b.lines, b.at).lines = b.lines /\ Quiet(b.lines, b.at).at = b.at
        BY DEF Quiet
      <4> QED BY <2>1, <4>1, <4>2
    <3>9. ~d.selecting /\ d.anchor = Origin
      BY <2>1 DEF Quiet
    <3>10. [d.lines EXCEPT ![d.at.row + 1] = Splice(@, d.at.col, d.at.col, Encode(c))] = lines
      BY <3>2, <3>8
    <3>11. [d.at EXCEPT !.col = @ + Bytes[c]] = Pos(row, col + Bytes[c])
           /\ Pos(row, col + Bytes[c]) \in Places
      BY <3>2, <3>3, <3>8 DEF Places, Pos
    <3> HIDE DEF lines, cut, row, col, d
    <3>12. /\ e \in Buffers /\ e.lines = lines /\ e.at = Pos(row, col + Bytes[c])
           /\ e.selecting = d.selecting /\ e.anchor = d.anchor
      BY <3>7, <3>8, <3>10, <3>11 DEF Buffers
    <3> HIDE DEF e
    <3>13. Unselected(e)
      BY <3>9, <3>12 DEF Unselected
    <3>14. RowReplaced(b.lines, e.lines, row, Splice(Line(b, row), col, col, Encode(c)))
      BY <3>6, <3>12 DEF cut
    <3>15. e.at = Pos(row, col + Len(Encode(c)))
      BY <3>3, <3>12
    <3>16. Edited(b, e, RowStart(b, row) + col, RowStart(b, row) + col, Encode(c))
      BY <3>2, <3>3, <3>12, <3>13, <3>14, <3>15, InLine
    <3>17. Selected(b).from = b.at /\ Selected(b).to = b.at
      BY <1>2 DEF Selected
    <3> QED BY <3>1, <3>2, <3>16, <3>17 DEF Inserted
  <2> QED BY <2>2, <2>3
<1> QED BY <1>1, <1>2

\* The enter key replaces the selection by the end of a line.
LEMMA InsertNewlineDoes ==
  ASSUME NEW b, Good(b), NEW memory
  PROVE  Inserted(b, InsertNewline(b, memory).buffer, <<NewLine>>)
<1> DEFINE d    == WithoutSelection(b)
           row  == b.at.row
           col  == b.at.col
           head == SubSeq(Line(b, row), 1, col)
           tail == SubSeq(Line(b, row), col + 1, Len(Line(b, row)))
           lines == Splice(b.lines, row, row + 1, <<head, tail>>)
           e    == [d EXCEPT !.lines = lines, !.at = Pos(row + 1, 0)]
<1>1. CASE HasSelection(b)
  <2>1. InsertNewline(b, memory) = InsertText(b, <<NewLine>>, memory)
    BY <1>1 DEF InsertNewline
  <2> QED BY <2>1, InsertTextDoes, LineEndRight
<1>2. CASE ~HasSelection(b)
  <2>1. d = Quiet(b.lines, b.at)
    BY <1>2, WithoutSelectionIs
  <2>2. d.lines = b.lines /\ d.at = b.at
    BY <2>1 DEF Quiet
  <2>3. CASE ~memory
    <3>1. InsertNewline(b, memory).buffer = d
      BY <1>2, <2>3 DEF InsertNewline, NotDone
    <3> QED BY <1>2, <2>1, <3>1 DEF Inserted
  <2>4. CASE memory
    <3>1. InsertNewline(b, memory).buffer = e
      BY <1>2, <2>2, <2>4 DEF InsertNewline, Done, Line
    <3>2. lines \in Rows /\ Pos(row + 1, 0) \in Places
      <4> HIDE DEF head, tail, row, col
      <4> QED BY NewlineEdited DEF head, tail, row, col
    <3>3. Edited(b, Quiet(lines, Pos(row + 1, 0)), Offset(b, b.at), Offset(b, b.at), <<NewLine>>)
      <4> HIDE DEF head, tail, row, col
      <4> QED BY NewlineEdited DEF head, tail, row, col
    <3>4. b.lines \in Rows /\ b.at \in Places
      BY HereRight
    <3> HIDE DEF lines, row, d
    <3>5. OtherQuiet(b.lines, b.at, lines, Pos(row + 1, 0))
      BY <3>2, <3>4, Requiet
    <3>6. e = Quiet(lines, Pos(row + 1, 0))
      BY <2>1, <3>5 DEF OtherQuiet
    <3>7. Selected(b).from = b.at /\ Selected(b).to = b.at
      BY <1>2 DEF Selected
    <3> QED BY <3>1, <3>3, <3>6, <3>7 DEF Inserted
  <2> QED BY <2>3, <2>4
<1> QED BY <1>1, <1>2

\* The end of a line that has another behind it is a character of the text.
LEMMA LineEndChar ==
  ASSUME NEW b, Sound(b), NEW row \in 0..(LastRow(b) - 1)
  PROVE  /\ OneChar(ToText(b), RowStart(b, row) + Len(Line(b, row)),
                    RowStart(b, row) + Len(Line(b, row)) + 1)
         /\ RowStart(b, row + 1) = RowStart(b, row) + Len(Line(b, row)) + 1
<1> DEFINE T == ToText(b)
           e == RowStart(b, row) + Len(Line(b, row))
<1>1. LastRow(b) \in Nat /\ Len(T) \in Nat /\ b.lines \in Rows
  BY SoundRows
<1>2. row \in 0..LastRow(b) /\ row < LastRow(b)
  BY <1>1
<1>3. e \in Nat /\ e < Len(T) /\ T[e + 1] = NewLine
  BY <1>2, TextAt
<1>4. RowStart(b, row + 1) = e + 1
  BY <1>1, <1>2, RowStartRight
<1> HIDE DEF T, e
<1>5. OneChar(T, e, e + 1)
  <2>1. e + 1 \in (e + 1)..Len(T) /\ \A q \in (e + 1)..(e + 1 - 1) : FALSE
    BY <1>1, <1>3
  <2>2. NewLine # Cont
    BY LineEndRight
  <2> QED BY <1>3, <2>1, <2>2 DEF OneChar
<1> QED BY <1>4, <1>5 DEF T, e

\* A line takes in the next one, or memory runs out.
LEMMA JoinDoes ==
  ASSUME NEW b, Good(b), NEW row \in 0..(LastRow(b) - 1), NEW memory
  PROVE  \/ JoinLines(Quiet(b.lines, b.at), row, EndOf(b, row), memory).buffer
                = Quiet(b.lines, b.at)
         \/ Edited(b, JoinLines(Quiet(b.lines, b.at), row, EndOf(b, row), memory).buffer,
                   RowStart(b, row) + Len(Line(b, row)),
                   RowStart(b, row) + Len(Line(b, row)) + 1, <<>>)
<1> DEFINE d      == Quiet(b.lines, b.at)
           joined == Line(b, row) \o Line(b, row + 1)
           lines  == Splice(b.lines, row, row + 2, <<joined>>)
           at     == EndOf(b, row)
<1>1. /\ lines \in Rows /\ at \in Places
      /\ Edited(b, Quiet(lines, at), RowStart(b, row) + Len(Line(b, row)),
                RowStart(b, row) + Len(Line(b, row)) + 1, <<>>)
  <2> HIDE DEF joined
  <2> QED BY JoinEdited DEF joined
<1>2. b.lines \in Rows /\ b.at \in Places
  BY HereRight
<1>3. d.lines = b.lines
  BY DEF Quiet
<1>4. Line(d, row) = Line(b, row) /\ Line(d, row + 1) = Line(b, row + 1)
  BY <1>3 DEF Line
<1>5. CASE Line(d, row + 1) # <<>> /\ ~memory
  <2>1. JoinLines(d, row, at, memory).buffer = d
    BY <1>5 DEF JoinLines, NotDone
  <2> QED BY <2>1
<1>6. CASE ~(Line(d, row + 1) # <<>> /\ ~memory)
  <2> HIDE DEF d, at
  <2>1. JoinLines(d, row, at, memory).buffer = [d EXCEPT !.lines = lines, !.at = at]
    BY <1>3, <1>4, <1>6 DEF JoinLines, Done
  <2> HIDE DEF lines
  <2>2. OtherQuiet(b.lines, b.at, lines, at)
    BY <1>1, <1>2, Requiet
  <2>3. [d EXCEPT !.lines = lines, !.at = at] = Quiet(lines, at)
    BY <2>2 DEF OtherQuiet, d
  <2> QED BY <1>1, <2>1, <2>3 DEF d, at
<1> QED BY <1>5, <1>6

\* Backspace erases the selection, or the character before the cursor,
LEMMA DeleteBackwardDoes ==
  ASSUME NEW b, Good(b), NEW memory
  PROVE  \/ Inserted(b, DeleteBackward(b, memory).buffer, <<>>)
         \/ ErasedBefore(b, DeleteBackward(b, memory).buffer)
<1> DEFINE d   == WithoutSelection(b)
           row == b.at.row
           col == b.at.col
           previous == PrevChar(Line(b, row), col)
           e   == DeleteBackward(b, memory).buffer
<1>1. CASE HasSelection(b)
  <2>1. DeleteBackward(b, memory) = DeleteSelection(b, memory)
    BY <1>1 DEF DeleteBackward
  <2> QED BY <2>1, DeleteSelectionDoes
<1>2. CASE ~HasSelection(b)
  <2>1. d = Quiet(b.lines, b.at)
    BY <1>2, WithoutSelectionIs
  <2>2. d.lines = b.lines /\ d.at = b.at
        /\ \A r : Line(d, r) = Line(b, r) /\ EndOf(d, r) = EndOf(b, r)
    BY <2>1 DEF Quiet, Line, EndOf
  <2>3. /\ row \in 0..LastRow(b) /\ row \in Nat /\ col \in Nat /\ GoodLine(Line(b, row))
        /\ col \in Boundaries(Line(b, row)) /\ Offset(b, b.at) = RowStart(b, row) + col
        /\ b.lines \in Rows /\ b.at \in Places
    BY HereRight
  <2>4. Sound(b) /\ LastRow(b) \in Nat
    BY GoodParts, SoundRows
  <2>5. d \in Buffers /\ Unselected(d) /\ ~d.selecting
    <3>1. Quiet(b.lines, b.at) \in Buffers /\ Unselected(Quiet(b.lines, b.at))
      BY <2>3, Requiet
    <3>2. ~Quiet(b.lines, b.at).selecting
      BY DEF Quiet
    <3> QED BY <2>1, <3>1, <3>2
  <2>6. CASE col > 0
    <3>1. e = CutInLine(d, row, previous, col)
      BY <1>2, <2>2, <2>6 DEF DeleteBackward, Done
    <3>2. OneChar(Line(b, row), previous, col) /\ previous \in Boundaries(Line(b, row))
      BY <2>3, <2>6, CharBefore
    <3>3. OneChar(ToText(b), RowStart(b, row) + previous, RowStart(b, row) + col)
      BY <2>3, <2>4, <3>2, CharOfLine
    <3> HIDE DEF d, row, col, previous, e
    <3>4. Edited(b, e, RowStart(b, row) + previous, RowStart(b, row) + col, <<>>)
      BY <2>2, <2>3, <2>5, <3>1, <3>2, CutDoes
    <3>5. ErasedBefore(b, e)
      BY <1>2, <2>3, <3>3, <3>4 DEF ErasedBefore
    <3> QED BY <3>5 DEF e
  <2>7. CASE col = 0 /\ row = 0
    <3>1. e = d
      BY <1>2, <2>2, <2>7 DEF DeleteBackward, NotDone
    <3> QED BY <1>2, <2>1, <3>1 DEF Inserted
  <2>8. CASE col = 0 /\ row # 0
    <3>1. row - 1 \in 0..(LastRow(b) - 1) /\ row - 1 + 1 = row
      BY <2>3, <2>4, <2>8
    <3>2. e = JoinLines(d, row - 1, EndOf(b, row - 1), memory).buffer
      BY <1>2, <2>2, <2>8 DEF DeleteBackward
    <3> DEFINE f == RowStart(b, row - 1) + Len(Line(b, row - 1))
    <3>3. e = d \/ Edited(b, e, f, f + 1, <<>>)
      BY <2>1, <3>1, <3>2, JoinDoes
    <3>4. OneChar(ToText(b), f, f + 1) /\ RowStart(b, row) = f + 1
      BY <2>4, <3>1, LineEndChar
    <3>5. Offset(b, b.at) = f + 1
      <4>1. f + 1 \in Nat
        <5>1. row \in 0..Len(b.lines)
          BY <2>3, <2>4, SoundRows
        <5> QED BY <2>3, <3>4, <5>1, RowStartRight
      <4> HIDE DEF f
      <4> QED BY <2>3, <2>8, <3>4, <4>1
    <3> HIDE DEF f, d, e
    <3>6. CASE e = d
      BY <1>2, <2>1, <3>6 DEF Inserted, e
    <3>7. CASE Edited(b, e, f, f + 1, <<>>)
      <4>1. ErasedBefore(b, e)
        BY <1>2, <3>4, <3>5, <3>7 DEF ErasedBefore
      <4> QED BY <4>1 DEF e
    <3> QED BY <3>3, <3>6, <3>7
  <2> QED BY <2>3, <2>6, <2>7, <2>8
<1> QED BY <1>1, <1>2

\* Delete the one behind it,
LEMMA DeleteForwardDoes ==
  ASSUME NEW b, Good(b), NEW memory
  PROVE  \/ Inserted(b, DeleteForward(b, memory).buffer, <<>>)
         \/ ErasedAfter(b, DeleteForward(b, memory).buffer)
<1> DEFINE d   == WithoutSelection(b)
           row == b.at.row
           col == b.at.col
           line == Line(b, row)
           e   == DeleteForward(b, memory).buffer
<1>1. CASE HasSelection(b)
  <2>1. DeleteForward(b, memory) = DeleteSelection(b, memory)
    BY <1>1 DEF DeleteForward
  <2> QED BY <2>1, DeleteSelectionDoes
<1>2. CASE ~HasSelection(b)
  <2>1. d = Quiet(b.lines, b.at)
    BY <1>2, WithoutSelectionIs
  <2>2. d.lines = b.lines /\ d.at = b.at /\ LastRow(d) = LastRow(b)
        /\ \A r : Line(d, r) = Line(b, r)
    BY <2>1 DEF Quiet, Line, LastRow
  <2>3. /\ row \in 0..LastRow(b) /\ row \in Nat /\ col \in Nat /\ GoodLine(line)
        /\ col \in Boundaries(line) /\ Offset(b, b.at) = RowStart(b, row) + col
        /\ b.lines \in Rows /\ b.at \in Places /\ col <= Len(line) /\ Len(line) \in Nat
        /\ b.at = Pos(row, col)
    BY HereRight
  <2>4. Sound(b) /\ LastRow(b) \in Nat
    BY GoodParts, SoundRows
  <2>5. d \in Buffers /\ Unselected(d) /\ ~d.selecting
    <3>1. Quiet(b.lines, b.at) \in Buffers /\ Unselected(Quiet(b.lines, b.at))
      BY <2>3, Requiet
    <3>2. ~Quiet(b.lines, b.at).selecting
      BY DEF Quiet
    <3> QED BY <2>1, <3>1, <3>2
  <2>6. CASE col < Len(line)
    <3> DEFINE next == NextChar(line, col)
    <3>1. e = CutInLine(d, row, col, next)
      BY <1>2, <2>2, <2>6 DEF DeleteForward, Done
    <3>2. OneChar(line, col, next) /\ next \in Boundaries(line)
      BY <2>3, <2>6, CharBehind
    <3>3. OneChar(ToText(b), RowStart(b, row) + col, RowStart(b, row) + next)
      BY <2>3, <2>4, <3>2, CharOfLine
    <3> HIDE DEF d, row, col, next, e
    <3>4. Edited(b, e, RowStart(b, row) + col, RowStart(b, row) + next, <<>>)
      BY <2>2, <2>3, <2>5, <3>1, <3>2, CutDoes
    <3>5. ErasedAfter(b, e)
      BY <1>2, <2>3, <3>3, <3>4 DEF ErasedAfter
    <3> QED BY <3>5 DEF e
  <2>7. CASE ~(col < Len(line)) /\ row = LastRow(b)
    <3>1. e = d
      BY <1>2, <2>2, <2>7 DEF DeleteForward, NotDone
    <3> QED BY <1>2, <2>1, <3>1 DEF Inserted
  <2>8. CASE ~(col < Len(line)) /\ row # LastRow(b)
    <3>1. row \in 0..(LastRow(b) - 1) /\ col = Len(line)
      BY <2>3, <2>4, <2>8
    <3>2. b.at = EndOf(b, row)
      BY <2>3, <3>1 DEF EndOf
    <3>3. e = JoinLines(d, row, EndOf(b, row), memory).buffer
      BY <1>2, <2>2, <2>8, <3>2 DEF DeleteForward
    <3> DEFINE f == RowStart(b, row) + Len(Line(b, row))
    <3>4. e = d \/ Edited(b, e, f, f + 1, <<>>)
      BY <2>1, <3>1, <3>3, JoinDoes
    <3>5. OneChar(ToText(b), f, f + 1)
      BY <2>4, <3>1, LineEndChar
    <3>6. Offset(b, b.at) = f
      BY <2>3, <3>1
    <3> HIDE DEF f, d, e
    <3>7. CASE e = d
      BY <1>2, <2>1, <3>7 DEF Inserted, e
    <3>8. CASE Edited(b, e, f, f + 1, <<>>)
      <4>1. ErasedAfter(b, e)
        BY <1>2, <3>5, <3>6, <3>8 DEF ErasedAfter
      <4> QED BY <4>1 DEF e
    <3> QED BY <3>4, <3>7, <3>8
  <2> QED BY <2>6, <2>7, <2>8
<1> QED BY <1>1, <1>2

\* and Ctrl-K the rest of the line.
LEMMA KillDoes ==
  ASSUME NEW b, Good(b), NEW memory
  PROVE  \/ Inserted(b, KillToEnd(b, memory).buffer, <<>>)
         \/ ErasedRest(b, KillToEnd(b, memory).buffer)
<1> DEFINE row == b.at.row
           col == b.at.col
           line == Line(b, row)
           e   == KillToEnd(b, memory).buffer
<1>1. CASE HasSelection(b)
  <2>1. KillToEnd(b, memory) = DeleteSelection(b, memory)
    BY <1>1 DEF KillToEnd
  <2> QED BY <2>1, DeleteSelectionDoes
<1>2. ClampCursor(b) = b
  BY WithoutSelectionIs
<1>3. CASE ~HasSelection(b) /\ b.at = EndOf(b, row)
  <2>1. e = b
    BY <1>2, <1>3 DEF KillToEnd, NotDone
  <2> QED BY <2>1 DEF Inserted
<1>4. CASE ~HasSelection(b) /\ b.at # EndOf(b, row)
  <2>1. e = CutInLine(b, row, col, Len(line))
    BY <1>2, <1>4 DEF KillToEnd, Done
  <2>2. /\ row \in 0..LastRow(b) /\ GoodLine(line)
        /\ col \in Boundaries(line) /\ Offset(b, b.at) = RowStart(b, row) + col
        /\ b.at = Pos(row, col) /\ Sound(b) /\ b \in Buffers /\ (b.selecting \/ b.anchor = Origin)
        /\ Len(line) \in Boundaries(line)
    BY HereRight, GoodParts, PlacesOfLine
  <2>3. Unselected(b)
    BY <1>4, <2>2 DEF Unselected, HasSelection
  <2>4. col # Len(line)
    BY <1>4, <2>2 DEF EndOf
  <2>5. RestOfLine(ToText(b), RowStart(b, row) + col, RowStart(b, row) + Len(line))
    BY <2>2, <2>4, RestIsRest
  <2> HIDE DEF row, col, e
  <2>6. Edited(b, e, RowStart(b, row) + col, RowStart(b, row) + Len(line), <<>>)
    BY <2>1, <2>2, <2>3, CutDoes
  <2>7. ErasedRest(b, e)
    BY <1>4, <2>2, <2>5, <2>6 DEF ErasedRest
  <2> QED BY <2>7 DEF e
<1> QED BY <1>1, <1>3, <1>4

-----------------------------------------------------------------------------
(***************************************************************************)
(* Moves, and what else leaves the lines alone.                            *)
(***************************************************************************)
\* The lines are the same and the buffer is good.
Moved(b, d) == Good(d) /\ d.lines = b.lines

\* A buffer with the lines of a good one is good if its places exist.
LEMMA StillGood ==
  ASSUME NEW b, Good(b), NEW d \in Buffers, d.lines = b.lines,
         IsPlace(b, d.at), IsPlace(b, d.anchor), d.selecting \/ d.anchor = Origin
  PROVE  Moved(b, d)
<1>1. Sound(b)
  BY GoodParts
<1>2. Sound(d) /\ IsPlace(d, d.at) /\ IsPlace(d, d.anchor)
  BY <1>1, SameLines
<1> QED BY <1>2 DEF Moved, Good, Sound

\* Ending the selection leaves a good buffer.
LEMMA ClearGood ==
  ASSUME NEW b, Good(b)
  PROVE  Moved(b, ClearSelection(b)) /\ ClearSelection(b) = Quiet(b.lines, b.at)
<1>1. Sound(b) /\ b \in Buffers /\ b.at \in Places /\ IsPlace(b, b.at)
  BY GoodParts
<1>2. ClearSelection(b) = Quiet(b.lines, b.at)
  BY <1>1, ClearIs
<1>3. Good(Quiet(b.lines, b.at)) /\ Quiet(b.lines, b.at).lines = b.lines
  BY <1>1, QuietIsGood
<1> QED BY <1>2, <1>3 DEF Moved

\* A move to a place is a move, with a selection or without.
LEMMA MoveGood ==
  ASSUME NEW b, Good(b), NEW shift, NEW to \in Places, IsPlace(b, to)
  PROVE  Moved(b, Move(b, shift, to))
<1> DEFINE c == PrepareMovement(b, shift)
           d == [c EXCEPT !.at = to]
<1>1. /\ Sound(b) /\ b \in Buffers /\ b.at \in Places /\ IsPlace(b, b.at) /\ IsPlace(b, b.anchor)
      /\ (b.selecting \/ b.anchor = Origin)
  BY GoodParts
<1>2. c \in Buffers /\ c.lines = b.lines /\ IsPlace(b, c.anchor)
      /\ (c.selecting \/ c.anchor = Origin)
  <2>1. CASE ~shift
    <3>1. c = Quiet(b.lines, b.at)
      BY <2>1, ClearGood DEF PrepareMovement
    <3>2. Moved(b, Quiet(b.lines, b.at))
      BY ClearGood
    <3>3. Quiet(b.lines, b.at).anchor = Origin /\ IsPlace(b, Origin)
      BY <1>1, OriginIsPlace DEF Quiet
    <3> QED BY <3>1, <3>2, <3>3, GoodParts DEF Moved
  <2>2. CASE shift /\ b.selecting
    <3>1. c = b
      BY <2>2 DEF PrepareMovement
    <3> QED BY <1>1, <2>2, <3>1
  <2>3. CASE shift /\ ~b.selecting
    <3>1. c = [b EXCEPT !.selecting = TRUE, !.anchor = b.at]
      BY <2>3 DEF PrepareMovement
    <3>2. c \in Buffers /\ c.lines = b.lines /\ c.anchor = b.at /\ c.selecting
      BY <1>1, <3>1 DEF Buffers
    <3> QED BY <1>1, <3>2
  <2> QED BY <2>1, <2>2, <2>3
<1> HIDE DEF c
<1>3. d \in Buffers /\ d.lines = c.lines /\ d.at = to /\ d.anchor = c.anchor
      /\ d.selecting = c.selecting
  BY <1>2 DEF Buffers
<1> HIDE DEF d
<1>4. Moved(b, d)
  BY <1>2, <1>3, StillGood
<1> QED BY <1>4 DEF Move, d, c

\* A place in a row.
LEMMA InRow ==
  ASSUME NEW b, Sound(b), NEW row \in 0..LastRow(b), NEW p \in Boundaries(Line(b, row))
  PROVE  Pos(row, p) \in Places /\ IsPlace(b, Pos(row, p))
BY RowPlace

\* The ends of the rows.
LEMMA EndsOfRow ==
  ASSUME NEW b, Sound(b), NEW row \in 0..LastRow(b)
  PROVE  /\ Pos(row, 0) \in Places /\ IsPlace(b, Pos(row, 0))
         /\ EndOf(b, row) \in Places /\ IsPlace(b, EndOf(b, row))
<1>1. GoodLine(Line(b, row))
  BY SoundRows
<1>2. 0 \in Boundaries(Line(b, row)) /\ Len(Line(b, row)) \in Boundaries(Line(b, row))
  BY <1>1, PlacesOfLine
<1> QED BY <1>2, InRow DEF EndOf

\* Every key that moves leads to a place.
LEMMA MovesGood ==
  ASSUME NEW b, Good(b), NEW to \in Moves(b)
  PROVE  to \in Places /\ IsPlace(b, to)
<1> DEFINE row == b.at.row
           col == b.at.col
           line == Line(b, row)
<1>1. /\ row \in 0..LastRow(b) /\ row \in Nat /\ col \in Nat /\ GoodLine(line)
      /\ col \in Boundaries(line) /\ b.at \in Places /\ IsPlace(b, b.at) /\ Sound(b)
      /\ col <= Len(line)
  BY HereRight, GoodParts
<1>2. LastRow(b) \in Nat
  BY <1>1, SoundRows
<1>3. ASSUME NEW r \in 0..LastRow(b) PROVE ToRow(b, r) \in Places /\ IsPlace(b, ToRow(b, r))
  <2> DEFINE columns == ColumnsIn(line, 0, col)
  <2>1. columns \in Nat
    BY <1>1, ColumnsRight
  <2>2. GoodLine(Line(b, r))
    BY <1>1, SoundRows
  <2> HIDE DEF columns
  <2>3. PrefixBytes(Line(b, r), columns) \in Boundaries(Line(b, r))
    BY <2>1, <2>2, PrefixBytesRight
  <2>4. Pos(r, PrefixBytes(Line(b, r), columns)) \in Places
        /\ IsPlace(b, Pos(r, PrefixBytes(Line(b, r), columns)))
    BY <1>1, <2>3, InRow
  <2> QED BY <2>4 DEF ToRow, columns
<1>4. CASE to = Pos(row, 0) \/ to = EndOf(b, row)
  BY <1>1, <1>4, EndsOfRow
<1>5. CASE to = Left(b)
  <2>1. CASE col > 0
    <3>1. PrevChar(line, col) \in Boundaries(line)
      BY <1>1, PrevCharRight
    <3>2. to = Pos(row, PrevChar(line, col))
      BY <1>5, <2>1 DEF Left
    <3> QED BY <1>1, <3>1, <3>2, InRow
  <2>2. CASE ~(col > 0) /\ row > 0
    <3>1. row - 1 \in 0..LastRow(b)
      BY <1>1, <1>2, <2>2
    <3>2. to = EndOf(b, row - 1)
      BY <1>5, <2>2 DEF Left
    <3> QED BY <1>1, <3>1, <3>2, EndsOfRow
  <2>3. CASE ~(col > 0) /\ ~(row > 0)
    <3>1. to = b.at
      BY <1>5, <2>3 DEF Left
    <3> QED BY <1>1, <3>1
  <2> QED BY <2>1, <2>2, <2>3
<1>6. CASE to = Right(b)
  <2>1. CASE col < Len(line)
    <3>1. NextChar(line, col) \in Boundaries(line)
      BY <1>1, NextCharRight
    <3>2. to = Pos(row, NextChar(line, col))
      BY <1>6, <2>1 DEF Right
    <3> QED BY <1>1, <3>1, <3>2, InRow
  <2>2. CASE ~(col < Len(line)) /\ row < LastRow(b)
    <3>1. row + 1 \in 0..LastRow(b)
      BY <1>1, <1>2, <2>2
    <3>2. to = Pos(row + 1, 0)
      BY <1>6, <2>2 DEF Right
    <3> QED BY <1>1, <3>1, <3>2, EndsOfRow
  <2>3. CASE ~(col < Len(line)) /\ ~(row < LastRow(b))
    <3>1. to = b.at
      BY <1>6, <2>3 DEF Right
    <3> QED BY <1>1, <3>1
  <2> QED BY <2>1, <2>2, <2>3
<1>7. CASE to = Up(b)
  <2>1. CASE row > 0
    <3>1. row - 1 \in 0..LastRow(b) /\ to = ToRow(b, row - 1)
      BY <1>1, <1>2, <1>7, <2>1 DEF Up
    <3> QED BY <1>3, <3>1
  <2>2. CASE ~(row > 0)
    <3>1. to = b.at
      BY <1>7, <2>2 DEF Up
    <3> QED BY <1>1, <3>1
  <2> QED BY <2>1, <2>2
<1>8. CASE to = Down(b)
  <2>1. CASE row < LastRow(b)
    <3>1. row + 1 \in 0..LastRow(b) /\ to = ToRow(b, row + 1)
      BY <1>1, <1>2, <1>8, <2>1 DEF Down
    <3> QED BY <1>3, <3>1
  <2>2. CASE ~(row < LastRow(b))
    <3>1. to = b.at
      BY <1>8, <2>2 DEF Down
    <3> QED BY <1>1, <3>1
  <2> QED BY <2>1, <2>2
<1> QED BY <1>4, <1>5, <1>6, <1>7, <1>8 DEF Moves

\* Selecting everything, and setting the cursor.
LEMMA SelectAllGood ==
  ASSUME NEW b, Good(b)
  PROVE  Moved(b, SelectAll(b))
<1> DEFINE d   == SelectAll(b)
           end == EndOf(b, LastRow(b))
<1>1. Sound(b) /\ b \in Buffers
  BY GoodParts
<1>2. LastRow(b) \in 0..LastRow(b)
  BY <1>1, SoundRows
<1>3. Origin \in Places /\ IsPlace(b, Origin) /\ end \in Places /\ IsPlace(b, end)
  BY <1>1, <1>2, OriginIsPlace, EndsOfRow
<1> HIDE DEF end
<1>4. d \in Buffers /\ d.lines = b.lines /\ d.at = end /\ d.anchor = Origin
  BY <1>1, <1>3 DEF SelectAll, Buffers, end
<1> HIDE DEF d
<1>5. Moved(b, d)
  BY <1>3, <1>4, StillGood
<1> QED BY <1>5 DEF d

\* So is the cursor that is restored, which ends up at a place.
LEMMA SetCursorGood ==
  ASSUME NEW b, Good(b), NEW pos \in Places
  PROVE  Moved(b, SetCursor(b, pos)) /\ ~HasSelection(SetCursor(b, pos))
<1> DEFINE at == Normal(b, pos)
<1>1. Sound(b) /\ b \in Buffers
  BY GoodParts
<1>2. at \in Places /\ IsPlace(b, at)
  BY <1>1, NormalIsPlace
<1> HIDE DEF at
<1>3. SetCursor(b, pos) = Quiet(b.lines, at)
  BY <1>1, <1>2, QuietIs DEF SetCursor, at
<1>4. /\ Good(Quiet(b.lines, at)) /\ Quiet(b.lines, at).lines = b.lines
      /\ ~HasSelection(Quiet(b.lines, at))
  BY <1>1, <1>2, QuietIsGood
<1> QED BY <1>3, <1>4 DEF Moved

-----------------------------------------------------------------------------
(***************************************************************************)
(* Find.                                                                   *)
(***************************************************************************)
\* What is found is in a row that exists.
LEMMA FoundRight ==
  ASSUME NEW b, Good(b), NEW query \in Seq(Byte), NEW start \in Places, IsPlace(b, start)
  PROVE  /\ FindNext(b, query, start).row \in 0..LastRow(b)
         /\ FindNext(b, query, start).from \in Nat /\ FindNext(b, query, start).to \in Nat
<1> DEFINE from(row)  == IF row = start.row THEN AtOrAfter(Line(b, row), start.col) ELSE 0
           onRow(row) == FindInLine(Line(b, row), query, from(row), Len(Line(b, row)))
           head       == FindInLine(Line(b, start.row), query, 0, from(start.row))
           below      == {r \in start.row..LastRow(b) : onRow(r) # {}}
           above      == {r \in 0..(start.row - 1) : onRow(r) # {}}
           first(row) == Match(row, Min(onRow(row)), Min(onRow(row)) + Len(query))
           m          == FindNext(b, query, start)
           OK(x)      == x.row \in 0..LastRow(b) /\ x.from \in Nat /\ x.to \in Nat
<1>1. Sound(b) /\ start.row \in 0..LastRow(b) /\ LastRow(b) \in Nat /\ Len(query) \in Nat
  BY GoodParts, SoundRows DEF IsPlace
<1>2. ASSUME NEW r \in 0..LastRow(b) PROVE onRow(r) \subseteq Nat
  <2>1. GoodLine(Line(b, r))
    BY <1>1, SoundRows
  <2>2. Boundaries(Line(b, r)) \subseteq 0..Len(Line(b, r))
    BY <2>1, PlacesOfLine
  <2> QED BY <2>2 DEF FindInLine
<1>3. head \subseteq Nat
  <2>1. GoodLine(Line(b, start.row))
    BY <1>1, SoundRows
  <2>2. Boundaries(Line(b, start.row)) \subseteq 0..Len(Line(b, start.row))
    BY <2>1, PlacesOfLine
  <2> QED BY <2>2 DEF FindInLine
<1>4. below \subseteq 0..LastRow(b) /\ above \subseteq 0..LastRow(b)
  <2>1. \A r \in start.row..LastRow(b) : r \in 0..LastRow(b)
    BY <1>1
  <2>2. \A r \in 0..(start.row - 1) : r \in 0..LastRow(b)
    BY <1>1
  <2> HIDE DEF onRow
  <2> QED BY <2>1, <2>2
<1>5. m = IF query = <<>> THEN NoMatch
          ELSE IF below # {} THEN first(Min(below))
          ELSE IF above # {} THEN first(Min(above))
          ELSE IF head # {} THEN Match(start.row, Min(head), Min(head) + Len(query))
          ELSE NoMatch
  BY Zenon DEF FindNext
<1>6. OK(NoMatch)
  BY <1>1 DEF NoMatch, Match
<1>7. ASSUME NEW r \in 0..LastRow(b), onRow(r) # {} PROVE OK(first(r))
  <2> DEFINE x == Min(onRow(r))
  <2>1. x \in Nat
    <3>1. onRow(r) \in SUBSET Nat
      BY <1>2
    <3> HIDE DEF onRow
    <3>2. x \in onRow(r)
      BY <1>7, <3>1, MinRight
    <3> QED BY <3>1, <3>2
  <2> HIDE DEF x
  <2>2. OK(Match(r, x, x + Len(query)))
    BY <1>1, <2>1 DEF Match
  <2> QED BY <2>2 DEF x
<1>8. below # {} => OK(first(Min(below)))
  <2> SUFFICES ASSUME below # {} PROVE OK(first(Min(below)))
    OBVIOUS
  <2>1. below \in SUBSET Nat
    BY <1>1, <1>4
  <2> DEFINE x == Min(below)
  <2>2. x \in below
    <3> HIDE DEF below
    <3> QED BY <2>1, MinRight
  <2>3. x \in 0..LastRow(b) /\ onRow(x) # {}
    <3> HIDE DEF x, onRow
    <3> QED BY <1>4, <2>2
  <2> HIDE DEF x, onRow, below
  <2>4. OK(first(x))
    BY <1>7, <2>3
  <2> QED BY <2>4 DEF x
<1>9. above # {} => OK(first(Min(above)))
  <2> SUFFICES ASSUME above # {} PROVE OK(first(Min(above)))
    OBVIOUS
  <2>1. above \in SUBSET Nat
    BY <1>1, <1>4
  <2> DEFINE x == Min(above)
  <2>2. x \in above
    <3> HIDE DEF above
    <3> QED BY <2>1, MinRight
  <2>3. x \in 0..LastRow(b) /\ onRow(x) # {}
    <3> HIDE DEF x, onRow
    <3> QED BY <1>4, <2>2
  <2> HIDE DEF x, onRow, above
  <2>4. OK(first(x))
    BY <1>7, <2>3
  <2> QED BY <2>4 DEF x
<1>10. head # {} => OK(Match(start.row, Min(head), Min(head) + Len(query)))
  <2> SUFFICES ASSUME head # {} PROVE OK(Match(start.row, Min(head), Min(head) + Len(query)))
    OBVIOUS
  <2> DEFINE x == Min(head)
  <2>1. x \in Nat
    <3>1. head \in SUBSET Nat
      BY <1>3
    <3> HIDE DEF head
    <3>2. x \in head
      BY <3>1, MinRight
    <3> QED BY <3>1, <3>2
  <2> HIDE DEF x
  <2>2. OK(Match(start.row, x, x + Len(query)))
    BY <1>1, <2>1 DEF Match
  <2> QED BY <2>2 DEF x
<1> HIDE DEF OK, below, above, head, first, m
<1>11. OK(m)
  BY <1>5, <1>6, <1>8, <1>9, <1>10
<1> QED BY <1>11 DEF OK, m

\* What is found is selected from a place to a place.
LEMMA SelectMatchGood ==
  ASSUME NEW b, Good(b), NEW m, m.row \in 0..LastRow(b), m.from \in Nat, m.to \in Nat
  PROVE  Moved(b, SelectMatch(b, m))
<1> DEFINE line == Line(b, m.row)
           from == AtOrBefore(line, m.from)
           to   == AtOrBefore(line, m.to)
           d    == SelectMatch(b, m)
<1>1. Sound(b) /\ b \in Buffers /\ GoodLine(line)
  BY GoodParts, SoundRows
<1>2. from \in Boundaries(line) /\ to \in Boundaries(line)
  BY <1>1, AtOrBeforeRight
<1> HIDE DEF from, to
<1>3. /\ Pos(m.row, from) \in Places /\ IsPlace(b, Pos(m.row, from))
      /\ Pos(m.row, to) \in Places /\ IsPlace(b, Pos(m.row, to))
  BY <1>1, <1>2, InRow
<1>4. /\ d \in Buffers /\ d.lines = b.lines /\ d.at = Pos(m.row, to) /\ d.anchor = Pos(m.row, from)
      /\ d.selecting
  BY <1>1, <1>3 DEF SelectMatch, Buffers, from, to
<1> HIDE DEF d
<1>5. Moved(b, d)
  BY <1>3, <1>4, StillGood
<1> QED BY <1>5 DEF d

-----------------------------------------------------------------------------
(***************************************************************************)
(* The bytes of some characters.                                           *)
(***************************************************************************)
\* The bytes of a character or a line end.
BytesOf(c) == IF c = NewLine THEN <<NewLine>> ELSE Encode(c)

\* The bytes of one character are UTF-8 and of that character.
LEMMA BytesOfRight ==
  ASSUME NEW c \in Symbol
  PROVE  /\ BytesOf(c) \in Seq(Glyph) /\ TextOK(BytesOf(c)) /\ Characters(BytesOf(c)) = <<c>>
<1>1. CASE c = NewLine
  BY <1>1, LineEndRight, LineEndCharacter DEF BytesOf
<1>2. CASE c # NewLine
  <2>1. c \in Chars
    BY <1>2 DEF Symbol
  <2>2. TextOK(Encode(c)) /\ Characters(Encode(c)) = <<c>>
    BY <2>1, EncodeRight
  <2>3. Encode(c) \in Seq(Glyph)
    BY <2>2, BytesRight
  <2> QED BY <1>2, <2>2, <2>3 DEF BytesOf
<1> QED BY <1>1, <1>2

\* The document of a text is whole, and has its characters.
LEMMA DocumentRight ==
  ASSUME NEW text \in Seq(Symbol)
  PROVE  TextOK(Document(text)) /\ Characters(Document(text)) = text
<1> DEFINE N    == Len(text)
           seqs == [i \in DOMAIN text |-> BytesOf(text[i])]
           V    == Glyph
<1>1. /\ N \in Nat /\ DOMAIN text = 1..N /\ \A i \in 1..N : text[i] \in Symbol
      /\ text \in [1..N -> Symbol]
  BY LenProperties, ElementOfSeq
<1>2. seqs \in Seq(Seq(Glyph)) /\ Len(seqs) = N /\ \A i \in 1..N : seqs[i] = BytesOf(text[i])
  <2>1. seqs \in [1..N -> Seq(Glyph)]
    BY <1>1, BytesOfRight
  <2>2. seqs \in Seq(Seq(Glyph))
    BY <1>1, <2>1, SeqDef
  <2>3. Len(seqs) = N
    <3> HIDE DEF seqs
    <3> QED BY <1>1, <2>1, <2>2, LenProperties
  <2> QED BY <1>1, <2>2, <2>3
<1>3. Document(text) = FlattenSeq(seqs)
  BY DEF Document, BytesOf
<1> HIDE DEF seqs, N
<1>4. PICK f : Flats(f, seqs, Glyph)
  BY <1>2, FlatsExist
<1>5. Document(text) = f[N]
  BY <1>2, <1>3, <1>4, FlattenIs
<1>6. /\ \A i \in 0..N : f[i] \in Seq(Glyph)
      /\ f[0] = <<>> /\ \A i \in 1..N : f[i] = f[i - 1] \o seqs[i]
  BY <1>2, <1>4 DEF Flats
<1> DEFINE First(t, n) == Len(t) = n /\ \A j \in 1..n : t[j] = text[j]
           S == {n \in 0..N : TextOK(f[n]) /\ First(Characters(f[n]), n)}
<1>7. 0 \in S
  <2>1. TextOK(f[0]) /\ Characters(f[0]) = <<>> /\ Len(<<>>) = 0
    BY <1>6, NoBytes, NoCharacters
  <2>2. First(Characters(f[0]), 0)
    BY <2>1
  <2> QED BY <1>1, <2>1, <2>2
<1>8. ASSUME NEW n \in 0..N, n < N, n \in S PROVE n + 1 \in S
  <2> DEFINE s == f[n]
             t == BytesOf(text[n + 1])
             c == text[n + 1]
             x == Characters(s)
  <2>1. n + 1 \in 1..N /\ n + 1 \in 0..N /\ n + 1 - 1 = n /\ n \in Nat
    BY <1>1, <1>8
  <2>2. PICK m \in 1..N : m = n + 1
    BY <2>1
  <2>3. f[m] = f[m - 1] \o seqs[m]
    BY <1>6
  <2>4. f[n + 1] = s \o t
    <3>1. m - 1 = n /\ seqs[m] = t
      BY <1>2, <2>1, <2>2
    <3> QED BY <2>2, <2>3, <3>1
  <2>5. c \in Symbol /\ s \in Seq(Glyph) /\ TextOK(s) /\ First(x, n)
    BY <1>1, <1>6, <1>8, <2>1
  <2>6. t \in Seq(Glyph) /\ TextOK(t) /\ Characters(t) = <<c>>
    BY <2>5, BytesOfRight
  <2>7. x \in Seq(Symbol)
    BY <2>5, CharactersType
  <2> HIDE DEF s, t, c, First
  <2>8. TextOK(s \o t) /\ Characters(s \o t) = x \o <<c>>
    BY <2>5, <2>6, TextConcat, CharactersConcat DEF x
  <2> HIDE DEF x
  <2>9. First(x \o <<c>>, n + 1)
    <3>1. Len(x) = n /\ \A j \in 1..n : x[j] = text[j]
      BY <2>5 DEF First
    <3>2. /\ Len(x \o <<c>>) = n + 1 /\ \A j \in 1..n : (x \o <<c>>)[j] = x[j]
          /\ (x \o <<c>>)[n + 1] = c
      <4>1. x \o <<c>> = Append(x, c)
        BY <2>5, <2>7
      <4> QED BY <2>1, <2>5, <2>7, <3>1, <4>1
    <3>3. \A j \in 1..(n + 1) : j \in 1..n \/ j = n + 1
      BY <2>1
    <3>4. c = text[n + 1]
      BY DEF c
    <3> QED BY <3>1, <3>2, <3>3, <3>4, SMTT(20) DEF First
  <2> QED BY <2>1, <2>4, <2>8, <2>9
<1> HIDE DEF First
<1>9. N \in S
  <2> HIDE DEF S
  <2>1. 0..N \subseteq S
    BY <1>1, <1>7, <1>8, Stepwise
  <2> QED BY <1>1, <2>1
<1>10. TextOK(f[N]) /\ First(Characters(f[N]), N) /\ f[N] \in Seq(Glyph)
  BY <1>1, <1>6, <1>9
<1>11. Characters(f[N]) \in Seq(Symbol)
  BY <1>10, CharactersType
<1>12. Characters(f[N]) = text
  <2> DEFINE x == Characters(f[N])
  <2>1. x \in Seq(Symbol) /\ Len(x) = Len(text) /\ \A i \in 1..Len(x) : x[i] = text[i]
    BY <1>10, <1>11 DEF First, N
  <2> HIDE DEF x
  <2>2. x = text
    BY <2>1, SeqEqual
  <2> QED BY <2>2 DEF x
<1> QED BY <1>5, <1>10, <1>12

\* Restoring a text and a cursor.
LEMMA RestoreDoes ==
  ASSUME NEW b, Good(b), NEW text \in Seq(Symbol), NEW pos \in Places
  PROVE  /\ Good(SetCursor(SetText(b, Document(text)), pos))
         /\ ~HasSelection(SetCursor(SetText(b, Document(text)), pos))
         /\ Characters(ToText(SetCursor(SetText(b, Document(text)), pos))) = text
<1> DEFINE c == SetText(b, Document(text))
           d == SetCursor(c, pos)
<1>1. b \in Buffers
  BY GoodParts
<1>2. TextOK(Document(text)) /\ Characters(Document(text)) = text
  BY DocumentRight
<1>3. Good(c) /\ ToText(c) = Document(text) /\ Sound(c)
  BY <1>1, <1>2, SetTextRight
<1> HIDE DEF c
<1>4. Moved(c, d) /\ ~HasSelection(d)
  BY <1>3, SetCursorGood
<1> HIDE DEF d
<1>5. ToText(d) = ToText(c)
  BY <1>3, <1>4, SameLines DEF Moved
<1> QED BY <1>2, <1>3, <1>4, <1>5 DEF Moved, c, d

\* Texts of the clipboard and of files are texts.
LEMMA TextsRight ==
  ASSUME NEW text \in Pastes \cup Texts
  PROVE  text \in Seq(Symbol)
BY EditorAssumption DEF Symbol

-----------------------------------------------------------------------------
(***************************************************************************)
(* Columns, and the rows of the screen into which a line is cut.           *)
(***************************************************************************)
\* The bytes of a line that begin a character with a column of its own.
InColumns(t, from, to) == {p \in from..(to - 1) : StartsAt(t, p) /\ Columns[t[p + 1]] = 1}

\* The columns between two places of a line are as many as its characters there.
LEMMA InColumnsFinite ==
  ASSUME NEW t, NEW from \in Nat, NEW to \in Nat
  PROVE  /\ IsFiniteSet(InColumns(t, from, to))
         /\ ColumnsIn(t, from, to) = Cardinality(InColumns(t, from, to))
<1>1. from..(to - 1) \in SUBSET Int /\ IsFiniteSet(from..(to - 1))
  BY FS_Interval
<1>2. IsFiniteSet(InColumns(t, from, to))
  BY <1>1, FS_Subset DEF InColumns
<1> QED BY <1>2 DEF ColumnsIn, InColumns

\* Less of a line has no more columns.
LEMMA ColumnsGrow ==
  ASSUME NEW t, NEW from \in Nat, NEW to \in Nat, NEW end \in Nat, to <= end
  PROVE  ColumnsIn(t, from, to) <= ColumnsIn(t, from, end)
<1>1. InColumns(t, from, to) \subseteq InColumns(t, from, end)
  BY DEF InColumns
<1>2. Cardinality(InColumns(t, from, to)) <= Cardinality(InColumns(t, from, end))
  BY <1>1, InColumnsFinite, FS_Subset
<1> QED BY <1>2, InColumnsFinite

\* One character has its own column, or none.
LEMMA ColumnsOfChar ==
  ASSUME NEW t, GoodLine(t), NEW from \in Nat, NEW p \in Boundaries(t), from <= p, p < Len(t)
  PROVE  /\ ColumnsIn(t, from, NextChar(t, p)) \in Nat /\ ColumnsIn(t, from, p) \in Nat
         /\ ColumnsIn(t, from, NextChar(t, p)) =
              IF Columns[t[p + 1]] = 1 THEN ColumnsIn(t, from, p) + 1 ELSE ColumnsIn(t, from, p)
<1> DEFINE q == NextChar(t, p)
           P == InColumns(t, from, p)
           Q == InColumns(t, from, q)
<1>1. /\ p \in Nat /\ q \in Nat /\ q > p /\ q <= Len(t) /\ Len(t) \in Nat /\ t[p + 1] # Cont
      /\ \A i \in (p + 1)..(q - 1) : t[i + 1] = Cont
  <2>1. /\ q \in Boundaries(t) /\ t[p + 1] \in Chars /\ q > p /\ q <= Len(t)
        /\ \A i \in (p + 1)..(q - 1) : t[i + 1] = Cont
    BY NextCharRight
  <2>2. Len(t) \in Nat /\ Boundaries(t) \subseteq 0..Len(t)
    BY PlacesOfLine
  <2> HIDE DEF q
  <2>3. t[p + 1] # Cont
    BY <2>1, Utf8Assumption
  <2> QED BY <2>1, <2>2, <2>3
<1> HIDE DEF q
<1>2. P \subseteq Q /\ Q \subseteq P \cup {p} /\ p \notin P /\ (p \in Q <=> Columns[t[p + 1]] = 1)
  <2>1. StartsAt(t, p)
    BY <1>1 DEF StartsAt
  <2>2. P \subseteq Q
    BY <1>1 DEF InColumns
  <2>3. p \in Q <=> Columns[t[p + 1]] = 1
    BY <1>1, <2>1 DEF InColumns
  <2>4. p \notin P
    BY <1>1 DEF InColumns
  <2>5. ASSUME NEW i \in Q PROVE i \in P \cup {p}
    <3>1. i \in from..(q - 1) /\ StartsAt(t, i) /\ Columns[t[i + 1]] = 1
      BY DEF InColumns
    <3>2. i \notin (p + 1)..(q - 1)
      BY <1>1, <3>1 DEF StartsAt
    <3>3. i = p \/ i \in from..(p - 1)
      BY <1>1, <3>1, <3>2
    <3> QED BY <3>1, <3>3 DEF InColumns
  <2> QED BY <2>2, <2>3, <2>4, <2>5
<1>3. /\ IsFiniteSet(P) /\ ColumnsIn(t, from, p) = Cardinality(P)
      /\ ColumnsIn(t, from, q) = Cardinality(Q)
  BY <1>1, InColumnsFinite
<1> HIDE DEF P, Q
<1>4. Cardinality(P) \in Nat
  BY <1>3, FS_CardinalityType
<1>5. CASE Columns[t[p + 1]] = 1
  <2>1. Q = P \cup {p}
    BY <1>2, <1>5
  <2>2. Cardinality(P \cup {p}) = Cardinality(P) + 1
    BY <1>2, <1>3, FS_AddElement
  <2>3. ColumnsIn(t, from, q) = ColumnsIn(t, from, p) + 1 /\ ColumnsIn(t, from, p) \in Nat
    BY <1>3, <1>4, <2>1, <2>2
  <2> QED BY <1>5, <2>3 DEF q
<1>6. CASE Columns[t[p + 1]] # 1
  <2>1. Q = P
    BY <1>2, <1>6
  <2>2. ColumnsIn(t, from, q) = ColumnsIn(t, from, p) /\ ColumnsIn(t, from, p) \in Nat
    BY <1>3, <1>4, <2>1
  <2> QED BY <1>6, <2>2 DEF q
<1> QED BY <1>5, <1>6

\* A row of the screen takes one character at least, and no more than fits.
LEMMA FitEndRight ==
  ASSUME NEW t, GoodLine(t), NEW p \in Boundaries(t), NEW columns \in Nat \ {0}
  PROVE  /\ FitEnd(t, p, columns) \in Boundaries(t) /\ p <= FitEnd(t, p, columns)
         /\ ColumnsIn(t, p, FitEnd(t, p, columns)) <= columns
         /\ p < Len(t) => p < FitEnd(t, p, columns)
<1> DEFINE S == {q \in Boundaries(t) : q >= p /\ ColumnsIn(t, p, q) <= columns}
<1>1. Len(t) \in Nat /\ Boundaries(t) \subseteq 0..Len(t) /\ p \in Nat
  BY PlacesOfLine
<1>2. p \in S
  BY <1>1, ColumnsRight
<1>3. S \subseteq 0..Len(t)
  BY <1>1
<1>4. FitEnd(t, p, columns) = Max(S)
  BY DEF FitEnd
<1>5. Max(S) \in S /\ \A q \in S : q <= Max(S)
  <2> HIDE DEF S
  <2> QED BY <1>1, <1>2, <1>3, MaxRight
<1>6. ASSUME p < Len(t) PROVE p < Max(S)
  <2> DEFINE q == NextChar(t, p)
  <2>1. q \in Boundaries(t) /\ q > p
    BY <1>6, NextCharRight
  <2>2. ColumnsIn(t, p, p) = 0
    BY <1>1, ColumnsRight
  <2>3. ColumnsIn(t, p, q) = (IF Columns[t[p + 1]] = 1 THEN ColumnsIn(t, p, p) + 1
                                                       ELSE ColumnsIn(t, p, p))
    BY <1>1, <1>6, ColumnsOfChar
  <2> HIDE DEF q
  <2>4. ColumnsIn(t, p, q) <= columns
    BY <2>2, <2>3
  <2>5. q \in S
    BY <1>1, <2>1, <2>4
  <2>6. q <= Max(S) /\ q \in Nat /\ Max(S) \in Nat
    BY <1>1, <1>5, <2>1, <2>5
  <2> QED BY <1>1, <2>1, <2>6
<1> HIDE DEF S
<1>7. Max(S) \in Boundaries(t) /\ Max(S) >= p /\ ColumnsIn(t, p, Max(S)) <= columns
  BY <1>5 DEF S
<1> QED BY <1>1, <1>4, <1>6, <1>7

-----------------------------------------------------------------------------
\* Parts of the lines, as visual rows show them.
Chunks == [row : Nat, from : Nat, to : Nat]

\* A part of a line that fits.
Fits(x, t, row, columns) ==
  /\ x \in Chunks /\ x.row = row /\ x.from \in Boundaries(t) /\ x.to \in Boundaries(t)
  /\ x.from <= x.to /\ ColumnsIn(t, x.from, x.to) <= columns
  /\ x.from < x.to \/ x.to = Len(t)

\* Parts that take up each where the one before ends, from p to the end of a line.
Tiled(s, t, row, p, columns) ==
  /\ s \in Seq(Chunks)
  /\ \A i \in 1..Len(s) : Fits(s[i], t, row, columns)
  /\ s = <<>> => p = Len(t)
  /\ s # <<>> => s[1].from = p /\ s[Len(s)].to = Len(t)
  /\ \A i \in 1..(Len(s) - 1) : s[i].to = s[i + 1].from /\ s[i].to < Len(t)

\* One more part before the others.
LEMMA OneMore ==
  ASSUME NEW t, GoodLine(t), NEW row \in Nat, NEW columns \in Nat \ {0},
         NEW x, Fits(x, t, row, columns), NEW s, Tiled(s, t, row, x.to, columns),
         s # <<>> => x.to < Len(t)
  PROVE  Tiled(<<x>> \o s, t, row, x.from, columns) /\ <<x>> \o s # <<>>
<1> DEFINE u == <<x>> \o s
           n == Len(s)
<1>1. x \in Chunks /\ s \in Seq(Chunks) /\ n \in Nat
  BY LenProperties DEF Fits, Tiled
<1>2. /\ u \in Seq(Chunks) /\ Len(u) = n + 1 /\ u[1] = x
      /\ \A i \in 2..(n + 1) : u[i] = s[i - 1]
  <2>1. <<x>> \in Seq(Chunks) /\ Len(<<x>>) = 1 /\ <<x>>[1] = x
    BY <1>1
  <2>2. /\ u \in Seq(Chunks) /\ Len(u) = 1 + n
        /\ \A i \in 1..(1 + n) : u[i] = IF i <= 1 THEN <<x>>[i] ELSE s[i - 1]
    BY <1>1, <2>1, ConcatProperties
  <2> QED BY <1>1, <2>1, <2>2
<1> HIDE DEF u, n
<1>3. ASSUME NEW i \in 1..(n + 1) PROVE Fits(u[i], t, row, columns)
  <2>1. CASE i = 1
    BY <1>2, <2>1
  <2>2. CASE i # 1
    <3>1. i \in 2..(n + 1) /\ i - 1 \in 1..n
      BY <1>1, <2>2
    <3>2. Fits(s[i - 1], t, row, columns)
      BY <3>1 DEF Tiled, n
    <3> QED BY <1>2, <3>1, <3>2
  <2> QED BY <2>1, <2>2
<1>4. u # <<>>
  BY <1>1, <1>2, EmptySeq
<1>5. u[Len(u)].to = Len(t)
  <2>1. CASE n = 0
    <3>1. s = <<>>
      BY <1>1, <2>1, EmptySeq DEF n
    <3> QED BY <1>2, <2>1, <3>1 DEF Tiled
  <2>2. CASE n # 0
    <3>1. s # <<>>
      BY <1>1, <2>2, EmptySeq DEF n
    <3>2. s[n].to = Len(t)
      BY <3>1 DEF Tiled, n
    <3>3. n + 1 \in 2..(n + 1) /\ (n + 1) - 1 = n
      BY <1>1, <2>2
    <3> QED BY <1>2, <3>2, <3>3
  <2> QED BY <2>1, <2>2
<1>6. ASSUME NEW i \in 1..(Len(u) - 1) PROVE u[i].to = u[i + 1].from /\ u[i].to < Len(t)
  <2>0. i \in 1..n /\ i + 1 \in 2..(n + 1) /\ (i + 1) - 1 = i
    BY <1>1, <1>2
  <2>1. u[i + 1] = s[i]
    BY <1>2, <2>0
  <2>2. CASE i = 1
    <3>1. s # <<>>
      BY <1>1, <2>0, EmptySeq DEF n
    <3>2. s[1].from = x.to /\ x.to < Len(t)
      BY <3>1 DEF Tiled
    <3>3. u[i] = x /\ u[i + 1] = s[1]
      BY <1>2, <2>1, <2>2
    <3> QED BY <3>2, <3>3
  <2>3. CASE i # 1
    <3>1. i \in 2..(n + 1) /\ i - 1 \in 1..(n - 1) /\ (i - 1) + 1 = i
      BY <1>1, <2>0, <2>3
    <3>2. PICK j \in 1..(n - 1) : j = i - 1
      BY <3>1
    <3>3. s[j].to = s[j + 1].from /\ s[j].to < Len(t)
      BY DEF Tiled, n
    <3> QED BY <1>2, <2>1, <3>1, <3>2, <3>3
  <2> QED BY <2>2, <2>3
<1>7. u[1].from = x.from /\ \A i \in 1..Len(u) : Fits(u[i], t, row, columns)
  BY <1>2, <1>3
<1>8. Tiled(u, t, row, x.from, columns)
  BY <1>2, <1>4, <1>5, <1>6, <1>7 DEF Tiled
<1> QED BY <1>4, <1>8 DEF u

\* The parts of a line, from each place on.
Chunked(g, t, row, columns) ==
  g = [p \in Boundaries(t) |->
         IF p = Len(t) THEN <<>>
         ELSE LET end == FitEnd(t, p, columns) IN <<Chunk(row, p, end)>> \o g[end]]

\* They exist: from right to left.
LEMMA ChunkedExists ==
  ASSUME NEW t, GoodLine(t), NEW row \in Nat, NEW columns \in Nat \ {0}
  PROVE  \E g : Chunked(g, t, row, columns)
<1> DEFINE N == Len(t)
           B == Boundaries(t)
           end(p) == FitEnd(t, p, columns)
           Body(g, p) == IF p = N THEN <<>> ELSE <<Chunk(row, p, end(p))>> \o g[end(p)]
           Upto(g, n) == DOMAIN g = B /\ \A p \in B : N - n <= p => g[p] = Body(g, p)
           S == {n \in 0..N : \E g : Upto(g, n)}
<1>1. N \in Nat /\ B \subseteq 0..N /\ N \in B
  BY PlacesOfLine
<1>2. ASSUME NEW p \in B, p # N PROVE end(p) \in B /\ p < end(p)
  BY <1>1, <1>2, FitEndRight, SMTT(20)
<1> HIDE DEF N, B, end
<1>3. 0 \in S
  <2> DEFINE g == [p \in B |-> <<>>]
  <2>1. \A p \in B : N - 0 <= p => p = N
    BY <1>1
  <2>2. Upto(g, 0)
    BY <2>1
  <2> QED BY <1>1, <2>2
<1>4. ASSUME NEW n \in 0..N, n < N, n \in S PROVE n + 1 \in S
  <2>1. PICK g : Upto(g, n)
    BY <1>4
  <2> DEFINE m == N - (n + 1)
             k == [g EXCEPT ![m] = Body(g, m)]
  <2>2. m \in 0..N /\ m # N /\ n + 1 \in 0..N /\ N - n = m + 1
    BY <1>1, <1>4
  <2>3. CASE m \notin B
    <3>1. \A p \in B : m <= p => m + 1 <= p
      BY <1>1, <2>2, <2>3
    <3>2. \A p \in B : N - (n + 1) <= p => N - n <= p
      BY <2>2, <3>1
    <3>3. Upto(g, n + 1)
      <4> HIDE DEF Body, m
      <4> QED BY <2>1, <3>2
    <3> QED BY <2>2, <3>3
  <2>4. CASE m \in B
    <3> HIDE DEF m
    <3>1. DOMAIN k = B /\ k[m] = Body(g, m) /\ \A p \in B : p # m => k[p] = g[p]
      BY <2>1, <2>4
    <3> HIDE DEF k
    <3>2. ASSUME NEW p \in B, m <= p PROVE k[p] = Body(k, p)
      <4>1. CASE p = N
        <5>1. N - n <= N
          BY <1>1, <1>4
        <5>2. g[p] = <<>> /\ k[p] = g[p]
          BY <1>1, <2>1, <2>2, <3>1, <4>1, <5>1
        <5> QED BY <4>1, <5>2
      <4>2. CASE p # N
        <5>1. end(p) \in B /\ p < end(p)
          BY <1>2, <4>2
        <5>2. k[end(p)] = g[end(p)]
          <6>1. PICK q \in B : q = end(p)
            BY <5>1
          <6>2. q # m
            BY <1>1, <2>2, <3>2, <5>1, <6>1
          <6>3. k[q] = g[q]
            BY <3>1, <6>2
          <6> QED BY <6>1, <6>3
        <5>3. CASE p = m
          BY <3>1, <5>2, <5>3
        <5>4. CASE p # m
          <6>1. N - n <= p
            BY <1>1, <2>2, <3>2, <5>4
          <6>2. k[p] = g[p] /\ g[p] = Body(g, p)
            BY <2>1, <3>1, <5>4, <6>1
          <6> QED BY <5>2, <6>2
        <5> QED BY <5>3, <5>4
      <4> QED BY <4>1, <4>2
    <3>3. Upto(k, n + 1)
      <4> HIDE DEF Body
      <4> QED BY <3>1, <3>2 DEF m
    <3> QED BY <2>2, <3>3
  <2> QED BY <2>3, <2>4
<1>5. N \in S
  <2> HIDE DEF S
  <2>1. 0..N \subseteq S
    BY <1>1, <1>3, <1>4, Stepwise
  <2> QED BY <1>1, <2>1
<1>6. PICK g : Upto(g, N)
  BY <1>5
<1>7. \A p \in B : N - N <= p
  BY <1>1
<1>8. DOMAIN g = B /\ \A p \in B : g[p] = Body(g, p)
  BY <1>6, <1>7
<1> DEFINE h == [p \in B |-> Body(g, p)]
<1>9. ASSUME NEW p \in B PROVE Body(g, p) = Body(h, p)
  BY <1>2, <1>8
<1>10. h = [p \in B |-> Body(h, p)]
  <2> HIDE DEF Body
  <2> QED BY <1>9
<1>11. Chunked(h, t, row, columns)
  BY <1>10 DEF Chunked, N, B, end
<1> QED BY <1>11

-----------------------------------------------------------------------------
\* From each place on they take up the line.
LEMMA ChunkedTiles ==
  ASSUME NEW t, GoodLine(t), NEW row \in Nat, NEW columns \in Nat \ {0},
         NEW g, Chunked(g, t, row, columns), NEW p \in Boundaries(t)
  PROVE  Tiled(g[p], t, row, p, columns)
<1> DEFINE N == Len(t)
           B == Boundaries(t)
           end(q) == FitEnd(t, q, columns)
           S == {n \in 0..N : \A q \in B : N - n <= q => Tiled(g[q], t, row, q, columns)}
<1>1. N \in Nat /\ B \subseteq 0..N /\ N \in B
  BY PlacesOfLine
<1>2. /\ g[N] = <<>>
      /\ \A q \in B : q # N => g[q] = <<Chunk(row, q, end(q))>> \o g[end(q)]
  BY <1>1 DEF Chunked
<1>3. 0 \in S
  <2>1. Tiled(<<>>, t, row, N, columns)
    BY EmptySeq DEF Tiled
  <2>2. \A q \in B : N - 0 <= q => q = N
    BY <1>1
  <2> QED BY <1>1, <1>2, <2>1, <2>2
<1>4. ASSUME NEW n \in 0..N, n < N, n \in S PROVE n + 1 \in S
  <2>1. n + 1 \in 0..N
    BY <1>1, <1>4
  <2>2. ASSUME NEW q \in B, N - (n + 1) <= q PROVE Tiled(g[q], t, row, q, columns)
    <3>1. CASE N - n <= q
      BY <1>4, <2>2, <3>1
    <3>2. CASE ~(N - n <= q)
      <4>1. q < N /\ q # N /\ N - n = q + 1 /\ q \in Nat
        BY <1>1, <1>4, <2>2, <3>2
      <4>2. /\ end(q) \in B /\ q < end(q) /\ q <= end(q)
            /\ ColumnsIn(t, q, end(q)) <= columns
        BY <4>1, FitEndRight DEF N
      <4>3. N - n <= end(q)
        BY <1>1, <4>1, <4>2
      <4>4. Tiled(g[end(q)], t, row, end(q), columns)
        BY <1>4, <4>2, <4>3
      <4>5. Fits(Chunk(row, q, end(q)), t, row, columns)
        <5> HIDE DEF end
        <5> QED BY <1>1, <4>1, <4>2 DEF Fits, Chunk, Chunks
      <4>6. Chunk(row, q, end(q)).to = end(q) /\ Chunk(row, q, end(q)).from = q
        BY DEF Chunk
      <4>7. Tiled(<<Chunk(row, q, end(q))>> \o g[end(q)], t, row, q, columns)
        <5> DEFINE x == Chunk(row, q, end(q))
        <5> HIDE DEF x
        <5>1. Tiled(<<x>> \o g[end(q)], t, row, x.from, columns)
          <6>1. Fits(x, t, row, columns) /\ Tiled(g[end(q)], t, row, x.to, columns)
            BY <4>4, <4>5, <4>6 DEF x
          <6>2. g[end(q)] # <<>> => x.to < Len(t)
            <7>1. end(q) <= N /\ end(q) \in Nat /\ (end(q) = N => g[end(q)] = <<>>)
              BY <1>1, <1>2, <4>2
            <7> QED BY <1>1, <4>6, <7>1 DEF x, N
          <6> QED BY <6>1, <6>2, OneMore
        <5> QED BY <4>6, <5>1 DEF x
      <4> QED BY <1>2, <4>1, <4>7
    <3> QED BY <3>1, <3>2
  <2> QED BY <2>1, <2>2
<1>5. N \in S
  <2> HIDE DEF S
  <2>1. 0..N \subseteq S
    BY <1>1, <1>3, <1>4, Stepwise
  <2> QED BY <1>1, <2>1
<1>6. N - N <= p
  BY <1>1
<1> QED BY <1>5, <1>6

\* The parts of a whole line, one at least.
LEMMA LineChunksRight ==
  ASSUME NEW t, GoodLine(t), NEW row \in Nat, NEW columns \in Nat \ {0}
  PROVE  /\ Tiled(LineChunks(t, row, columns), t, row, 0, columns)
         /\ LineChunks(t, row, columns) # <<>>
<1> DEFINE Fixed(k) == Chunked(k, t, row, columns)
           g == CHOOSE k : Fixed(k)
<1>0. 0 \in Boundaries(t) /\ Len(t) \in Nat /\ Len(t) \in Boundaries(t) /\ t \in Seq(Byte)
  BY PlacesOfLine
<1>1. CASE t = <<>>
  <2>1. LineChunks(t, row, columns) = <<Chunk(row, 0, 0)>>
    BY <1>1 DEF LineChunks
  <2>2. Len(t) = 0
    BY <1>1, NoBytes
  <2>3. ColumnsIn(t, 0, 0) = 0
    BY ColumnsRight
  <2>4. Fits(Chunk(row, 0, 0), t, row, columns)
    BY <1>0, <2>2, <2>3 DEF Fits, Chunk, Chunks
  <2> DEFINE x == Chunk(row, 0, 0)
             s == <<x>>
  <2>5. x \in Chunks /\ x.from = 0 /\ x.to = 0
    BY DEF Chunk, Chunks
  <2>6. Fits(x, t, row, columns)
    BY <2>4
  <2> HIDE DEF x
  <2>7. s \in Seq(Chunks) /\ Len(s) = 1 /\ s[1] = x /\ s # <<>>
    BY <2>5
  <2>8. Tiled(s, t, row, 0, columns)
    <3> HIDE DEF s
    <3> QED BY <2>2, <2>5, <2>6, <2>7 DEF Tiled
  <2> QED BY <2>1, <2>7, <2>8 DEF x
<1>2. CASE t # <<>>
  <2>1. LineChunks(t, row, columns) = g[0]
    BY <1>2 DEF LineChunks, Chunked
  <2>2. \E k : Fixed(k)
    BY ChunkedExists
  <2>3. Fixed(g)
    <3> HIDE DEF Fixed
    <3> QED BY <2>2
  <2> HIDE DEF g
  <2>4. Chunked(g, t, row, columns)
    BY <2>3
  <2>5. Tiled(g[0], t, row, 0, columns)
    BY <1>0, <2>4, ChunkedTiles
  <2>6. Len(t) # 0
    BY <1>0, <1>2, EmptySeq
  <2>7. g[0] # <<>>
    BY <2>5, <2>6 DEF Tiled
  <2> QED BY <2>1, <2>5, <2>7
<1> QED BY <1>1, <1>2

-----------------------------------------------------------------------------
\* Whatever row of the screen follows another one.
Follows(x, y, b) ==
  \/ y.row = x.row /\ x.to = y.from /\ x.to < Len(Line(b, x.row))
  \/ y.row = x.row + 1 /\ x.to = Len(Line(b, x.row)) /\ y.from = 0

\* The rows of the screen for the first lines of a buffer.
Walked(s, b, n, columns) ==
  /\ s \in Seq(Chunks)
  /\ \A i \in 1..Len(s) : s[i].row < n /\ Fits(s[i], Line(b, s[i].row), s[i].row, columns)
  /\ n > 0 => /\ s # <<>> /\ s[1].row = 0 /\ s[1].from = 0
              /\ s[Len(s)].row = n - 1 /\ s[Len(s)].to = Len(Line(b, n - 1))
  /\ \A i \in 1..(Len(s) - 1) : Follows(s[i], s[i + 1], b)
  /\ \A row \in 0..(n - 1) :
       \E i \in 1..Len(s) : s[i].row = row /\ s[i].to = Len(Line(b, row))

\* The visual rows of one more line go on where those before end.
LEMMA OneLineMore ==
  ASSUME NEW b, NEW n \in Nat, NEW columns,
         NEW s, Walked(s, b, n, columns), n = 0 => s = <<>>,
         NEW t, Tiled(t, Line(b, n), n, 0, columns), t # <<>>
  PROVE  Walked(s \o t, b, n + 1, columns)
<1> DEFINE u == s \o t
           k == Len(s)
           m == Len(t)
<1>1. s \in Seq(Chunks) /\ t \in Seq(Chunks) /\ k \in Nat /\ m \in Nat \ {0}
  BY LenProperties, EmptySeq DEF Walked, Tiled
<1>2. /\ u \in Seq(Chunks) /\ Len(u) = k + m /\ \A i \in 1..k : u[i] = s[i]
      /\ \A j \in 1..m : u[k + j] = t[j]
  <2>1. /\ u \in Seq(Chunks) /\ Len(u) = k + m
        /\ \A i \in 1..(k + m) : u[i] = IF i <= k THEN s[i] ELSE t[i - k]
    BY <1>1, ConcatProperties
  <2>2. \A i \in 1..k : i \in 1..(k + m) /\ i <= k
    BY <1>1
  <2>3. ASSUME NEW j \in 1..m PROVE u[k + j] = t[j]
    <3>1. PICK i : i = k + j
      OBVIOUS
    <3>2. i \in 1..(k + m) /\ ~(i <= k) /\ i - k = j
      BY <1>1, <3>1
    <3> QED BY <2>1, <3>1, <3>2
  <2> QED BY <2>1, <2>2, <2>3
<1>3. \A i \in 1..(k + m) : i \in 1..k \/ \E j \in 1..m : i = k + j
  <2>1. ASSUME NEW i \in 1..(k + m), i \notin 1..k PROVE \E j \in 1..m : i = k + j
    <3>1. i - k \in 1..m /\ i = k + (i - k)
      BY <1>1, <2>1
    <3> QED BY <3>1
  <2> QED BY <2>1
<1> HIDE DEF u, k, m
<1>4. /\ \A j \in 1..m : t[j] \in Chunks /\ t[j].row = n /\ Fits(t[j], Line(b, n), n, columns)
      /\ t[1].from = 0 /\ t[m].to = Len(Line(b, n))
      /\ \A j \in 1..(m - 1) : t[j].to = t[j + 1].from /\ t[j].to < Len(Line(b, n))
  BY DEF Tiled, Fits, m
<1>5. \A i \in 1..k : s[i] \in Chunks /\ s[i].row \in Nat
  BY DEF Walked, Fits, Chunks, k
<1>6. ASSUME NEW i \in 1..Len(u)
      PROVE  u[i].row < n + 1 /\ Fits(u[i], Line(b, u[i].row), u[i].row, columns)
  <2>1. CASE i \in 1..k
    <3>1. s[i].row < n /\ Fits(s[i], Line(b, s[i].row), s[i].row, columns)
      BY <2>1 DEF Walked, k
    <3> QED BY <1>2, <1>5, <2>1, <3>1
  <2>2. CASE \E j \in 1..m : i = k + j
    <3>1. PICK j \in 1..m : i = k + j
      BY <2>2
    <3>2. u[i] = t[j]
      BY <1>2, <3>1
    <3> QED BY <1>4, <3>2
  <2> QED BY <1>2, <1>3, <2>1, <2>2
<1>7. /\ u # <<>> /\ u[1].row = 0 /\ u[1].from = 0
      /\ u[Len(u)].row = n + 1 - 1 /\ u[Len(u)].to = Len(Line(b, n + 1 - 1))
  <2>1. u # <<>>
    BY <1>1, <1>2, EmptySeq
  <2>2. u[Len(u)] = t[m] /\ t[m].row = n /\ t[m].to = Len(Line(b, n)) /\ n + 1 - 1 = n
    BY <1>1, <1>2, <1>4
  <2>3. u[1].row = 0 /\ u[1].from = 0
    <3>1. CASE n = 0
      <4>1. k = 0
        BY <3>1, EmptySeq DEF k
      <4>2. u[1] = t[1]
        BY <1>1, <1>2, <4>1
      <4> QED BY <1>1, <1>4, <3>1, <4>2
    <3>2. CASE n # 0
      <4>1. s # <<>> /\ s[1].row = 0 /\ s[1].from = 0
        BY <3>2 DEF Walked
      <4>2. k # 0
        BY <1>1, <4>1, EmptySeq DEF k
      <4>3. u[1] = s[1]
        BY <1>1, <1>2, <4>2
      <4> QED BY <4>1, <4>3
    <3> QED BY <3>1, <3>2
  <2> QED BY <2>1, <2>2, <2>3
<1>8. ASSUME NEW i \in 1..(Len(u) - 1) PROVE Follows(u[i], u[i + 1], b)
  <2>1. CASE i \in 1..(k - 1)
    <3>1. Follows(s[i], s[i + 1], b)
      BY <2>1 DEF Walked, k
    <3>2. i \in 1..k /\ i + 1 \in 1..k
      BY <1>1, <2>1
    <3> QED BY <1>2, <3>1, <3>2
  <2>2. CASE i = k
    <3>1. k # 0 /\ u[i] = s[k] /\ u[i + 1] = t[1] /\ t[1].row = n /\ t[1].from = 0
      <4>1. k \in 1..k /\ 1 \in 1..m
        BY <1>1, <2>2
      <4> QED BY <1>2, <1>4, <2>2, <4>1
    <3>2. n > 0
      <4>1. s # <<>>
        BY <1>1, <3>1, EmptySeq DEF k
      <4> QED BY <4>1
    <3>3. s[k].row = n - 1 /\ s[k].to = Len(Line(b, n - 1))
      BY <3>2 DEF Walked, k
    <3>4. (n - 1) + 1 = n
      OBVIOUS
    <3> QED BY <3>1, <3>3, <3>4 DEF Follows
  <2>3. CASE i \in (k + 1)..(k + m - 1)
    <3>1. PICK j \in 1..(m - 1) : i = k + j
      <4>1. i - k \in 1..(m - 1) /\ i = k + (i - k)
        BY <1>1, <2>3
      <4> QED BY <4>1
    <3>2. PICK l \in 1..m : l = j + 1 /\ i + 1 = k + l
      BY <1>1, <3>1
    <3>3. u[k + j] = t[j] /\ u[k + l] = t[l] /\ j \in 1..m
      BY <1>1, <1>2
    <3>4. t[j].to = t[l].from /\ t[j].to < Len(Line(b, n))
      BY <1>4, <3>2
    <3> QED BY <1>4, <3>1, <3>2, <3>3, <3>4 DEF Follows
  <2>4. i \in 1..(k - 1) \/ i = k \/ i \in (k + 1)..(k + m - 1)
    BY <1>1, <1>2
  <2> QED BY <2>1, <2>2, <2>3, <2>4
<1>9. ASSUME NEW row \in 0..(n + 1 - 1)
      PROVE  \E i \in 1..Len(u) : u[i].row = row /\ u[i].to = Len(Line(b, row))
  <2>1. CASE row = n
    <3>1. k + m \in 1..Len(u) /\ m \in 1..m
      BY <1>1, <1>2
    <3>2. u[k + m] = t[m]
      BY <1>2, <3>1
    <3> QED BY <1>4, <2>1, <3>1, <3>2
  <2>2. CASE row # n
    <3>1. row \in 0..(n - 1)
      BY <2>2
    <3>2. PICK i \in 1..k : s[i].row = row /\ s[i].to = Len(Line(b, row))
      BY <3>1 DEF Walked, k
    <3>3. i \in 1..Len(u) /\ u[i] = s[i]
      BY <1>1, <1>2
    <3> QED BY <3>2, <3>3
  <2> QED BY <2>1, <2>2
<1>10. Walked(u, b, n + 1, columns)
  BY <1>2, <1>6, <1>7, <1>8, <1>9 DEF Walked
<1> QED BY <1>10 DEF u

-----------------------------------------------------------------------------
\* The rows of the screen for a whole buffer.
LEMMA VisualRowsRight ==
  ASSUME NEW b, Sound(b), NEW columns \in Nat \ {0}
  PROVE  Walked(VisualRows(b, columns), b, Len(b.lines), columns)
<1> DEFINE L    == Len(b.lines)
           seqs == [i \in DOMAIN b.lines |-> LineChunks(b.lines[i], i - 1, columns)]
<1>1. /\ L \in Nat \ {0} /\ DOMAIN b.lines = 1..L
      /\ \A n \in 0..(L - 1) : GoodLine(Line(b, n)) /\ Line(b, n) = b.lines[n + 1]
  <2>1. b.lines \in Rows /\ L \in Nat \ {0} /\ LastRow(b) = L - 1
    BY SoundRows, RowsRight
  <2>2. b.lines \in Seq(Seq(Byte))
    BY <2>1 DEF Rows
  <2> QED BY <2>1, <2>2, SoundRows, LenProperties
<1> DEFINE part(n) == LineChunks(Line(b, n), n, columns)
<1>2. ASSUME NEW n \in 0..(L - 1)
      PROVE  /\ Tiled(part(n), Line(b, n), n, 0, columns) /\ part(n) # <<>>
             /\ part(n) \in Seq(Chunks)
  <2>1. n \in Nat /\ GoodLine(Line(b, n))
    BY <1>1
  <2>2. Tiled(part(n), Line(b, n), n, 0, columns) /\ part(n) # <<>>
    BY <2>1, LineChunksRight
  <2> QED BY <2>2 DEF Tiled
<1>3. /\ seqs \in Seq(Seq(Chunks)) /\ Len(seqs) = L
      /\ \A n \in 0..(L - 1) : seqs[n + 1] = part(n)
  <2>1. ASSUME NEW i \in 1..L PROVE seqs[i] = part(i - 1) /\ part(i - 1) \in Seq(Chunks)
    <3>1. PICK n \in 0..(L - 1) : n = i - 1 /\ n + 1 = i
      BY <1>1
    <3>2. Line(b, n) = b.lines[i] /\ part(n) \in Seq(Chunks)
      BY <1>1, <1>2, <3>1
    <3>3. seqs[i] = LineChunks(b.lines[i], i - 1, columns)
      BY <1>1
    <3> QED BY <3>1, <3>2, <3>3
  <2> HIDE DEF part
  <2>2. DOMAIN seqs = 1..L /\ seqs = [i \in 1..L |-> seqs[i]]
    BY <1>1
  <2> HIDE DEF seqs, L
  <2>3. seqs \in [1..L -> Seq(Chunks)]
    BY <2>1, <2>2
  <2>4. seqs \in Seq(Seq(Chunks))
    BY <1>1, <2>3, SeqDef
  <2>5. Len(seqs) = L
    BY <1>1, <2>2, <2>4, LenProperties
  <2>6. ASSUME NEW n \in 0..(L - 1) PROVE seqs[n + 1] = part(n)
    <3>1. PICK i \in 1..L : i = n + 1 /\ i - 1 = n
      BY <1>1
    <3> QED BY <2>1, <3>1
  <2> QED BY <2>4, <2>5, <2>6
<1>4. VisualRows(b, columns) = FlattenSeq(seqs)
  BY DEF VisualRows
<1> HIDE DEF seqs, L, part
<1>5. PICK f : Flats(f, seqs, Chunks)
  BY <1>3, FlatsExist
<1>6. VisualRows(b, columns) = f[L]
  BY <1>3, <1>4, <1>5, FlattenIs
<1>7. f[0] = <<>> /\ \A i \in 1..L : f[i] = f[i - 1] \o seqs[i]
  BY <1>3, <1>5 DEF Flats
<1> DEFINE S == {n \in 0..L : Walked(f[n], b, n, columns) /\ (n = 0 => f[n] = <<>>)}
<1>8. 0 \in S
  <2>1. Len(<<>>) = 0 /\ <<>> \in Seq(Chunks)
    BY EmptySeq
  <2>2. Walked(<<>>, b, 0, columns)
    BY <2>1 DEF Walked
  <2> QED BY <1>1, <1>7, <2>2
<1>9. ASSUME NEW n \in 0..L, n < L, n \in S PROVE n + 1 \in S
  <2>1. n \in 0..(L - 1) /\ n \in Nat /\ n + 1 \in 0..L /\ n + 1 # 0
    BY <1>1, <1>9
  <2>2. PICK i \in 1..L : i = n + 1 /\ i - 1 = n
    BY <1>1, <2>1
  <2>3. f[i] = f[i - 1] \o seqs[i]
    BY <1>7
  <2>4. f[n + 1] = f[n] \o part(n)
    BY <1>3, <2>1, <2>2, <2>3
  <2> DEFINE s == f[n]
             t == part(n)
  <2>5. Walked(s, b, n, columns) /\ (n = 0 => s = <<>>)
    BY <1>9
  <2>6. Tiled(t, Line(b, n), n, 0, columns) /\ t # <<>>
    BY <1>2, <2>1
  <2> HIDE DEF s, t
  <2>7. Walked(s \o t, b, n + 1, columns)
    BY <2>1, <2>5, <2>6, OneLineMore
  <2> QED BY <2>1, <2>4, <2>7 DEF s, t
<1>10. L \in S
  <2> HIDE DEF S
  <2>1. 0..L \subseteq S
    BY <1>1, <1>8, <1>9, Stepwise
  <2> QED BY <1>1, <2>1
<1> QED BY <1>6, <1>10 DEF L

\* The part of a line between two places, and its places.
LEMMA MiddleRight ==
  ASSUME NEW t, GoodLine(t), NEW from \in Boundaries(t), NEW to \in Boundaries(t), from <= to
  PROVE  /\ GoodLine(SubSeq(t, from + 1, to)) /\ Len(SubSeq(t, from + 1, to)) = to - from
         /\ \A p \in Boundaries(SubSeq(t, from + 1, to)) : from + p \in Boundaries(t)
<1> DEFINE head == SubSeq(t, 1, from)
           u    == SubSeq(t, from + 1, Len(t))
           part == SubSeq(t, from + 1, to)
           rest == SubSeq(t, to + 1, Len(t))
<1>1. /\ t \in Seq(Byte) /\ t \in Seq(Glyph) /\ TextOK(t) /\ Len(t) \in Nat
      /\ from \in 0..Len(t) /\ to \in 0..Len(t) /\ from \in Nat /\ to \in Nat
      /\ \A p : p \in Boundaries(t) <=> AtBoundary(t, p)
  <2>1. /\ t \in Seq(Byte) /\ t \in Seq(Glyph) /\ TextOK(t) /\ Len(t) \in Nat
        /\ Boundaries(t) \subseteq 0..Len(t) /\ \A p : p \in Boundaries(t) <=> AtBoundary(t, p)
    BY PlacesOfLine
  <2> QED BY <2>1
<1>2. head \in Seq(Glyph) /\ Len(head) = from /\ u \in Seq(Glyph) /\ head \o u = t
  BY <1>1, CutRight
<1>3. TextOK(u)
  BY <1>1, CutText
<1>4. part \in Seq(Byte) /\ Len(part) = to - from
  <2>1. from + 1 \in Int /\ to \in Int /\ \A i \in (from + 1)..to : t[i] \in Byte
    <3>1. \A i \in 1..Len(t) : t[i] \in Byte
      BY <1>1, ElementOfSeq
    <3>2. \A i \in (from + 1)..to : i \in 1..Len(t)
      BY <1>1
    <3> QED BY <1>1, <3>1, <3>2
  <2>2. /\ part \in Seq(Byte)
        /\ Len(part) = IF from + 1 <= to THEN to - (from + 1) + 1 ELSE 0
    BY <2>1, SubSeqProperties
  <2> HIDE DEF part
  <2> QED BY <1>1, <2>2
<1>5. part \in Seq(Glyph)
  BY <1>4, LineIsText
<1>6. rest \in Seq(Glyph)
  BY <1>1, CutRight
<1>7. part \o rest = u
  <2>1. PICK m : m = from + 1
    OBVIOUS
  <2>2. m \in 1..(Len(t) + 1) /\ to \in (m - 1)..Len(t) /\ Len(t) \in to..Len(t)
    BY <1>1, <2>1
  <2>3. SubSeq(t, m, to) \o SubSeq(t, to + 1, Len(t)) = SubSeq(t, m, Len(t))
    BY <1>1, <2>2, ConcatAdjacentSubSeq
  <2> QED BY <2>1, <2>3
<1> HIDE DEF head, u, part, rest
<1>8. \A p \in 0..Len(u) : AtBoundary(t, from + p) <=> AtBoundary(u, p)
  <2>1. \A p \in 0..Len(u) : AtBoundary(head \o u, Len(head) + p) <=> AtBoundary(u, p)
    BY <1>2, BoundaryParts
  <2> QED BY <1>2, <2>1
<1>9. \A p \in 0..(Len(part) - 1) : AtBoundary(u, p) <=> AtBoundary(part, p)
  <2>1. \A p \in 0..(Len(part) - 1) : AtBoundary(part \o rest, p) <=> AtBoundary(part, p)
    BY <1>5, <1>6, BoundaryParts
  <2> QED BY <1>7, <2>1
<1>10. Len(u) \in Nat /\ Len(part) <= Len(u) /\ Len(part) \in Nat
  <2>1. Len(part \o rest) = Len(part) + Len(rest) /\ Len(part) \in Nat /\ Len(rest) \in Nat
    BY <1>5, <1>6, Parts
  <2> QED BY <1>7, <2>1
<1>11. Len(part) \in Boundaries(u)
  <2>1. AtBoundary(t, from + Len(part))
    <3>1. from + Len(part) = to
      BY <1>1, <1>4
    <3> QED BY <1>1, <3>1
  <2>2. Len(part) \in 0..Len(u)
    BY <1>10
  <2>3. AtBoundary(u, Len(part))
    BY <1>8, <2>1, <2>2
  <2> QED BY <1>2, <2>3, BoundaryIs
<1>12. TextOK(part)
  <2>1. TextOK(part \o rest) /\ Len(part) \in Boundaries(part \o rest)
    BY <1>3, <1>7, <1>11
  <2> QED BY <1>5, <1>6, <2>1, TextCut
<1>13. ASSUME NEW p \in Boundaries(part) PROVE from + p \in Boundaries(t)
  <2>1. AtBoundary(part, p) /\ p \in 0..Len(part)
    BY <1>5, BoundaryIs DEF AtBoundary
  <2>2. CASE p = Len(part)
    <3>1. from + p = to
      BY <1>1, <1>4, <2>2
    <3> QED BY <3>1
  <2>3. CASE p # Len(part)
    <3>1. p \in 0..(Len(part) - 1) /\ p \in 0..Len(u)
      BY <1>10, <2>1, <2>3
    <3>2. AtBoundary(t, from + p)
      BY <1>8, <1>9, <2>1, <3>1
    <3> QED BY <1>1, <3>2
  <2> QED BY <2>2, <2>3
<1> QED BY <1>4, <1>12, <1>13 DEF GoodLine, part

-----------------------------------------------------------------------------
\* The row of the screen of the cursor is one of its line, around the cursor.
LEMMA CursorVisualRight ==
  ASSUME NEW b, Good(b), NEW columns \in Nat \ {0}
  PROVE  /\ CursorVisual(b, columns) \in 1..Len(VisualRows(b, columns))
         /\ VisualRows(b, columns)[CursorVisual(b, columns)].row = b.at.row
         /\ VisualRows(b, columns)[CursorVisual(b, columns)].from <= b.at.col
         /\ b.at.col <= VisualRows(b, columns)[CursorVisual(b, columns)].to
<1> DEFINE rows == VisualRows(b, columns)
           len  == Len(Line(b, b.at.row))
           S == {i \in 1..Len(rows) :
                   rows[i].row = b.at.row /\ (b.at.col < rows[i].to \/ rows[i].to = len)}
           v == CursorVisual(b, columns)
<1>1. /\ b.at.row \in 0..(Len(b.lines) - 1) /\ b.at.row \in Nat /\ b.at.col \in Nat
      /\ b.at.col <= len /\ len \in Nat
  BY HereRight
<1>2. Walked(rows, b, Len(b.lines), columns)
  BY GoodParts, VisualRowsRight
<1>3. rows \in Seq(Chunks) /\ Len(rows) \in Nat /\ DOMAIN rows = 1..Len(rows)
  BY <1>2, LenProperties DEF Walked
<1>4. v = Min(S)
  BY <1>3 DEF CursorVisual
<1>5. S # {}
  <2>1. PICK i \in 1..Len(rows) : rows[i].row = b.at.row /\ rows[i].to = len
    BY <1>1, <1>2 DEF Walked
  <2> QED BY <2>1
<1>6. S \in SUBSET Nat
  BY <1>3
<1>7. v \in S /\ \A i \in S : v <= i
  <2> HIDE DEF S
  <2> QED BY <1>4, <1>5, <1>6, MinRight
<1> HIDE DEF v
<1>8. /\ v \in 1..Len(rows) /\ rows[v].row = b.at.row
      /\ (b.at.col < rows[v].to \/ rows[v].to = len)
  BY <1>7
<1>9. \A i \in 1..Len(rows) : rows[i] \in Chunks
  BY <1>2 DEF Walked, Fits
<1>10. b.at.col <= rows[v].to
  BY <1>1, <1>8, <1>9 DEF Chunks
<1>11. rows[v].from <= b.at.col
  <2>1. CASE v = 1
    <3>1. b.lines # <<>> /\ Len(b.lines) > 0
      BY <1>1
    <3>2. rows[1].from = 0
      BY <1>2, <3>1 DEF Walked
    <3> QED BY <1>1, <2>1, <3>2
  <2>2. CASE v # 1
    <3>1. PICK u \in 1..(Len(rows) - 1) : v = u + 1
      <4>1. v - 1 \in 1..(Len(rows) - 1) /\ v = (v - 1) + 1
        BY <1>3, <1>8, <2>2
      <4> QED BY <4>1
    <3>2. Follows(rows[u], rows[v], b) /\ u \in 1..Len(rows) /\ u < v
      <4>1. Follows(rows[u], rows[u + 1], b)
        BY <1>2 DEF Walked
      <4> QED BY <1>3, <3>1, <4>1
    <3>3. u \notin S
      BY <1>3, <1>7, <3>1, <3>2
    <3>4. CASE rows[v].row = rows[u].row /\ rows[u].to = rows[v].from
      <4>1. ~(b.at.col < rows[u].to)
        BY <1>8, <3>2, <3>3, <3>4
      <4>2. rows[u].to \in Nat
        BY <1>9, <3>2 DEF Chunks
      <4> QED BY <1>1, <3>4, <4>1, <4>2
    <3>5. CASE rows[v].from = 0
      BY <1>1, <3>5
    <3> QED BY <3>2, <3>4, <3>5 DEF Follows
  <2> QED BY <2>1, <2>2
<1> QED BY <1>8, <1>10, <1>11 DEF v

\* Up and down on the screen lead to a place.
LEMMA MoveWrappedGood ==
  ASSUME NEW b, Good(b), NEW columns \in Nat \ {0}, NEW down \in BOOLEAN
  PROVE  MoveWrapped(b, columns, down) \in Places /\ IsPlace(b, MoveWrapped(b, columns, down))
<1> DEFINE rows    == VisualRows(b, columns)
           here    == CursorVisual(b, columns)
           there   == IF down THEN here + 1 ELSE here - 1
           target  == rows[there]
           line    == Line(b, target.row)
           part    == SubSeq(line, target.from + 1, target.to)
           desired == ColumnsIn(Line(b, b.at.row), rows[here].from, b.at.col)
           col     == target.from + PrefixBytes(part, desired)
           inner   == target.to < Len(line) /\ col >= target.to /\ target.to > target.from
           to      == IF inner THEN PrevChar(line, target.to) ELSE col
<1>1. Walked(rows, b, Len(b.lines), columns) /\ Sound(b) /\ LastRow(b) = Len(b.lines) - 1
  BY GoodParts, VisualRowsRight, SoundRows
<1>2. DOMAIN rows = 1..Len(rows)
  BY <1>1, LenProperties DEF Walked
<1>3. MoveWrapped(b, columns, down) = IF there \notin 1..Len(rows) THEN b.at
                                      ELSE Pos(target.row, to)
  BY <1>2 DEF MoveWrapped
<1>4. CASE there \notin 1..Len(rows)
  BY <1>3, <1>4, GoodParts
<1>5. CASE there \in 1..Len(rows)
  <2>1. here \in 1..Len(rows) /\ b.at.col \in Nat
    BY HereRight, CursorVisualRight
  <2> HIDE DEF there, rows, here
  <2>2. rows[here].from \in Nat
    BY <1>1, <2>1 DEF Walked, Fits, Chunks
  <2>3. desired \in Nat
    BY <2>1, <2>2, ColumnsRight
  <2>4. target.row < Len(b.lines) /\ Fits(target, line, target.row, columns)
    BY <1>1, <1>5 DEF Walked
  <2> HIDE DEF target, desired
  <2>5. target.row \in 0..LastRow(b) /\ target.from \in Nat
    <3>1. target.row \in Nat /\ target.from \in Nat
      BY <2>4 DEF Fits, Chunks
    <3>2. Len(b.lines) \in Nat
      BY <1>1, RowsRight, SoundRows
    <3> QED BY <1>1, <2>4, <3>1, <3>2
  <2>6. GoodLine(line)
    BY <1>1, <2>5, SoundRows
  <2> HIDE DEF line
  <2>7. target.from \in Boundaries(line) /\ target.to \in Boundaries(line)
        /\ target.from <= target.to
    BY <2>4 DEF Fits
  <2>8. GoodLine(part) /\ \A p \in Boundaries(part) : target.from + p \in Boundaries(line)
    BY <2>6, <2>7, MiddleRight
  <2> HIDE DEF part
  <2>9. PrefixBytes(part, desired) \in Boundaries(part)
    BY <2>3, <2>8, PrefixBytesRight
  <2>10. col \in Boundaries(line)
    BY <2>8, <2>9
  <2>11. PrevChar(line, target.to) \in Boundaries(line)
    BY <2>6, <2>7, PrevCharRight
  <2> HIDE DEF col, inner
  <2>12. to \in Boundaries(line)
    BY <2>10, <2>11
  <2> HIDE DEF to
  <2>13. Pos(target.row, to) \in Places /\ IsPlace(b, Pos(target.row, to))
    BY <1>1, <2>5, <2>12, InRow DEF line
  <2> QED BY <1>3, <1>5, <2>13
<1> QED BY <1>4, <1>5

-----------------------------------------------------------------------------
(***************************************************************************)
(* The inductive invariant: the buffer and the query are good.             *)
(***************************************************************************)
IInv == Good(buffer) /\ FieldGood(field) /\ searching \in BOOLEAN

\* What an edit can insert: a character, a line end, a text that was copied,
\* and nothing where a selection is erased.
Insertable == {<<c>> : c \in Symbol} \cup Pastes \cup {<<>>}

\* Everything that a step can do to the buffer.
Typed(b, d)  == \E new : TextOK(new) /\ Characters(new) \in Insertable /\ Inserted(b, d, new)
Loaded(b, d) == Good(d) /\ ~HasSelection(d) /\ Characters(ToText(d)) \in Texts
Did(b, d) ==
  \/ Typed(b, d) \/ ErasedBefore(b, d) \/ ErasedAfter(b, d) \/ ErasedRest(b, d)
  \/ Moved(b, d) \/ Loaded(b, d)

\* Whatever is done, the buffer stays good.
LEMMA DidGood ==
  ASSUME NEW b, Good(b), NEW d, Did(b, d)
  PROVE  Good(d)
<1>1. ASSUME NEW new, Inserted(b, d, new) PROVE Good(d)
  <2>1. CASE d = Quiet(b.lines, b.at)
    <3>1. Sound(b) /\ b.at \in Places /\ IsPlace(b, b.at)
      BY GoodParts
    <3>2. Good(Quiet(b.lines, b.at))
      BY <3>1, QuietIsGood
    <3> QED BY <2>1, <3>2
  <2>2. CASE Edited(b, d, Offset(b, Selected(b).from), Offset(b, Selected(b).to), new)
    BY <2>2 DEF Edited
  <2> QED BY <1>1, <2>1, <2>2 DEF Inserted
<1>2. Typed(b, d) => Good(d)
  BY <1>1 DEF Typed
<1>3. ErasedBefore(b, d) \/ ErasedAfter(b, d) \/ ErasedRest(b, d) => Good(d)
  BY DEF ErasedBefore, ErasedAfter, ErasedRest, Edited
<1> QED BY <1>2, <1>3 DEF Did, Moved, Loaded

\* One step, by the action it is of.
LEMMA TypeDoes ==
  ASSUME IInv, NEW c \in Chars, Type(c)
  PROVE  Did(buffer, buffer') /\ UNCHANGED <<field, searching>>
<1>1. PICK m \in BOOLEAN : buffer' = InsertChar(buffer, c, m).buffer
  BY DEF Type, Edit
<1>2. Inserted(buffer, InsertChar(buffer, c, m).buffer, Encode(c))
  BY InsertCharDoes DEF IInv
<1>3. TextOK(Encode(c)) /\ Characters(Encode(c)) \in Insertable
  BY EncodeRight DEF Insertable, Symbol
<1>4. Typed(buffer, buffer')
  BY <1>1, <1>2, <1>3 DEF Typed
<1> QED BY <1>4 DEF Did, Type, Edit

\* The enter key,
LEMMA EnterDoes ==
  ASSUME IInv, Enter
  PROVE  Did(buffer, buffer') /\ UNCHANGED <<field, searching>>
<1>1. PICK m \in BOOLEAN : buffer' = InsertNewline(buffer, m).buffer
  BY DEF Enter, Edit
<1>2. Inserted(buffer, InsertNewline(buffer, m).buffer, <<NewLine>>)
  BY InsertNewlineDoes DEF IInv
<1>3. TextOK(<<NewLine>>) /\ Characters(<<NewLine>>) \in Insertable
  BY LineEndRight, LineEndCharacter DEF Insertable, Symbol
<1>4. Typed(buffer, buffer')
  BY <1>1, <1>2, <1>3 DEF Typed
<1> QED BY <1>4 DEF Did, Enter, Edit

\* Erasing a selection inserts nothing.
LEMMA NothingIsTyped ==
  ASSUME NEW b, NEW d, Inserted(b, d, <<>>)
  PROVE  Did(b, d)
<1>1. TextOK(<<>>) /\ Characters(<<>>) \in Insertable
  BY NoBytes, NoCharacters DEF Insertable
<1>2. Typed(b, d)
  BY <1>1 DEF Typed
<1> QED BY <1>2 DEF Did

\* the keys that erase, which may have nothing to insert,
LEMMA EraseDoes ==
  ASSUME IInv, Backspace \/ Delete \/ Kill \/ Cut
  PROVE  Did(buffer, buffer') /\ UNCHANGED <<field, searching>>
<1>1. Good(buffer) /\ UNCHANGED <<field, searching>>
  BY DEF IInv, Backspace, Delete, Kill, Cut, Edit
<1>2. CASE Backspace
  <2>1. PICK m \in BOOLEAN : buffer' = DeleteBackward(buffer, m).buffer
    BY <1>2 DEF Backspace, Edit
  <2>2. Inserted(buffer, buffer', <<>>) \/ ErasedBefore(buffer, buffer')
    BY <1>1, <2>1, DeleteBackwardDoes
  <2> QED BY <1>1, <2>2, NothingIsTyped DEF Did
<1>3. CASE Delete
  <2>1. PICK m \in BOOLEAN : buffer' = DeleteForward(buffer, m).buffer
    BY <1>3 DEF Delete, Edit
  <2>2. Inserted(buffer, buffer', <<>>) \/ ErasedAfter(buffer, buffer')
    BY <1>1, <2>1, DeleteForwardDoes
  <2> QED BY <1>1, <2>2, NothingIsTyped DEF Did
<1>4. CASE Kill
  <2>1. PICK m \in BOOLEAN : buffer' = KillToEnd(buffer, m).buffer
    BY <1>4 DEF Kill, Edit
  <2>2. Inserted(buffer, buffer', <<>>) \/ ErasedRest(buffer, buffer')
    BY <1>1, <2>1, KillDoes
  <2> QED BY <1>1, <2>2, NothingIsTyped DEF Did
<1>5. CASE Cut
  <2>1. PICK m \in BOOLEAN : buffer' = DeleteSelection(buffer, m).buffer
    BY <1>5 DEF Cut, Edit
  <2>2. Inserted(buffer, buffer', <<>>)
    BY <1>1, <2>1, DeleteSelectionDoes
  <2> QED BY <1>1, <2>2, NothingIsTyped
<1> QED BY <1>2, <1>3, <1>4, <1>5

\* a paste,
LEMMA PasteDoes ==
  ASSUME IInv, NEW text \in Pastes, Paste(text)
  PROVE  Did(buffer, buffer') /\ UNCHANGED <<field, searching>>
<1>1. PICK m \in BOOLEAN : buffer' = InsertText(buffer, Document(text), m).buffer
  BY DEF Paste, Edit
<1>2. TextOK(Document(text)) /\ Characters(Document(text)) \in Insertable
  BY TextsRight, DocumentRight DEF Insertable
<1>3. Inserted(buffer, InsertText(buffer, Document(text), m).buffer, Document(text))
  BY <1>2, InsertTextDoes DEF IInv
<1>4. Typed(buffer, buffer')
  BY <1>1, <1>2, <1>3 DEF Typed
<1> QED BY <1>4 DEF Did, Paste, Edit

\* Keys that move.
LEMMA MovesDo ==
  ASSUME IInv,
         \/ \E shift \in BOOLEAN : MoveKey(shift)
         \/ \E shift, down \in BOOLEAN, size \in Sizes : MoveWrappedKey(shift, size.columns, down)
         \/ Everything \/ Escape
  PROVE  Did(buffer, buffer') /\ UNCHANGED <<field, searching>>
<1>1. Good(buffer) /\ UNCHANGED <<field, searching>>
  BY DEF IInv, MoveKey, MoveWrappedKey, Everything, Escape, Go
<1>2. CASE \E shift \in BOOLEAN : MoveKey(shift)
  <2>1. PICK shift \in BOOLEAN, to \in Moves(buffer) : buffer' = Move(buffer, shift, to)
    BY <1>2 DEF MoveKey, Go
  <2>2. to \in Places /\ IsPlace(buffer, to)
    BY <1>1, MovesGood
  <2>3. Moved(buffer, buffer')
    BY <1>1, <2>1, <2>2, MoveGood
  <2> QED BY <1>1, <2>3 DEF Did
<1>3. CASE \E shift, down \in BOOLEAN, size \in Sizes : MoveWrappedKey(shift, size.columns, down)
  <2>1. PICK shift \in BOOLEAN, down \in BOOLEAN, size \in Sizes :
          buffer' = Move(buffer, shift, MoveWrapped(buffer, size.columns, down))
    BY <1>3 DEF MoveWrappedKey, Go
  <2>2. size.columns \in Nat \ {0}
    BY EditorAssumption
  <2> DEFINE to == MoveWrapped(buffer, size.columns, down)
  <2>3. to \in Places /\ IsPlace(buffer, to)
    BY <1>1, <2>2, MoveWrappedGood
  <2> HIDE DEF to
  <2>4. Moved(buffer, Move(buffer, shift, to))
    BY <1>1, <2>3, MoveGood
  <2> QED BY <1>1, <2>1, <2>4 DEF Did, to
<1>4. CASE Everything
  <2>1. buffer' = SelectAll(buffer)
    BY <1>4 DEF Everything, Go
  <2>2. Moved(buffer, buffer')
    BY <1>1, <2>1, SelectAllGood
  <2> QED BY <1>1, <2>2 DEF Did
<1>5. CASE Escape
  <2>1. buffer' = buffer \/ buffer' = ClearSelection(buffer)
    BY <1>5 DEF Escape, Go
  <2>2. Moved(buffer, ClearSelection(buffer)) /\ Moved(buffer, buffer)
    BY <1>1, ClearGood DEF Moved
  <2> QED BY <1>1, <2>1, <2>2 DEF Did
<1> QED BY <1>2, <1>3, <1>4, <1>5

\* and a document that is restored.
LEMMA RestoreDid ==
  ASSUME IInv, NEW text \in Texts, NEW pos \in Places, Restore(text, pos)
  PROVE  Did(buffer, buffer') /\ UNCHANGED <<field, searching>>
<1>1. /\ buffer' = SetCursor(SetText(buffer, Document(text)), pos)
      /\ UNCHANGED <<field, searching>>
  BY DEF Restore, Go
<1>2. text \in Seq(Symbol)
  BY TextsRight
<1>3. Loaded(buffer, buffer')
  BY <1>1, <1>2, RestoreDoes DEF IInv, Loaded
<1> QED BY <1>1, <1>3 DEF Did

\* Find leaves the text alone.
LEMMA FindDoes ==
  ASSUME IInv, OpenFind \/ CloseFind \/ FindKey \/ FindEnter
  PROVE  Did(buffer, buffer') /\ FieldGood(field') /\ searching' \in BOOLEAN
<1>1. Good(buffer) /\ FieldGood(field) /\ searching \in BOOLEAN
  BY DEF IInv
<1>2. Moved(buffer, buffer) /\ Moved(buffer, ClearSelection(buffer))
  BY <1>1, ClearGood DEF Moved
<1>3. FieldGood(Field!EmptyField)
  <2>1. GoodLine(<<>>) /\ 0 \in Boundaries(<<>>)
    BY NoBytes, PlacesOfLine DEF GoodLine
  <2>2. Len(<<>>) <= MaxLen
    BY NoBytes, EditorAssumption
  <2>3. FieldGood([text |-> <<>>, cursor |-> 0])
    BY <2>1, <2>2, FieldMade
  <2> QED BY <2>3 DEF Field!EmptyField
<1>4. CASE OpenFind
  BY <1>2, <1>3, <1>4 DEF OpenFind, Did
<1>5. CASE CloseFind
  BY <1>1, <1>2, <1>5 DEF CloseFind, Did
<1>6. CASE FindKey
  <2>0. PICK memory \in BOOLEAN : \E key \in Field!FieldKeys(field, memory) :
          field' = key.field /\ (buffer' = buffer \/ buffer' = ClearSelection(buffer))
    BY <1>6 DEF FindKey
  <2>1. PICK key \in Field!FieldKeys(field, memory) :
          field' = key.field /\ (buffer' = buffer \/ buffer' = ClearSelection(buffer))
    BY <2>0
  <2>2. FieldGood(field')
    BY <1>1, <2>1, KeyKeepsField
  <2>3. searching' \in BOOLEAN
    BY <1>1, <1>6 DEF FindKey
  <2> QED BY <1>2, <2>1, <2>2, <2>3 DEF Did
<1>7. CASE FindEnter
  <2> DEFINE found == FindNext(buffer, field.text, buffer.at)
  <2>1. /\ buffer' = (IF found = NoMatch THEN buffer ELSE SelectMatch(buffer, found))
        /\ UNCHANGED <<field, searching>>
    BY <1>7 DEF FindEnter, FindSelects
  <2>2. field.text \in Seq(Byte) /\ buffer.at \in Places /\ IsPlace(buffer, buffer.at)
    BY <1>1, GoodParts DEF FieldGood
  <2>3. found.row \in 0..LastRow(buffer) /\ found.from \in Nat /\ found.to \in Nat
    BY <1>1, <2>2, FoundRight
  <2> HIDE DEF found
  <2>4. Moved(buffer, SelectMatch(buffer, found))
    BY <1>1, <2>3, SelectMatchGood
  <2>5. Moved(buffer, buffer')
    BY <1>2, <2>1, <2>4
  <2> QED BY <1>1, <2>1, <2>5 DEF Did
<1> QED BY <1>4, <1>5, <1>6, <1>7

\* A step does one of these things.
LEMMA StepDoes ==
  ASSUME IInv, Next
  PROVE  Did(buffer, buffer') /\ IInv'
<1>1. Did(buffer, buffer') /\ FieldGood(field') /\ searching' \in BOOLEAN
  <2>1. ASSUME Did(buffer, buffer') /\ UNCHANGED <<field, searching>>
        PROVE  Did(buffer, buffer') /\ FieldGood(field') /\ searching' \in BOOLEAN
    BY <2>1 DEF IInv
  <2>2. CASE \E c \in Chars : Type(c)
    BY <2>1, <2>2, TypeDoes
  <2>3. CASE Enter
    BY <2>1, <2>3, EnterDoes
  <2>4. CASE Backspace \/ Delete \/ Kill \/ Cut
    BY <2>1, <2>4, EraseDoes
  <2>5. CASE \E text \in Pastes : Paste(text)
    BY <2>1, <2>5, PasteDoes
  <2>6. CASE \/ \E shift \in BOOLEAN : MoveKey(shift)
             \/ \E shift, down \in BOOLEAN, size \in Sizes :
                  MoveWrappedKey(shift, size.columns, down)
             \/ Everything \/ Escape
    BY <2>1, <2>6, MovesDo
  <2>7. CASE \E text \in Texts, row \in 0..1, col \in 0..2 : Restore(text, Pos(row, col))
    <3>1. PICK text \in Texts, row \in 0..1, col \in 0..2 : Restore(text, Pos(row, col))
      BY <2>7
    <3>2. Pos(row, col) \in Places
      BY DEF Pos, Places
    <3> QED BY <2>1, <3>1, <3>2, RestoreDid
  <2>8. CASE OpenFind \/ CloseFind \/ FindKey \/ FindEnter
    BY <2>8, FindDoes
  <2> QED BY <2>2, <2>3, <2>4, <2>5, <2>6, <2>7, <2>8 DEF Next
<1>2. Good(buffer')
  BY <1>1, DidGood DEF IInv
<1> QED BY <1>1, <1>2 DEF IInv

\* The empty buffer is good.
LEMMA EmptyIsGood ==
  /\ Good(EmptyBuffer) /\ ~HasSelection(EmptyBuffer) /\ ToText(EmptyBuffer) = <<>>
  /\ Offset(EmptyBuffer, Origin) = 0
<1> DEFINE e == Quiet(<<<<>>>>, Origin)
<1>1. EmptyBuffer = e
  BY Zenon DEF EmptyBuffer, Quiet
<1>2. <<<<>>>> \in Rows /\ Len(<<<<>>>>) = 1 /\ <<<<>>>>[1] = <<>>
  BY EmptyRows
<1>3. LinesOK(<<<<>>>>)
  BY <1>2, NoBytes DEF LinesOK
<1>4. e.lines = <<<<>>>> /\ e.at = Origin
  BY Zenon DEF Quiet
<1> HIDE DEF e
<1>5. Sound(e)
  BY <1>2, <1>3, <1>4 DEF Sound
<1>6. Origin \in Places /\ IsPlace(e, Origin) /\ Offset(e, Origin) = 0
  BY <1>5, OriginIsPlace
<1>7. Good(Quiet(e.lines, Origin)) /\ ~HasSelection(Quiet(e.lines, Origin))
  BY <1>5, <1>6, QuietIsGood
<1>8. Quiet(e.lines, Origin) = e
  BY <1>4 DEF e
<1>9. ToText(e) = <<>>
  <2>1. PICK h : Throughs(h, e.lines)
    BY <1>5, ThroughsExist DEF Sound
  <2>2. ToText(e) = h[LastRow(e)] /\ LastRow(e) = 0 /\ h[0] = e.lines[1]
    <3>1. LastRow(e) = 0
      <4>1. Len(e.lines) = 1
        BY <1>2, <1>4
      <4> QED BY <4>1 DEF LastRow
    <3>2. e.lines \in Rows
      BY <1>5 DEF Sound
    <3>3. ToText(e) = h[LastRow(e)]
      BY <2>1, <3>2, ToTextRight
    <3>4. h[0] = e.lines[1]
      BY <2>1 DEF Throughs
    <3> QED BY <3>1, <3>3, <3>4
  <2> QED BY <1>2, <1>4, <2>2
<1> QED BY <1>1, <1>6, <1>7, <1>8, <1>9

-----------------------------------------------------------------------------
\* Initially, and whatever is done, the buffer and the query are good.
THEOREM EditorStaysGood == Spec => []IInv
<1>1. Init => IInv
  <2> SUFFICES ASSUME Init PROVE IInv
    OBVIOUS
  <2>1. Good(buffer)
    BY EmptyIsGood DEF Init
  <2>2. GoodLine(<<>>) /\ 0 \in Boundaries(<<>>)
    BY NoBytes, PlacesOfLine DEF GoodLine
  <2>3. Len(<<>>) <= MaxLen
    BY NoBytes, EditorAssumption
  <2>4. FieldGood(field)
    BY <2>2, <2>3, FieldMade DEF Init, Field!EmptyField
  <2> QED BY <2>1, <2>4 DEF Init, IInv
<1>2. IInv /\ [Next]_vars => IInv'
  <2>1. ASSUME IInv, UNCHANGED vars PROVE IInv'
    BY <2>1 DEF IInv, vars
  <2> QED BY <2>1, StepDoes
<1> QED BY <1>1, <1>2, PTL DEF Spec

\* What the invariant says of the lines is what the runs check of them.
LEMMA GoodIsOK ==
  ASSUME NEW b, Good(b)
  PROVE  BufferOK(b)
<1>1. Sound(b) /\ IsPlace(b, b.at) /\ IsPlace(b, b.anchor)
  BY GoodParts
<1>2. ASSUME NEW row \in 0..LastRow(b)
      PROVE  NewLine \notin ToSet(Line(b, row)) /\ Valid(Line(b, row))
  <2>1. GoodLine(Line(b, row))
    BY <1>1, SoundRows
  <2>2. Valid(Line(b, row)) /\ DOMAIN Line(b, row) = 1..Len(Line(b, row))
    BY <2>1, ValidIs, LenProperties DEF GoodLine
  <2>3. \A i \in 1..Len(Line(b, row)) : Line(b, row)[i] # NewLine
    BY <2>1, NoLineEnd DEF GoodLine
  <2> QED BY <2>2, <2>3 DEF ToSet
<1> QED BY <1>1, <1>2 DEF BufferOK

(***************************************************************************)
(* No offset outlives the text it was taken in: the lines hold whole       *)
(* characters, and the cursor, the anchor and the cursor of the query are  *)
(* between two of them.                                                    *)
(***************************************************************************)
THEOREM PlacesAlwaysExist == Spec => []PlacesExist
<1>1. IInv => PlacesExist
  BY GoodIsOK DEF IInv, PlacesExist, FieldGood
<1> QED BY <1>1, EditorStaysGood, PTL

-----------------------------------------------------------------------------
(***************************************************************************)
(* Where the cursor is drawn.                                              *)
(***************************************************************************)
\* Without wrap.
LEMMA PlainIsSeen ==
  ASSUME NEW b, Good(b), NEW rows \in Nat \ {0}, NEW columns \in Nat \ {0}
  PROVE  LET plain == PlainCursor(b, rows, columns)
             row   == PlainRow(b, plain.y, rows, columns)
         IN  /\ plain.shown /\ plain.y \in 0..(rows - 1) /\ row.row = b.at.row
             /\ plain.x = ColumnsIn(Line(b, b.at.row), row.from, b.at.col)
<1> DEFINE line == Line(b, b.at.row)
           S    == {p \in Boundaries(line) :
                      /\ p <= b.at.col
                      /\ p = b.at.col \/ ColumnsIn(line, p, b.at.col) + 1 <= columns}
           left == ScrollCol(b, columns)
           top  == ScrollRow(b, rows)
           x    == ColumnsIn(line, left, b.at.col)
           y    == b.at.row - top
<1>1. /\ b.at.row \in 0..LastRow(b) /\ b.at.row \in Nat /\ b.at.col \in Nat /\ GoodLine(line)
      /\ b.at.col \in Boundaries(line) /\ LastRow(b) \in Nat
  BY HereRight, GoodParts, SoundRows
<1>2. left \in S
  <2>1. b.at.col \in S /\ S \subseteq Boundaries(line)
    BY <1>1
  <2>2. S \in SUBSET Nat
    BY <1>1, <2>1, PlacesOfLine
  <2>3. left = Min(S)
    BY DEF ScrollCol
  <2> HIDE DEF S, left
  <2> QED BY <2>1, <2>2, <2>3, MinRight
<1> HIDE DEF left
<1>3. left \in Boundaries(line) /\ left \in Nat /\ (left = b.at.col \/ x + 1 <= columns)
  BY <1>1, <1>2, PlacesOfLine
<1>4. x \in Nat /\ x < columns
  <2>1. x \in Nat /\ ColumnsIn(line, b.at.col, b.at.col) = 0
    BY <1>1, <1>3, ColumnsRight
  <2> HIDE DEF line
  <2> QED BY <1>3, <2>1
<1>5. top \in Nat /\ y \in 0..(rows - 1) /\ top + y = b.at.row
  BY <1>1 DEF ScrollRow
<1> HIDE DEF top, y, x
<1>6. PlainCursor(b, rows, columns) = Cell(y, x)
  BY <1>4 DEF PlainCursor, x, left, top, y
<1>7. PlainRow(b, y, rows, columns) = Chunk(b.at.row, left, FitEnd(line, left, columns))
  <2>1. ~(b.at.row > LastRow(b))
    BY <1>1
  <2>2. AtOrBefore(line, left) = left
    BY <1>1, <1>3, AtOrBeforeRight
  <2> QED BY <1>5, <2>1, <2>2 DEF PlainRow, left, top
<1>8. Cell(y, x).y = y /\ Cell(y, x).x = x /\ Cell(y, x).shown
  BY DEF Cell
<1>9. /\ Chunk(b.at.row, left, FitEnd(line, left, columns)).row = b.at.row
      /\ Chunk(b.at.row, left, FitEnd(line, left, columns)).from = left
  BY DEF Chunk
<1> QED BY <1>5, <1>6, <1>7, <1>8, <1>9 DEF x

\* In the field of the query.
LEMMA QueryIsSeen ==
  ASSUME NEW f, FieldGood(f), NEW width \in Nat \ {0}
  PROVE  Field!FieldCursorCell(f, width) \in 0..(width - 1)
<1> DEFINE t == f.text
           S == {p \in Field!Boundaries(t) :
                   p <= f.cursor /\ (p = f.cursor \/ Field!ColumnsIn(t, p, f.cursor) < width)}
           start == Field!FieldStart(f, width)
<1>1. \A p, q : Field!ColumnsIn(t, p, q) = ColumnsIn(t, p, q)
  BY Zenon DEF Field!ColumnsIn, ColumnsIn, Field!StartsAt, StartsAt, Field!Cont, Cont,
               Field!Cardinality, Cardinality
<1>2. f.cursor \in Boundaries(t) /\ Boundaries(t) \subseteq 0..Len(t) /\ Len(t) \in Nat
  BY FieldParts, PlacesOfLine
<1>3. start \in S
  <2>1. f.cursor \in S /\ S \subseteq Boundaries(t)
    BY <1>2, FieldBoundaries
  <2>2. S \in SUBSET Nat
    BY <1>2, <2>1
  <2>3. start = Min(S)
    BY DEF Field!FieldStart, Field!Min, Min
  <2> HIDE DEF S, start
  <2> QED BY <2>1, <2>2, <2>3, MinRight
<1> HIDE DEF start
<1>4. start \in Nat /\ f.cursor \in Nat
      /\ (start = f.cursor \/ ColumnsIn(t, start, f.cursor) < width)
  BY <1>1, <1>2, <1>3, FieldBoundaries
<1>5. ColumnsIn(t, start, f.cursor) \in Nat /\ ColumnsIn(t, f.cursor, f.cursor) = 0
  BY <1>4, ColumnsRight
<1>6. Field!FieldCursorCell(f, width) = ColumnsIn(t, start, f.cursor)
  BY <1>1 DEF Field!FieldCursorCell, start
<1> HIDE DEF t
<1>7. ColumnsIn(t, start, f.cursor) \in 0..(width - 1)
  BY <1>4, <1>5
<1> QED BY <1>6, <1>7

-----------------------------------------------------------------------------
\* In wrapped lines whose characters all have a column.
LEMMA WrappedIsSeen ==
  ASSUME NEW b, Good(b), NEW rows \in Nat \ {0}, NEW columns \in Nat \ {0},
         \A c \in ToSet(Line(b, b.at.row)) \ {Cont} : Columns[c] = 1
  PROVE  LET wrapped == WrappedCursor(b, rows, columns)
             chunk   == WrappedRow(b, wrapped.y, rows, columns)
         IN  /\ wrapped.shown /\ wrapped.y \in 0..(rows - 1) /\ chunk.row = b.at.row
             /\ wrapped.x \in {ColumnsIn(Line(b, b.at.row), chunk.from, b.at.col), columns - 1}
<1> DEFINE line  == Line(b, b.at.row)
           all   == VisualRows(b, columns)
           v     == CursorVisual(b, columns)
           chunk == all[v]
           x     == ColumnsIn(line, chunk.from, b.at.col)
           last  == ColumnsIn(line, chunk.from, PrevChar(line, chunk.to))
           over  == IF x >= columns /\ chunk.to > chunk.from THEN last ELSE x
           top   == WrappedTop(b, rows, columns)
           y     == v - top - 1
<1>1. GoodLine(line) /\ b.at.col \in Boundaries(line) /\ b.at.col \in Nat
  BY HereRight
<1>2. /\ v \in 1..Len(all) /\ chunk.row = b.at.row
      /\ chunk.from <= b.at.col /\ b.at.col <= chunk.to
  BY CursorVisualRight
<1>3. all \in Seq(Chunks) /\ Fits(chunk, line, b.at.row, columns)
  <2>1. Walked(all, b, Len(b.lines), columns)
    BY GoodParts, VisualRowsRight
  <2>2. Fits(all[v], Line(b, all[v].row), all[v].row, columns)
    BY <1>2, <2>1 DEF Walked
  <2> QED BY <1>2, <2>1, <2>2 DEF Walked
<1>4. Len(all) \in Nat /\ DOMAIN all = 1..Len(all) /\ v \in Nat /\ v >= 1
  <2>1. Len(all) \in Nat /\ DOMAIN all = 1..Len(all)
    BY <1>3, LenProperties
  <2> QED BY <1>2, <2>1
<1> HIDE DEF all, v, chunk
<1>5. /\ chunk.from \in Nat /\ chunk.to \in Nat /\ chunk.to \in Boundaries(line)
      /\ chunk.from \in Boundaries(line) /\ ColumnsIn(line, chunk.from, chunk.to) <= columns
  BY <1>3 DEF Fits, Chunks
<1>6. /\ x \in Nat /\ ColumnsIn(line, chunk.from, chunk.to) \in Nat
      /\ x <= ColumnsIn(line, chunk.from, chunk.to) /\ (b.at.col = chunk.from => x = 0)
  BY <1>1, <1>2, <1>5, ColumnsRight, ColumnsGrow
<1>7. ASSUME chunk.to > chunk.from
      PROVE  last \in Nat /\ ColumnsIn(line, chunk.from, chunk.to) = last + 1
  <2> DEFINE p == PrevChar(line, chunk.to)
  <2>1. /\ p \in Boundaries(line) /\ p < chunk.to
        /\ \A q \in Boundaries(line) : q < chunk.to => q <= p
    BY <1>1, <1>5, <1>7, PrevCharRight
  <2>2. /\ Boundaries(line) \subseteq 0..Len(line) /\ Len(line) \in Nat /\ line \in Seq(Byte)
    BY <1>1, PlacesOfLine
  <2> HIDE DEF p
  <2>3. p \in Nat /\ p < Len(line) /\ chunk.from <= p /\ chunk.to <= Len(line)
    BY <1>5, <1>7, <2>1, <2>2
  <2>4. NextChar(line, p) = chunk.to
    <3>1. /\ NextChar(line, p) \in Boundaries(line) /\ NextChar(line, p) > p
          /\ \A q \in (p + 1)..(NextChar(line, p) - 1) : line[q + 1] = Cont
      BY <1>1, <2>1, <2>3, NextCharRight
    <3>2. PICK n \in Nat : n = NextChar(line, p) /\ n <= Len(line)
      BY <2>2, <3>1
    <3>3. ~(n < chunk.to)
      BY <2>1, <2>3, <3>1, <3>2
    <3>4. ~(chunk.to < n)
      <4> SUFFICES ASSUME chunk.to < n PROVE FALSE
        OBVIOUS
      <4>1. chunk.to \in (p + 1)..(n - 1)
        BY <1>5, <2>1, <2>3
      <4>2. line[chunk.to + 1] = Cont
        BY <3>1, <3>2, <4>1
      <4>3. AtBoundary(line, chunk.to) /\ chunk.to # Len(line)
        BY <1>1, <1>5, <2>2, <3>2, PlacesOfLine
      <4> QED BY <4>2, <4>3 DEF AtBoundary
    <3> QED BY <1>5, <3>2, <3>3, <3>4
  <2>5. Columns[line[p + 1]] = 1
    <3>1. p + 1 \in 1..Len(line) /\ line[p + 1] \in Chars
      BY <1>1, <2>1, <2>2, <2>3, NextCharRight
    <3>2. line[p + 1] \in ToSet(line) /\ line[p + 1] # Cont
      <4>1. DOMAIN line = 1..Len(line)
        BY <2>2, LenProperties
      <4> QED BY <3>1, <4>1, Utf8Assumption DEF ToSet
    <3> QED BY <3>2
  <2>6. /\ ColumnsIn(line, chunk.from, p) \in Nat
        /\ ColumnsIn(line, chunk.from, NextChar(line, p)) =
             IF Columns[line[p + 1]] = 1 THEN ColumnsIn(line, chunk.from, p) + 1
                                         ELSE ColumnsIn(line, chunk.from, p)
    BY <1>1, <1>5, <2>1, <2>3, ColumnsOfChar
  <2> QED BY <2>4, <2>5, <2>6 DEF p
<1> HIDE DEF line, x, last
<1>8. over \in Nat /\ over < columns /\ over \in {x, columns - 1}
  <2>1. CASE x >= columns /\ chunk.to > chunk.from
    <3>1. PICK c \in Nat : c = ColumnsIn(line, chunk.from, chunk.to)
      BY <1>6
    <3>2. c = columns /\ c = last + 1 /\ last \in Nat
      BY <1>5, <1>6, <1>7, <2>1, <3>1
    <3> QED BY <2>1, <3>2
  <2>2. CASE x >= columns /\ ~(chunk.to > chunk.from)
    <3>1. b.at.col = chunk.from
      BY <1>1, <1>2, <1>5, <2>2
    <3>2. FALSE
      BY <1>6, <2>2, <3>1
    <3> QED BY <3>2
  <2>3. CASE ~(x >= columns)
    BY <1>6, <2>3
  <2> QED BY <2>1, <2>2, <2>3
<1>9. top \in Nat /\ y \in 0..(rows - 1) /\ top + y + 1 = v
  <2>1. top = IF v > rows THEN v - rows ELSE 0
    BY DEF WrappedTop, v
  <2> HIDE DEF top
  <2> QED BY <1>4, <2>1
<1>10. WrappedCursor(b, rows, columns) = Cell(y, over)
  <2>1. ~(over >= columns)
    BY <1>8
  <2> QED BY <2>1, Zenon DEF WrappedCursor, y, over, x, last, line, chunk, all, v, top
<1> HIDE DEF top, y, over
<1>11. WrappedRow(b, y, rows, columns) = chunk
  BY <1>2, <1>4, <1>9 DEF WrappedRow, chunk, all, top
<1>12. Cell(y, over).y = y /\ Cell(y, over).x = over /\ Cell(y, over).shown
  BY DEF Cell
<1> QED BY <1>2, <1>8, <1>9, <1>10, <1>11, <1>12 DEF x, line

(***************************************************************************)
(* Whatever the size of the window the cursor is drawn in it, where its    *)
(* character is shown.                                                     *)
(***************************************************************************)
THEOREM CursorIsAlwaysSeen == Spec => []CursorIsSeen
<1>1. ASSUME IInv PROVE CursorIsSeen
  <2> SUFFICES ASSUME NEW size \in Sizes
               PROVE  LET plain   == PlainCursor(buffer, size.rows, size.columns)
                          row     == PlainRow(buffer, plain.y, size.rows, size.columns)
                          wrapped == WrappedCursor(buffer, size.rows, size.columns)
                          chunk   == WrappedRow(buffer, wrapped.y, size.rows, size.columns)
                          line    == Line(buffer, buffer.at.row)
                      IN  /\ plain.shown /\ plain.y \in 0..(size.rows - 1)
                          /\ row.row = buffer.at.row
                          /\ plain.x = ColumnsIn(line, row.from, buffer.at.col)
                          /\ Field!FieldCursorCell(field, size.columns) \in 0..(size.columns - 1)
                          /\ (\A c \in ToSet(line) \ {Cont} : Columns[c] = 1) =>
                               /\ wrapped.shown /\ wrapped.y \in 0..(size.rows - 1)
                               /\ chunk.row = buffer.at.row
                               /\ wrapped.x \in {ColumnsIn(line, chunk.from, buffer.at.col),
                                                 size.columns - 1}
    BY DEF CursorIsSeen
  <2>1. size.rows \in Nat \ {0} /\ size.columns \in Nat \ {0}
    BY EditorAssumption
  <2>2. Good(buffer) /\ FieldGood(field)
    BY <1>1 DEF IInv
  <2>3. Field!FieldCursorCell(field, size.columns) \in 0..(size.columns - 1)
    BY <2>1, <2>2, QueryIsSeen
  <2> QED BY <2>1, <2>2, <2>3, PlainIsSeen, WrappedIsSeen
<1> QED BY <1>1, EditorStaysGood, PTL

-----------------------------------------------------------------------------
(***************************************************************************)
(* The wrapped view shows the document: its rows tile the lines, what they *)
(* redraw is the selection, and the cursor moves through them row by row.  *)
(***************************************************************************)
\* A row of the screen that is above another one.
Above(x, y, b) ==
  \/ x.row < y.row
  \/ x.row = y.row /\ x.to <= y.from /\ x.to < Len(Line(b, x.row))

LEMMA AboveFollows ==
  ASSUME NEW b, NEW x, NEW y, NEW z, Above(x, y, b), Follows(y, z, b),
         {x.row, x.to, y.row, y.from, y.to, z.row, z.from} \subseteq Nat, y.from <= y.to
  PROVE  Above(x, z, b)
<1>1. CASE z.row = y.row + 1
  BY <1>1 DEF Above
<1>2. CASE z.row = y.row /\ y.to = z.from
  BY <1>2 DEF Above
<1> QED BY <1>1, <1>2 DEF Follows

\* The rows of the screen are in the order of the text.
LEMMA RowsAbove ==
  ASSUME NEW b, NEW n, NEW columns, NEW s, Walked(s, b, n, columns),
         NEW i \in 1..Len(s), NEW j \in 1..Len(s), i < j
  PROVE  Above(s[i], s[j], b)
<1> DEFINE N == j - i - 1
           S == {m \in 0..N : Above(s[i], s[i + 1 + m], b)}
<1>1. Len(s) \in Nat /\ N \in Nat /\ i + 1 + N = j
  BY LenProperties DEF Walked
<1>2. /\ \A k \in 1..Len(s) : /\ s[k].row \in Nat /\ s[k].from \in Nat /\ s[k].to \in Nat
                              /\ s[k].from <= s[k].to
      /\ \A k \in 1..(Len(s) - 1) : Follows(s[k], s[k + 1], b)
  BY DEF Walked, Fits, Chunks
<1>3. 0 \in S
  <2>1. i \in 1..(Len(s) - 1) /\ i + 1 \in 1..Len(s) /\ 0 \in 0..N /\ i + 1 + 0 = i + 1
    BY <1>1
  <2>2. Follows(s[i], s[i + 1], b)
    BY <1>2, <2>1
  <2>3. s[i].row \in Nat /\ s[i + 1].row \in Nat /\ s[i + 1].from \in Nat
    BY <1>2, <2>1
  <2>4. Above(s[i], s[i + 1], b)
    BY <2>2, <2>3 DEF Follows, Above
  <2> QED BY <2>1, <2>4
<1>4. ASSUME NEW m \in 0..N, m < N, m \in S PROVE m + 1 \in S
  <2>1. PICK k \in 1..(Len(s) - 1) : k = i + 1 + m
    <3>1. i + 1 + m \in 1..(Len(s) - 1)
      BY <1>1, <1>4
    <3> QED BY <3>1
  <2>2. PICK l \in 1..Len(s) : l = k + 1
    BY <1>1
  <2>3. k \in 1..Len(s) /\ m + 1 \in 0..N /\ i + 1 + (m + 1) = l
    BY <1>1, <1>4, <2>1, <2>2
  <2>4. Follows(s[k], s[l], b) /\ Above(s[i], s[k], b)
    BY <1>2, <1>4, <2>1, <2>2
  <2>5. /\ s[i].row \in Nat /\ s[i].to \in Nat /\ s[k].row \in Nat /\ s[k].from <= s[k].to
        /\ s[k].from \in Nat /\ s[k].to \in Nat /\ s[l].row \in Nat /\ s[l].from \in Nat
    BY <1>2, <2>3
  <2>6. Above(s[i], s[l], b)
    BY <2>4, <2>5, AboveFollows
  <2> QED BY <2>3, <2>6
<1>5. N \in S
  <2> HIDE DEF S, N
  <2>1. 0..N \subseteq S
    BY <1>1, <1>3, <1>4, Stepwise
  <2> QED BY <1>1, <2>1
<1> QED BY <1>1, <1>5

\* The row of the cursor is the one around it that does not end there.
LEMMA CursorVisualIs ==
  ASSUME NEW b, Sound(b), NEW columns \in Nat \ {0}, b.at.col \in Nat,
         NEW i \in 1..Len(VisualRows(b, columns)),
         VisualRows(b, columns)[i].row = b.at.row,
         VisualRows(b, columns)[i].from <= b.at.col,
         \/ b.at.col < VisualRows(b, columns)[i].to
         \/ VisualRows(b, columns)[i].to = Len(Line(b, b.at.row))
  PROVE  CursorVisual(b, columns) = i
<1> DEFINE rows == VisualRows(b, columns)
           len  == Len(Line(b, b.at.row))
           S == {k \in 1..Len(rows) :
                   rows[k].row = b.at.row /\ (b.at.col < rows[k].to \/ rows[k].to = len)}
           v == CursorVisual(b, columns)
<1>1. Walked(rows, b, Len(b.lines), columns)
  BY VisualRowsRight
<1>2. Len(rows) \in Nat /\ DOMAIN rows = 1..Len(rows)
  BY <1>1, LenProperties DEF Walked
<1>3. v = Min(S)
  BY <1>2 DEF CursorVisual
<1>4. i \in S /\ S \in SUBSET Nat
  BY <1>2
<1>5. v \in S /\ v <= i
  <2> HIDE DEF S, v
  <2> QED BY <1>3, <1>4, MinRight
<1>6. ASSUME v < i PROVE FALSE
  <2>1. v \in 1..Len(rows) /\ rows[v].row = b.at.row
        /\ (b.at.col < rows[v].to \/ rows[v].to = len)
    BY <1>5
  <2> HIDE DEF v
  <2>2. Above(rows[v], rows[i], b)
    BY <1>1, <1>6, <2>1, RowsAbove
  <2>3. /\ rows[v].row \in Nat /\ rows[v].to \in Nat /\ rows[i].from \in Nat
        /\ rows[v].to \in Boundaries(Line(b, rows[v].row))
    BY <1>1, <2>1 DEF Walked, Fits, Chunks
  <2>4. rows[v].to <= rows[i].from /\ rows[v].to < len
    BY <2>1, <2>2, <2>3 DEF Above
  <2>5. len \in Nat
    <3>1. b.at.row \in 0..LastRow(b)
      <4>1. rows[v].row < Len(b.lines)
        BY <1>1, <2>1 DEF Walked
      <4> QED BY <2>1, <2>3, <4>1, SoundRows
    <3> QED BY <3>1, SoundRows, PlacesOfLine
  <2> HIDE DEF rows, len
  <2> QED BY <2>1, <2>3, <2>4, <2>5 DEF rows
<1> HIDE DEF S
<1>7. v \in Nat /\ i \in Nat
  BY <1>4, <1>5
<1> QED BY <1>5, <1>6, <1>7

\* Up and Down on the screen lead to the row of the screen above or below.
LEMMA MoveWrappedMoves ==
  ASSUME NEW b, Good(b), NEW columns \in Nat \ {0}, NEW down \in BOOLEAN,
         NEW there, there = (IF down THEN CursorVisual(b, columns) + 1
                                     ELSE CursorVisual(b, columns) - 1)
  PROVE  CursorVisual([b EXCEPT !.at = MoveWrapped(b, columns, down)], columns) =
           IF there \in 1..Len(VisualRows(b, columns)) THEN there ELSE CursorVisual(b, columns)
<1> DEFINE rows    == VisualRows(b, columns)
           here    == CursorVisual(b, columns)
           target  == rows[there]
           line    == Line(b, target.row)
           part    == SubSeq(line, target.from + 1, target.to)
           desired == ColumnsIn(Line(b, b.at.row), rows[here].from, b.at.col)
           col     == target.from + PrefixBytes(part, desired)
           inner   == target.to < Len(line) /\ col >= target.to /\ target.to > target.from
           to      == IF inner THEN PrevChar(line, target.to) ELSE col
           d       == [b EXCEPT !.at = MoveWrapped(b, columns, down)]
<1>1. Walked(rows, b, Len(b.lines), columns) /\ Sound(b) /\ LastRow(b) = Len(b.lines) - 1
      /\ b \in Buffers
  BY GoodParts, VisualRowsRight, SoundRows
<1>2. DOMAIN rows = 1..Len(rows)
  BY <1>1, LenProperties DEF Walked
<1>3. MoveWrapped(b, columns, down) = IF there \notin 1..Len(rows) THEN b.at
                                      ELSE Pos(target.row, to)
  BY <1>2 DEF MoveWrapped
<1>4. CASE there \notin 1..Len(rows)
  <2>1. d = [b EXCEPT !.at = b.at]
    BY <1>3, <1>4
  <2>2. d = b
    BY <1>1, <2>1 DEF Buffers
  <2> QED BY <1>4, <2>2
<1>5. CASE there \in 1..Len(rows)
  <2>1. here \in 1..Len(rows) /\ b.at.col \in Nat
    BY HereRight, CursorVisualRight
  <2>0. d.at = Pos(target.row, to) /\ d.lines = b.lines
    BY <1>1, <1>3, <1>5 DEF Buffers
  <2> HIDE DEF rows, here, d
  <2>2. rows[here].from \in Nat
    BY <1>1, <2>1 DEF Walked, Fits, Chunks
  <2>3. desired \in Nat
    BY <2>1, <2>2, ColumnsRight
  <2>4. target.row < Len(b.lines) /\ Fits(target, line, target.row, columns)
    BY <1>1, <1>5 DEF Walked
  <2> HIDE DEF target, desired
  <2>5. target.row \in 0..LastRow(b) /\ target.from \in Nat /\ target.to \in Nat
    <3>1. target.row \in Nat /\ target.from \in Nat /\ target.to \in Nat
      BY <2>4 DEF Fits, Chunks
    <3>2. Len(b.lines) \in Nat
      BY <1>1, RowsRight, SoundRows
    <3> QED BY <1>1, <2>4, <3>1, <3>2
  <2>6. GoodLine(line)
    BY <1>1, <2>5, SoundRows
  <2> HIDE DEF line
  <2>7. /\ target.from \in Boundaries(line) /\ target.to \in Boundaries(line)
        /\ target.from <= target.to /\ (target.from < target.to \/ target.to = Len(line))
        /\ Len(line) \in Nat /\ target.to <= Len(line)
    <3>1. /\ target.from \in Boundaries(line) /\ target.to \in Boundaries(line)
          /\ target.from <= target.to /\ (target.from < target.to \/ target.to = Len(line))
      BY <2>4 DEF Fits
    <3> QED BY <2>6, <3>1, PlacesOfLine
  <2>8. GoodLine(part) /\ Len(part) = target.to - target.from
    BY <2>6, <2>7, MiddleRight
  <2> HIDE DEF part
  <2>9. col \in Nat /\ target.from <= col /\ col <= target.to
    <3>1. PrefixBytes(part, desired) \in 0..Len(part)
      BY <2>3, <2>8, PrefixBytesRight, PlacesOfLine
    <3>2. PICK m \in Nat : m = PrefixBytes(part, desired) /\ m <= target.to - target.from
      BY <2>5, <2>7, <2>8, <3>1
    <3> QED BY <2>5, <3>2
  <2>10. /\ PrevChar(line, target.to) \in Nat
         /\ target.from < target.to => /\ target.from <= PrevChar(line, target.to)
                                       /\ PrevChar(line, target.to) < target.to
    <3>2. /\ PrevChar(line, target.to) \in Boundaries(line)
          /\ target.to > 0 => /\ PrevChar(line, target.to) < target.to
                              /\ \A q \in Boundaries(line) :
                                   q < target.to => q <= PrevChar(line, target.to)
      BY <2>6, <2>7, PrevCharRight
    <3>3. PrevChar(line, target.to) \in Nat
      BY <2>6, <3>2, PlacesOfLine
    <3> QED BY <2>5, <2>7, <3>2, <3>3
  <2> HIDE DEF col
  <2>11. to \in Nat /\ target.from <= to /\ (to < target.to \/ target.to = Len(line))
    <3>1. CASE inner
      BY <2>5, <2>10, <3>1
    <3>2. CASE ~inner
      BY <2>5, <2>7, <2>9, <3>2
    <3> QED BY <3>1, <3>2
  <2> HIDE DEF to
  <2>12. /\ VisualRows(d, columns) = rows /\ Sound(d) /\ d.at.row = target.row /\ d.at.col = to
         /\ Line(d, d.at.row) = line
    <3>1. VisualRows(d, columns) = rows
      BY <2>0 DEF VisualRows, rows
    <3>2. d.at.row = target.row /\ d.at.col = to
      BY <2>0 DEF Pos
    <3> QED BY <1>1, <2>0, <3>1, <3>2 DEF Sound, Line, line
  <2>13. CursorVisual(d, columns) = there
    BY <1>5, <2>11, <2>12, CursorVisualIs DEF target
  <2> QED BY <1>5, <2>13 DEF rows, d
<1> QED BY <1>4, <1>5

\* How much of a line the first rows of the screen show.
Reach(s, t, row, n) ==
  IF n = 0 THEN 0
  ELSE IF s[n].row < row THEN 0 ELSE IF s[n].row = row THEN s[n].to ELSE Len(t)

\* The next row of the screen goes on where that ends, or is of another line.
LEMMA ReachGoesOn ==
  ASSUME NEW b, NEW L \in Nat \ {0}, NEW columns, NEW s, Walked(s, b, L, columns),
         NEW row \in Nat, NEW n \in 0..(Len(s) - 1)
  PROVE  /\ s[n + 1].row = row => /\ s[n + 1].from = Reach(s, Line(b, row), row, n)
                                  /\ s[n + 1].to = Reach(s, Line(b, row), row, n + 1)
         /\ s[n + 1].row # row =>
              Reach(s, Line(b, row), row, n + 1) = Reach(s, Line(b, row), row, n)
<1> DEFINE t == Line(b, row)
           y == s[n + 1]
<1>1. Len(s) \in Nat /\ n + 1 \in 1..Len(s) /\ n + 1 # 0
  BY LenProperties DEF Walked
<1>2. \A k \in 1..Len(s) : s[k].row \in Nat
  BY DEF Walked, Fits, Chunks
<1>3. Reach(s, t, row, n + 1) = IF y.row < row THEN 0 ELSE IF y.row = row THEN y.to ELSE Len(t)
  BY <1>1 DEF Reach
<1>4. y.row \in Nat
  BY <1>1, <1>2
<1>5. CASE n = 0
  <2>1. y.row = 0 /\ y.from = 0
    BY <1>5 DEF Walked
  <2>2. Reach(s, t, row, n) = 0
    BY <1>5 DEF Reach
  <2> HIDE DEF y, t
  <2>3. y.row = row => y.from = Reach(s, t, row, n) /\ y.to = Reach(s, t, row, n + 1)
    BY <1>3, <2>1, <2>2
  <2>4. y.row # row => Reach(s, t, row, n + 1) = Reach(s, t, row, n)
    BY <1>3, <2>1, <2>2
  <2> QED BY <2>3, <2>4 DEF y, t
<1>6. CASE n # 0
  <2> DEFINE x == s[n]
  <2>1. n \in 1..(Len(s) - 1) /\ n \in 1..Len(s)
    BY <1>1, <1>6
  <2>2. Follows(x, y, b)
    BY <2>1 DEF Walked
  <2>3. Reach(s, t, row, n) = IF x.row < row THEN 0 ELSE IF x.row = row THEN x.to ELSE Len(t)
    BY <1>6 DEF Reach
  <2>4. x.row \in Nat
    BY <1>2, <2>1
  <2>5. x.row = row => Line(b, x.row) = t
    OBVIOUS
  <2> HIDE DEF x, y, t
  <2>6. y.row = row => y.from = Reach(s, t, row, n) /\ y.to = Reach(s, t, row, n + 1)
    BY <1>3, <1>4, <2>2, <2>3, <2>4 DEF Follows
  <2>7. y.row # row => Reach(s, t, row, n + 1) = Reach(s, t, row, n)
    BY <1>3, <1>4, <2>2, <2>3, <2>4, <2>5 DEF Follows
  <2> QED BY <2>6, <2>7 DEF y, t
<1> QED BY <1>5, <1>6

\* The rows of the screen show all of each line.
LEMMA RowsShowLine ==
  ASSUME NEW b, Sound(b), NEW columns \in Nat \ {0}, NEW row \in 0..LastRow(b),
         NEW rows, rows = VisualRows(b, columns)
  PROVE  FlattenSeq([i \in DOMAIN rows |->
           IF rows[i].row = row THEN SubSeq(Line(b, row), rows[i].from + 1, rows[i].to)
           ELSE <<>>]) = Line(b, row)
<1> DEFINE t == Line(b, row)
           L == Len(b.lines)
           K == Len(rows)
           part(i) == IF rows[i].row = row THEN SubSeq(t, rows[i].from + 1, rows[i].to) ELSE <<>>
           seqs == [i \in DOMAIN rows |-> part(i)]
           reach(n) == Reach(rows, t, row, n)
<1>1. /\ L \in Nat \ {0} /\ LastRow(b) = L - 1 /\ row \in Nat /\ GoodLine(t) /\ Len(t) \in Nat
      /\ t \in Seq(Byte)
  <2>1. L \in Nat \ {0} /\ LastRow(b) = L - 1
    BY RowsRight, SoundRows
  <2>2. GoodLine(t)
    BY SoundRows
  <2> QED BY <2>1, <2>2, PlacesOfLine
<1>2. Walked(rows, b, L, columns)
  BY VisualRowsRight
<1>3. K \in Nat \ {0} /\ DOMAIN rows = 1..K
  <2>1. rows # <<>> /\ rows \in Seq(Chunks)
    BY <1>1, <1>2 DEF Walked
  <2> QED BY <2>1, LenProperties, EmptySeq
<1>4. ASSUME NEW i \in 1..K, rows[i].row = row
      PROVE  /\ rows[i].from \in 0..Len(t) /\ rows[i].to \in 0..Len(t) /\ rows[i].from <= rows[i].to
             /\ rows[i].from \in Boundaries(t) /\ rows[i].to \in Boundaries(t)
  <2>1. Fits(rows[i], t, row, columns)
    <3>1. Fits(rows[i], Line(b, rows[i].row), rows[i].row, columns)
      BY <1>2 DEF Walked
    <3> QED BY <1>4, <3>1
  <2> QED BY <1>1, <2>1, PlacesOfLine DEF Fits
<1>5. seqs \in Seq(Seq(Byte)) /\ Len(seqs) = K /\ \A i \in 1..K : seqs[i] = part(i)
  <2>1. ASSUME NEW i \in 1..K PROVE part(i) \in Seq(Byte)
    <3>1. CASE rows[i].row = row
      <4>1. GoodLine(SubSeq(t, rows[i].from + 1, rows[i].to))
        BY <1>1, <1>4, <3>1, MiddleRight
      <4> QED BY <3>1, <4>1 DEF GoodLine
    <3>2. CASE rows[i].row # row
      BY <3>2, EmptySeq
    <3> QED BY <3>1, <3>2
  <2> HIDE DEF part
  <2>2. seqs \in [1..K -> Seq(Byte)]
    BY <1>3, <2>1
  <2>3. DOMAIN seqs = 1..K
    BY <1>3
  <2>4. \A i \in 1..K : seqs[i] = part(i)
    BY <1>3
  <2> HIDE DEF seqs, K
  <2>5. seqs \in Seq(Seq(Byte))
    BY <1>3, <2>2, SeqDef
  <2>6. Len(seqs) = K
    BY <1>3, <2>3, <2>5, LenProperties
  <2> QED BY <2>4, <2>5, <2>6
<1> HIDE DEF seqs
<1>6. PICK f : Flats(f, seqs, Byte)
  BY <1>5, FlatsExist
<1>7. FlattenSeq(seqs) = f[K]
  BY <1>5, <1>6, FlattenIs
<1>8. f[0] = <<>> /\ \A i \in 1..K : f[i] = f[i - 1] \o part(i)
  BY <1>5, <1>6 DEF Flats
<1> HIDE DEF K
<1> DEFINE S == {n \in 0..K : f[n] = SubSeq(t, 1, reach(n)) /\ reach(n) \in 0..Len(t)}
<1>9. 0 \in S
  <2>1. reach(0) = 0
    BY DEF Reach
  <2>2. SubSeq(t, 1, 0) = <<>>
    BY SubSeqEmpty
  <2>3. f[0] = <<>>
    BY <1>8
  <2> HIDE DEF t, reach
  <2>4. f[0] = SubSeq(t, 1, reach(0))
    BY <2>1, <2>2, <2>3
  <2>5. reach(0) \in 0..Len(t) /\ 0 \in 0..K
    BY <1>1, <1>3, <2>1
  <2> QED BY <2>4, <2>5
<1>10. ASSUME NEW n \in 0..K, n < K, n \in S PROVE n + 1 \in S
  <2>1. n \in 0..(Len(rows) - 1) /\ n + 1 \in 0..K
    BY <1>3, <1>10 DEF K
  <2>2. PICK i \in 1..K : i = n + 1 /\ i - 1 = n
    BY <1>3, <2>1 DEF K
  <2>3. /\ rows[i].row = row => rows[i].from = reach(n) /\ rows[i].to = reach(i)
        /\ rows[i].row # row => reach(i) = reach(n)
    BY <1>1, <1>2, <2>1, <2>2, ReachGoesOn
  <2>4. f[i] = f[n] \o part(i) /\ f[n] = SubSeq(t, 1, reach(n)) /\ reach(n) \in 0..Len(t)
    BY <1>8, <1>10, <2>2
  <2> HIDE DEF reach
  <2>5. CASE rows[i].row = row
    <3>1. PICK p \in 0..Len(t) : p = rows[i].from
      BY <1>4, <2>5
    <3>2. PICK q \in 0..Len(t) : q = rows[i].to /\ p <= q
      BY <1>4, <2>5, <3>1
    <3>3. part(i) = SubSeq(t, p + 1, q) /\ reach(n) = p /\ reach(i) = q
      BY <2>3, <2>5, <3>1, <3>2
    <3> HIDE DEF t, part
    <3>4. SubSeq(t, 1, p) \o SubSeq(t, p + 1, q) = SubSeq(t, 1, q)
      <4>1. 1 \in 1..(Len(t) + 1) /\ p \in (1 - 1)..Len(t) /\ q \in p..Len(t)
        BY <1>1, <3>2
      <4> QED BY <1>1, <4>1, ConcatAdjacentSubSeq
    <3>5. f[i] = SubSeq(t, 1, reach(i))
      BY <2>4, <3>3, <3>4
    <3> QED BY <2>1, <2>2, <3>3, <3>5
  <2>6. CASE rows[i].row # row
    <3>1. part(i) = <<>> /\ reach(i) = reach(n)
      BY <2>3, <2>6
    <3>2. f[n] \in Seq(Byte)
      BY <1>5, <1>6 DEF Flats
    <3>3. f[i] = f[n]
      BY <2>4, <3>1, <3>2, ConcatEmptySeq
    <3> HIDE DEF t, part
    <3> QED BY <2>1, <2>2, <2>4, <3>1, <3>3
  <2> QED BY <2>5, <2>6
<1>11. K \in S
  <2> HIDE DEF S
  <2>1. 0..K \subseteq S
    BY <1>3, <1>9, <1>10, Stepwise
  <2> QED BY <1>3, <2>1
<1>12. reach(K) = Len(t)
  <2>1. rows[K].row = L - 1 /\ rows[K].to = Len(Line(b, L - 1))
    BY <1>1, <1>2 DEF Walked, K
  <2>2. reach(K) = IF rows[K].row < row THEN 0
                   ELSE IF rows[K].row = row THEN rows[K].to ELSE Len(t)
    BY <1>3 DEF Reach
  <2>3. ~(rows[K].row < row)
    BY <1>1, <2>1
  <2> HIDE DEF reach
  <2>4. CASE rows[K].row = row
    BY <2>1, <2>2, <2>3, <2>4
  <2>5. CASE rows[K].row # row
    BY <2>2, <2>3, <2>5
  <2> QED BY <2>4, <2>5
<1>13. f[K] = SubSeq(t, 1, Len(t))
  <2> HIDE DEF reach, t
  <2> QED BY <1>11, <1>12
<1>14. SubSeq(t, 1, Len(t)) = t
  BY <1>1, SubSeqFull
<1> QED BY <1>7, <1>13, <1>14 DEF seqs

\* A byte that starts a character with a column of its own.
Wide(byte) == byte \in Chars /\ Columns[byte] = 1

\* What is seen of the first bytes of a text.
Seens(h, t) ==
  /\ h \in [0..Len(t) -> Seq(Chars)] /\ h[0] = <<>>
  /\ \A n \in 1..Len(t) : h[n] = IF Wide(t[n]) THEN Append(h[n - 1], t[n]) ELSE h[n - 1]

\* It is a function of how far the text was read,
LEMMA SeensExist ==
  ASSUME NEW t \in Seq(Glyph)
  PROVE  \E h : Seens(h, t)
<1> DEFINE N    == Len(t)
           V    == Seq(Chars)
           step == [n \in 1..N |-> [s \in V |-> IF Wide(t[n]) THEN Append(s, t[n]) ELSE s]]
<1>1. N \in Nat /\ <<>> \in V
  BY LenProperties, EmptySeq
<1>2. \A n \in 1..N, s \in V : Wide(t[n]) => Append(s, t[n]) \in V
  BY AppendProperties DEF Wide
<1>3. step \in [1..N -> [V -> V]]
  <2> HIDE DEF V
  <2> QED BY <1>2
<1>4. \A n \in 1..N : \A s \in V : step[n][s] = IF Wide(t[n]) THEN Append(s, t[n]) ELSE s
  OBVIOUS
<1> HIDE DEF N, V, step
<1>5. PICK f \in [0..N -> V] : Iterates(f, N, <<>>, step)
  BY <1>1, <1>3, IteratesExists
<1>6. ASSUME NEW n \in 1..N
      PROVE  f[n] = IF Wide(t[n]) THEN Append(f[n - 1], t[n]) ELSE f[n - 1]
  <2>1. n - 1 \in 0..N
    BY <1>1
  <2>2. f[n - 1] \in V
    BY <2>1
  <2> QED BY <1>4, <1>5, <2>2 DEF Iterates
<1>7. f[0] = <<>>
  BY <1>5 DEF Iterates
<1> QED BY <1>6, <1>7 DEF Seens, N, V

\* and Shown is its value at the end.
LEMMA ShownIs ==
  ASSUME NEW t \in Seq(Glyph), NEW h, Seens(h, t)
  PROVE  Shown(t) = h[Len(t)] /\ Shown(t) \in Seq(Chars)
<1> DEFINE L == Len(t)
           Next1(g, n) == IF t[n] \in Chars /\ Columns[t[n]] = 1 THEN Append(g[n - 1], t[n])
                          ELSE g[n - 1]
           Fixed(g) == g = [n \in 0..L |-> IF n = 0 THEN <<>>
                              ELSE IF t[n] \in Chars /\ Columns[t[n]] = 1
                                   THEN Append(g[n - 1], t[n])
                              ELSE g[n - 1]]
           g == CHOOSE g : Fixed(g)
<1>1. Shown(t) = g[L]
  BY DEF Shown
<1>2. L \in Nat
  BY LenProperties
<1>3. h \in [0..L -> Seq(Chars)] /\ h[0] = <<>> /\ \A n \in 1..L : h[n] = Next1(h, n)
  BY DEF Seens, Wide
<1>4. Fixed(h)
  <2> DEFINE k == [n \in 0..L |-> IF n = 0 THEN <<>>
                              ELSE IF t[n] \in Chars /\ Columns[t[n]] = 1
                                   THEN Append(h[n - 1], t[n])
                              ELSE h[n - 1]]
  <2>1. ASSUME NEW n \in 0..L PROVE h[n] = k[n]
    <3>1. CASE n = 0
      BY <1>3, <3>1
    <3>2. CASE n # 0
      <4>1. n \in 1..L
        BY <1>2, <3>2
      <4>2. k[n] = Next1(h, n)
        BY <3>2
      <4> QED BY <1>3, <4>1, <4>2
    <3> QED BY <3>1, <3>2
  <2>2. h = [n \in 0..L |-> h[n]]
    BY <1>3
  <2> QED BY <2>1, <2>2
<1>5. Fixed(g)
  BY <1>4
<1> HIDE DEF g
<1>6. g[0] = <<>> /\ \A n \in 1..L : g[n] = Next1(g, n)
  <2>1. 0 \in 0..L /\ \A n \in 1..L : n \in 0..L /\ n # 0
    BY <1>2
  <2> QED BY <1>5, <2>1
<1> DEFINE S == {n \in 0..L : g[n] = h[n]}
<1>7. 0 \in S
  BY <1>2, <1>3, <1>6
<1>8. ASSUME NEW n \in 0..L, n < L, n \in S PROVE n + 1 \in S
  <2>1. n + 1 \in 1..L /\ n + 1 \in 0..L /\ (n + 1) - 1 = n
    BY <1>2, <1>8
  <2>2. g[n] = h[n]
    BY <1>8
  <2> QED BY <1>3, <1>6, <2>1, <2>2
<1>9. L \in S
  <2> HIDE DEF S, L
  <2>1. 0..L \subseteq S
    BY <1>2, <1>7, <1>8, Stepwise
  <2> QED BY <1>2, <2>1
<1> QED BY <1>1, <1>2, <1>3, <1>9

\* Without such bytes nothing is seen.
LEMMA NothingShown ==
  ASSUME NEW t \in Seq(Glyph), \A n \in 1..Len(t) : ~Wide(t[n])
  PROVE  Shown(t) = <<>>
<1>1. PICK h : Seens(h, t)
  BY SeensExist
<1> DEFINE S == {n \in 0..Len(t) : h[n] = <<>>}
<1>2. Len(t) \in Nat
  BY LenProperties
<1>3. 0 \in S
  BY <1>1, <1>2 DEF Seens
<1>4. ASSUME NEW n \in 0..Len(t), n < Len(t), n \in S PROVE n + 1 \in S
  <2>1. n + 1 \in 1..Len(t) /\ n + 1 \in 0..Len(t) /\ (n + 1) - 1 = n
    BY <1>2, <1>4
  <2>2. h[n + 1] = h[(n + 1) - 1]
    BY <1>1, <2>1 DEF Seens
  <2> QED BY <1>4, <2>1, <2>2
<1>5. Len(t) \in S
  <2> HIDE DEF S
  <2>1. 0..Len(t) \subseteq S
    BY <1>2, <1>3, <1>4, Stepwise
  <2> QED BY <1>2, <2>1
<1> QED BY <1>1, <1>5, ShownIs

\* Appending to some of them appends to the end of it.
LEMMA AppendChars ==
  ASSUME NEW s \in Seq(Chars), NEW t \in Seq(Chars), NEW e \in Chars
  PROVE  Append(s \o t, e) = s \o Append(t, e)
<1>1. <<e>> \in Seq(Chars) /\ s \o t \in Seq(Chars)
  BY ConcatProperties
<1>2. Append(s \o t, e) = (s \o t) \o <<e>> /\ Append(t, e) = t \o <<e>>
  BY <1>1, AppendIsConcat
<1> QED BY <1>1, <1>2, ConcatAssociative

\* What is seen of two texts, one after the other.
LEMMA ShownConcat ==
  ASSUME NEW s \in Seq(Glyph), NEW t \in Seq(Glyph)
  PROVE  Shown(s \o t) = Shown(s) \o Shown(t)
<1> DEFINE u == s \o t
<1>1. /\ u \in Seq(Glyph) /\ Len(u) = Len(s) + Len(t) /\ Len(s) \in Nat /\ Len(t) \in Nat
      /\ \A n \in 1..Len(s) : u[n] = s[n]
      /\ \A n \in 1..Len(t) : u[Len(s) + n] = t[n]
  <2>1. /\ u \in Seq(Glyph) /\ Len(u) = Len(s) + Len(t) /\ Len(s) \in Nat /\ Len(t) \in Nat
        /\ \A i \in 1..(Len(s) + Len(t)) : u[i] = IF i <= Len(s) THEN s[i] ELSE t[i - Len(s)]
    BY ConcatProperties, LenProperties
  <2> HIDE DEF u
  <2>2. ASSUME NEW n \in 1..Len(t) PROVE u[Len(s) + n] = t[n]
    <3>1. Len(s) + n \in 1..(Len(s) + Len(t)) /\ ~(Len(s) + n <= Len(s))
          /\ (Len(s) + n) - Len(s) = n
      BY <2>1
    <3> QED BY <2>1, <3>1
  <2> QED BY <2>1, <2>2
<1> HIDE DEF u
<1>2. PICK h : Seens(h, s)
  BY SeensExist
<1>3. PICK k : Seens(k, t)
  BY SeensExist
<1>4. PICK m : Seens(m, u)
  BY <1>1, SeensExist
<1> DEFINE S == {n \in 0..Len(s) : m[n] = h[n]}
           T == {n \in 0..Len(t) : m[Len(s) + n] = h[Len(s)] \o k[n]}
<1>5. Len(s) \in S
  <2>1. 0 \in S
    BY <1>1, <1>2, <1>4 DEF Seens
  <2>2. ASSUME NEW n \in 0..Len(s), n < Len(s), n \in S PROVE n + 1 \in S
    <3>1. n + 1 \in 1..Len(s) /\ n + 1 \in 0..Len(s) /\ n + 1 \in 1..Len(u) /\ (n + 1) - 1 = n
      BY <1>1, <2>2
    <3>2. u[n + 1] = s[n + 1] /\ m[n] = h[n]
      BY <1>1, <2>2, <3>1
    <3> QED BY <1>2, <1>4, <3>1, <3>2 DEF Seens
  <2> HIDE DEF S
  <2>3. 0..Len(s) \subseteq S
    BY <1>1, <2>1, <2>2, Stepwise
  <2> QED BY <1>1, <2>3
<1>6. h[Len(s)] \in Seq(Chars) /\ \A n \in 0..Len(t) : k[n] \in Seq(Chars)
  <2>1. h \in [0..Len(s) -> Seq(Chars)] /\ k \in [0..Len(t) -> Seq(Chars)]
    BY <1>2, <1>3 DEF Seens
  <2>2. Len(s) \in 0..Len(s)
    BY <1>1
  <2> QED BY <2>1, <2>2
<1>7. Len(t) \in T
  <2>1. 0 \in T
    <3>1. m[Len(s) + 0] = h[Len(s)] /\ k[0] = <<>>
      BY <1>1, <1>3, <1>5 DEF Seens
    <3>2. h[Len(s)] \o <<>> = h[Len(s)]
      BY <1>6, ConcatEmptySeq
    <3>3. m[Len(s) + 0] = h[Len(s)] \o k[0]
      BY <3>1, <3>2
    <3>4. 0 \in 0..Len(t)
      BY <1>1
    <3> QED BY <3>3, <3>4
  <2>2. ASSUME NEW n \in 0..Len(t), n < Len(t), n \in T PROVE n + 1 \in T
    <3> DEFINE i == Len(s) + (n + 1)
    <3>1. /\ n + 1 \in 1..Len(t) /\ n + 1 \in 0..Len(t) /\ i \in 1..Len(u)
          /\ (n + 1) - 1 = n /\ i - 1 = Len(s) + n
      BY <1>1, <2>2
    <3>2. u[i] = t[n + 1] /\ m[Len(s) + n] = h[Len(s)] \o k[n]
      BY <1>1, <2>2, <3>1
    <3>3. /\ m[i] = IF Wide(u[i]) THEN Append(m[i - 1], u[i]) ELSE m[i - 1]
          /\ k[n + 1] = IF Wide(t[n + 1]) THEN Append(k[(n + 1) - 1], t[n + 1]) ELSE k[(n + 1) - 1]
      <4> HIDE DEF i
      <4> QED BY <1>3, <1>4, <3>1 DEF Seens
    <3> HIDE DEF i
    <3>4. CASE ~Wide(t[n + 1])
      <4>1. m[i] = h[Len(s)] \o k[n + 1]
        BY <3>1, <3>2, <3>3, <3>4
      <4> QED BY <3>1, <4>1 DEF i
    <3>5. CASE Wide(t[n + 1])
      <4>1. t[n + 1] \in Chars
        BY <3>5 DEF Wide
      <4>2. Append(h[Len(s)] \o k[n], t[n + 1]) = h[Len(s)] \o Append(k[n], t[n + 1])
        <5>1. k[n] \in Seq(Chars) /\ h[Len(s)] \in Seq(Chars)
          BY <1>6, <2>2
        <5>2. \A x, y \in Seq(Chars) : \A e \in Chars : Append(x \o y, e) = x \o Append(y, e)
          BY AppendChars
        <5> QED BY <4>1, <5>1, <5>2
      <4>3. m[i] = h[Len(s)] \o k[n + 1]
        BY <3>1, <3>2, <3>3, <3>5, <4>2
      <4> QED BY <3>1, <4>3 DEF i
    <3> QED BY <3>4, <3>5
  <2> HIDE DEF T
  <2>3. 0..Len(t) \subseteq T
    BY <1>1, <2>1, <2>2, Stepwise
  <2> QED BY <1>1, <2>3
<1>8. Shown(u) = m[Len(u)] /\ Shown(s) = h[Len(s)] /\ Shown(t) = k[Len(t)]
  BY <1>1, <1>2, <1>3, <1>4, ShownIs
<1>9. m[Len(u)] = h[Len(s)] \o k[Len(t)]
  BY <1>1, <1>7
<1> QED BY <1>8, <1>9 DEF u

\* A part of a text.
LEMMA PartOfText ==
  ASSUME NEW t \in Seq(Glyph), NEW p \in 0..Len(t), NEW q \in p..Len(t)
  PROVE  /\ SubSeq(t, p + 1, q) \in Seq(Glyph) /\ Len(SubSeq(t, p + 1, q)) = q - p
         /\ \A i \in 1..(q - p) : SubSeq(t, p + 1, q)[i] = t[p + i]
<1>1. Len(t) \in Nat /\ \A n \in 1..Len(t) : t[n] \in Glyph
  BY LenProperties, ElementOfSeq
<1>2. p \in Nat /\ q \in Nat /\ p <= q /\ q <= Len(t)
  BY <1>1
<1>3. p + 1 \in Int /\ q \in Int /\ \A n \in (p + 1)..q : t[n] \in Glyph
  <2>1. \A n \in (p + 1)..q : n \in 1..Len(t)
    BY <1>1, <1>2
  <2> QED BY <1>1, <1>2, <2>1
<1>4. /\ SubSeq(t, p + 1, q) \in Seq(Glyph)
      /\ Len(SubSeq(t, p + 1, q)) = IF p + 1 <= q THEN q - (p + 1) + 1 ELSE 0
      /\ \A i \in 1..(q - (p + 1) + 1) : SubSeq(t, p + 1, q)[i] = t[(p + 1) + i - 1]
  BY <1>3, SubSeqProperties
<1>5. ASSUME NEW i \in 1..(q - p) PROVE SubSeq(t, p + 1, q)[i] = t[p + i]
  <2>1. i \in 1..(q - (p + 1) + 1) /\ (p + 1) + i - 1 = p + i
    BY <1>2
  <2> QED BY <1>4, <2>1
<1>6. (IF p + 1 <= q THEN q - (p + 1) + 1 ELSE 0) = q - p
  BY <1>2
<1> QED BY <1>4, <1>5, <1>6

\* What is seen of a text is seen of its parts.
LEMMA ShownParts ==
  ASSUME NEW t \in Seq(Glyph), NEW p \in 0..Len(t), NEW q \in p..Len(t), NEW r \in q..Len(t)
  PROVE  Shown(SubSeq(t, p + 1, r)) = Shown(SubSeq(t, p + 1, q)) \o Shown(SubSeq(t, q + 1, r))
<1>1. Len(t) \in Nat
  BY LenProperties
<1>2. q \in 0..Len(t) /\ p + 1 \in 1..(Len(t) + 1) /\ q \in ((p + 1) - 1)..Len(t)
  BY <1>1
<1>3. SubSeq(t, p + 1, q) \o SubSeq(t, q + 1, r) = SubSeq(t, p + 1, r)
  <2>1. PICK m : m = p + 1
    OBVIOUS
  <2>2. m \in 1..(Len(t) + 1) /\ q \in (m - 1)..Len(t)
    BY <1>2, <2>1
  <2>3. SubSeq(t, m, q) \o SubSeq(t, q + 1, r) = SubSeq(t, m, r)
    BY <2>2, ConcatAdjacentSubSeq
  <2> QED BY <2>1, <2>3
<1>4. SubSeq(t, p + 1, q) \in Seq(Glyph) /\ SubSeq(t, q + 1, r) \in Seq(Glyph)
  BY <1>2, PartOfText
<1> QED BY <1>3, <1>4, ShownConcat

\* Nothing is seen of an empty part.
LEMMA NothingOfNothing ==
  ASSUME NEW t \in Seq(Glyph), NEW p \in 0..Len(t)
  PROVE  SubSeq(t, p + 1, p) = <<>> /\ Shown(<<>>) = <<>>
<1>1. p + 1 \in Int /\ p \in Int /\ p < p + 1
  BY LenProperties
<1>2. SubSeq(t, p + 1, p) = <<>>
  BY <1>1, SubSeqEmpty
<1>3. <<>> \in Seq(Glyph) /\ Len(<<>>) = 0
  BY EmptySeq
<1>4. \A n \in 1..0 : FALSE
  OBVIOUS
<1>5. Shown(<<>>) = <<>>
  BY <1>3, <1>4, NothingShown
<1> QED BY <1>2, <1>5

\* A part of a line is a part of the text.
LEMMA LineInText ==
  ASSUME NEW b, Sound(b), NEW row \in 0..LastRow(b),
         NEW p \in 0..Len(Line(b, row)), NEW q \in p..Len(Line(b, row))
  PROVE  SubSeq(ToText(b), RowStart(b, row) + p + 1, RowStart(b, row) + q)
           = SubSeq(Line(b, row), p + 1, q)
<1> DEFINE T == ToText(b)
           t == Line(b, row)
           s == RowStart(b, row)
<1>1. T \in Seq(Glyph) /\ t \in Seq(Glyph)
  BY SoundRows, PlacesOfLine
<1>2. /\ s \in Nat /\ Len(t) \in Nat /\ s + Len(t) \in 0..Len(T)
      /\ \A i \in 0..(Len(t) - 1) : T[s + i + 1] = t[i + 1]
  BY TextAt
<1> HIDE DEF T, t, s
<1>3. Len(T) \in Nat /\ p \in Nat /\ q \in Nat /\ p <= q /\ q <= Len(t) /\ s + Len(t) <= Len(T)
  BY <1>1, <1>2, LenProperties DEF t
<1>4. s + p \in 0..Len(T) /\ s + q \in (s + p)..Len(T) /\ q \in p..Len(t) /\ p \in 0..Len(t)
  BY <1>2, <1>3
<1>5. PICK u, v : u = s + p /\ v = s + q
  OBVIOUS
<1>6. v - u = q - p
  BY <1>2, <1>3, <1>5
<1>7. /\ SubSeq(T, u + 1, v) \in Seq(Glyph) /\ Len(SubSeq(T, u + 1, v)) = q - p
      /\ \A i \in 1..(q - p) : SubSeq(T, u + 1, v)[i] = T[u + i]
  <2>1. u \in 0..Len(T) /\ v \in u..Len(T)
    BY <1>4, <1>5
  <2>2. /\ SubSeq(T, u + 1, v) \in Seq(Glyph) /\ Len(SubSeq(T, u + 1, v)) = v - u
        /\ \A i \in 1..(v - u) : SubSeq(T, u + 1, v)[i] = T[u + i]
    BY <1>1, <2>1, PartOfText
  <2> QED BY <1>6, <2>2
<1>8. /\ SubSeq(t, p + 1, q) \in Seq(Glyph) /\ Len(SubSeq(t, p + 1, q)) = q - p
      /\ \A i \in 1..(q - p) : SubSeq(t, p + 1, q)[i] = t[p + i]
  BY <1>1, <1>4, PartOfText
<1>9. ASSUME NEW i \in 1..(q - p) PROVE SubSeq(T, u + 1, v)[i] = SubSeq(t, p + 1, q)[i]
  <2>1. PICK k \in 0..(Len(t) - 1) : k = p + i - 1
    <3>1. p + i - 1 \in 0..(Len(t) - 1)
      BY <1>2, <1>3
    <3> QED BY <3>1
  <2>2. s + k + 1 = u + i /\ k + 1 = p + i
    BY <1>2, <1>3, <1>5, <2>1
  <2>3. T[s + k + 1] = t[k + 1]
    BY <1>2
  <2> QED BY <1>7, <1>8, <2>2, <2>3
<1>10. SubSeq(T, u + 1, v) = SubSeq(t, p + 1, q)
  BY <1>7, <1>8, <1>9, SeqEqual
<1> QED BY <1>5, <1>10 DEF T, t, s

\* Behind the place where all columns of a part are, there are none.
LEMMA NoColumnsLeft ==
  ASSUME NEW t, NEW from \in Nat, NEW mid \in Nat, NEW to \in Nat, from <= mid, mid <= to,
         ColumnsIn(t, from, to) <= ColumnsIn(t, from, mid),
         NEW p \in mid..(to - 1)
  PROVE  ~(StartsAt(t, p) /\ Columns[t[p + 1]] = 1)
<1> DEFINE P == InColumns(t, from, mid)
           Q == InColumns(t, from, to)
<1> SUFFICES ASSUME StartsAt(t, p), Columns[t[p + 1]] = 1 PROVE FALSE
  OBVIOUS
<1>1. p \in Q /\ p \notin P /\ P \subseteq Q
  <2>1. p \in from..(to - 1) /\ p \notin from..(mid - 1) /\ from..(mid - 1) \subseteq from..(to - 1)
    OBVIOUS
  <2> QED BY <2>1 DEF InColumns
<1>2. /\ IsFiniteSet(P) /\ IsFiniteSet(Q)
      /\ ColumnsIn(t, from, mid) = Cardinality(P) /\ ColumnsIn(t, from, to) = Cardinality(Q)
  BY InColumnsFinite
<1> HIDE DEF P, Q
<1>3. P \cup {p} \subseteq Q /\ Cardinality(P \cup {p}) = Cardinality(P) + 1
  BY <1>1, <1>2, FS_AddElement
<1>4. Cardinality(P \cup {p}) <= Cardinality(Q)
  BY <1>2, <1>3, FS_Subset
<1>5. Cardinality(P) \in Nat /\ Cardinality(Q) \in Nat
  BY <1>2, FS_CardinalityType
<1> QED BY <1>2, <1>3, <1>4, <1>5

\* The greater and the less of two numbers.
LEMMA OfTwo ==
  ASSUME NEW m \in Nat, NEW n \in Nat
  PROVE  /\ Max({m, n}) = IF m < n THEN n ELSE m
         /\ Min({m, n}) = IF m < n THEN m ELSE n
<1>1. m + n \in Nat /\ {m, n} \in SUBSET (0..(m + n)) /\ {m, n} # {} /\ {m, n} \in SUBSET Nat
  OBVIOUS
<1>2. Max({m, n}) \in {m, n} /\ \A y \in {m, n} : y <= Max({m, n})
  BY <1>1, MaxRight
<1>3. Min({m, n}) \in {m, n} /\ \A y \in {m, n} : Min({m, n}) <= y
  BY <1>1, MinRight
<1>4. PICK x : x = Max({m, n})
  OBVIOUS
<1>5. PICK z : z = Min({m, n})
  OBVIOUS
<1>6. (x = m \/ x = n) /\ m <= x /\ n <= x /\ (z = m \/ z = n) /\ z <= m /\ z <= n
  BY <1>2, <1>3, <1>4, <1>5
<1>7. x = (IF m < n THEN n ELSE m) /\ z = (IF m < n THEN m ELSE n)
  BY <1>6
<1> QED BY <1>4, <1>5, <1>7

\* An offset, or the nearest one in the selection from a to z.
Clamped(a, z, x) == IF x < a THEN a ELSE IF x > z THEN z ELSE x

\* The ends f and g of a part at s, and those of what it has of the selection.
PartClamped(a, z, s) ==
  \A f, g, m, n \in Nat :
    /\ f <= g /\ f <= m /\ a <= s + m /\ (m = f \/ s + m = a)
    /\ n <= g /\ s + n <= z /\ (n = g \/ s + n = z)
    => /\ m < n => Clamped(a, z, s + f) = s + m /\ Clamped(a, z, s + g) = s + n
       /\ ~(m < n) => Clamped(a, z, s + f) = Clamped(a, z, s + g)

\* These are the same, or the part has nothing of it.
LEMMA ClampedPart ==
  ASSUME NEW a \in Nat, NEW z \in Nat, a <= z, NEW s \in Nat
  PROVE  PartClamped(a, z, s)
BY DEF Clamped, PartClamped

\* A part outside the selection has nothing of it.
LEMMA ClampedAside ==
  ASSUME NEW a \in Nat, NEW z \in Nat, a <= z, NEW s \in Nat,
         NEW f \in Nat, NEW g \in Nat, f <= g, a = z \/ s + g < a \/ z < s + f
  PROVE  Clamped(a, z, s + f) = Clamped(a, z, s + g)
BY DEF Clamped

\* The nearest offsets in the selection lie in it, and in the same order.
LEMMA ClampedRight ==
  ASSUME NEW a \in Nat, NEW z \in Nat, a <= z, NEW x \in Nat, NEW y \in Nat, x <= y
  PROVE  /\ Clamped(a, z, x) \in Nat /\ Clamped(a, z, y) \in Nat
         /\ Clamped(a, z, x) <= Clamped(a, z, y) /\ Clamped(a, z, y) <= z
         /\ a <= Clamped(a, z, x)
BY DEF Clamped

\* Where the selection starts and ends.
LEMMA SelectionBounds ==
  ASSUME NEW b, Good(b), NEW a, a = Offset(b, Selected(b).from),
         NEW z, z = Offset(b, Selected(b).to)
  PROVE  /\ a \in Nat /\ z \in Nat /\ a <= z /\ z <= Len(ToText(b))
         /\ ~HasSelection(b) => a = z
         /\ \A pos \in {Selected(b).from, Selected(b).to} :
              /\ pos \in Places /\ IsPlace(b, pos) /\ pos.row \in 0..LastRow(b)
              /\ pos.col \in 0..Len(Line(b, pos.row)) /\ Len(Line(b, pos.row)) \in Nat
              /\ Offset(b, pos) = RowStart(b, pos.row) + pos.col
<1>1. Sound(b)
  BY GoodParts
<1>2. /\ \A pos \in {Selected(b).from, Selected(b).to} : pos \in Places /\ IsPlace(b, pos)
      /\ a <= z /\ (~HasSelection(b) => a = z)
  BY SelectedRight
<1>3. ASSUME NEW pos \in {Selected(b).from, Selected(b).to}
      PROVE  /\ pos.row \in 0..LastRow(b) /\ pos.col \in 0..Len(Line(b, pos.row))
             /\ Offset(b, pos) = RowStart(b, pos.row) + pos.col
             /\ Len(Line(b, pos.row)) \in Nat
             /\ Offset(b, pos) \in Nat /\ Offset(b, pos) <= Len(ToText(b))
  <2>1. /\ pos.row \in 0..LastRow(b) /\ pos.col \in 0..Len(Line(b, pos.row))
        /\ Offset(b, pos) = RowStart(b, pos.row) + pos.col
    BY <1>1, <1>2, PlaceIsNormal
  <2>2. /\ RowStart(b, pos.row) \in Nat /\ Len(Line(b, pos.row)) \in Nat
        /\ RowStart(b, pos.row) + Len(Line(b, pos.row)) \in 0..Len(ToText(b))
    BY <1>1, <2>1, TextAt
  <2>3. Len(ToText(b)) \in Nat
    BY <1>1, SoundRows
  <2> QED BY <2>1, <2>2, <2>3
<1> QED BY <1>2, <1>3

\* What is drawn again of a row of the screen is seen as what is selected of it.
LEMMA PieceShows ==
  ASSUME NEW b, Good(b), NEW columns \in Nat \ {0},
         NEW x, x.row \in 0..LastRow(b), Fits(x, Line(b, x.row), x.row, columns),
         NEW a, a = Offset(b, Selected(b).from), NEW z, z = Offset(b, Selected(b).to)
  PROVE  /\ SelectedIn(b, x, columns) \in Seq(Glyph)
         /\ Clamped(a, z, RowStart(b, x.row) + x.from) \in Nat
         /\ Clamped(a, z, RowStart(b, x.row) + x.from)
              <= Clamped(a, z, RowStart(b, x.row) + x.to)
         /\ Clamped(a, z, RowStart(b, x.row) + x.to) \in 0..Len(ToText(b))
         /\ Shown(SelectedIn(b, x, columns)) =
              Shown(SubSeq(ToText(b), Clamped(a, z, RowStart(b, x.row) + x.from) + 1,
                                      Clamped(a, z, RowStart(b, x.row) + x.to)))
<1> DEFINE T == ToText(b)
           t == Line(b, x.row)
           s == RowStart(b, x.row)
           from == Selected(b).from
           to   == Selected(b).to
           p == Max({x.from, IF x.row = from.row THEN from.col ELSE 0})
           q == Min({x.to, IF x.row = to.row THEN to.col ELSE Len(t)})
           c == Clamped(a, z, s + x.from)
           d == Clamped(a, z, s + x.to)
           piece == SelectedIn(b, x, columns)
<1>1. /\ Sound(b) /\ T \in Seq(Glyph) /\ Len(T) \in Nat /\ GoodLine(t) /\ t \in Seq(Glyph)
      /\ LastRow(b) \in Nat /\ x.row \in Nat
  <2>1. /\ Sound(b) /\ T \in Seq(Glyph) /\ Len(T) \in Nat /\ GoodLine(t) /\ LastRow(b) \in Nat
    BY GoodParts, SoundRows
  <2> QED BY <2>1, PlacesOfLine
<1>2. /\ s \in Nat /\ Len(t) \in Nat /\ s + Len(t) \in 0..Len(T)
  BY <1>1, TextAt
<1>3. /\ x.from \in Nat /\ x.to \in Nat /\ x.from <= x.to /\ x.to <= Len(t)
      /\ x.from \in Boundaries(t) /\ x.to \in Boundaries(t)
      /\ ColumnsIn(t, x.from, x.to) <= columns
  BY <1>1, PlacesOfLine DEF Fits, Chunks
<1>4. /\ a \in Nat /\ z \in Nat /\ a <= z /\ z <= Len(T) /\ (~HasSelection(b) => a = z)
  BY SelectionBounds
<1>5. /\ from.row \in 0..LastRow(b) /\ from.col \in Nat /\ from.col <= Len(Line(b, from.row))
      /\ Len(Line(b, from.row)) \in Nat /\ a = RowStart(b, from.row) + from.col
      /\ RowStart(b, from.row) \in Nat
  <2>1. /\ from.row \in 0..LastRow(b) /\ from.col \in 0..Len(Line(b, from.row))
        /\ Len(Line(b, from.row)) \in Nat /\ a = RowStart(b, from.row) + from.col
    BY SelectionBounds
  <2>2. RowStart(b, from.row) \in Nat
    BY <1>1, <2>1, TextAt
  <2> QED BY <2>1, <2>2
<1>6. /\ to.row \in 0..LastRow(b) /\ to.col \in Nat /\ to.col <= Len(Line(b, to.row))
      /\ Len(Line(b, to.row)) \in Nat /\ z = RowStart(b, to.row) + to.col
      /\ RowStart(b, to.row) \in Nat
  <2>1. /\ to.row \in 0..LastRow(b) /\ to.col \in 0..Len(Line(b, to.row))
        /\ Len(Line(b, to.row)) \in Nat /\ z = RowStart(b, to.row) + to.col
    BY SelectionBounds
  <2>2. RowStart(b, to.row) \in Nat
    BY <1>1, <2>1, TextAt
  <2> QED BY <2>1, <2>2
<1>7. /\ from.row < x.row => a < s
      /\ x.row < from.row => s + Len(t) < a
      /\ x.row = from.row => a = s + from.col
  <2>1. from.row < x.row => a < s
    <3>1. from.row < x.row => RowStart(b, from.row) + Len(Line(b, from.row)) < s
      BY <1>1, <1>5, RowsInOrder
    <3> QED BY <1>2, <1>5, <3>1
  <2>2. x.row < from.row => s + Len(t) < a
    <3>1. x.row < from.row => s + Len(t) < RowStart(b, from.row)
      BY <1>1, <1>5, RowsInOrder
    <3> QED BY <1>2, <1>5, <3>1
  <2> QED BY <1>5, <2>1, <2>2
<1>8. /\ to.row < x.row => z < s
      /\ x.row < to.row => s + Len(t) < z
      /\ x.row = to.row => z = s + to.col
  <2>1. to.row < x.row => z < s
    <3>1. to.row < x.row => RowStart(b, to.row) + Len(Line(b, to.row)) < s
      BY <1>1, <1>6, RowsInOrder
    <3> QED BY <1>2, <1>6, <3>1
  <2>2. x.row < to.row => s + Len(t) < z
    <3>1. x.row < to.row => s + Len(t) < RowStart(b, to.row)
      BY <1>1, <1>6, RowsInOrder
    <3> QED BY <1>2, <1>6, <3>1
  <2> QED BY <1>6, <2>1, <2>2
<1>9. piece = IF /\ HasSelection(b) /\ x.row \in from.row..to.row
                 /\ p < q /\ ColumnsIn(t, x.from, p) < columns
              THEN SubSeq(t, p + 1, q) ELSE <<>>
  BY DEF SelectedIn
<1>10. /\ p = (IF x.from < (IF x.row = from.row THEN from.col ELSE 0)
               THEN (IF x.row = from.row THEN from.col ELSE 0) ELSE x.from)
       /\ q = (IF x.to < (IF x.row = to.row THEN to.col ELSE Len(t))
               THEN x.to ELSE (IF x.row = to.row THEN to.col ELSE Len(t)))
  <2>1. PICK m \in Nat : m = IF x.row = from.row THEN from.col ELSE 0
    BY <1>5
  <2>2. PICK n \in Nat : n = IF x.row = to.row THEN to.col ELSE Len(t)
    BY <1>2, <1>6
  <2>3. p = Max({x.from, m}) /\ q = Min({x.to, n})
    BY <2>1, <2>2
  <2>4. Max({x.from, m}) = (IF x.from < m THEN m ELSE x.from)
    BY <1>3, OfTwo
  <2>5. Min({x.to, n}) = (IF x.to < n THEN x.to ELSE n)
    BY <1>3, OfTwo
  <2> HIDE DEF p, q
  <2> QED BY <2>1, <2>2, <2>3, <2>4, <2>5
<1>11. c = Clamped(a, z, s + x.from) /\ d = Clamped(a, z, s + x.to)
  OBVIOUS
<1> HIDE DEF piece, c, d, p, q, s, t, T, from, to
<1>12. c \in Nat /\ d \in Nat /\ c <= d /\ d <= Len(T)
  <2>1. \A f, g \in Nat : f <= g =>
          /\ Clamped(a, z, f) \in Nat /\ Clamped(a, z, g) \in Nat
          /\ Clamped(a, z, f) <= Clamped(a, z, g) /\ Clamped(a, z, g) <= z
    BY <1>4, ClampedRight
  <2>2. s + x.from \in Nat /\ s + x.to \in Nat /\ s + x.from <= s + x.to
    BY <1>2, <1>3
  <2>3. c \in Nat /\ d \in Nat /\ c <= d /\ d <= z
    BY <1>11, <2>1, <2>2
  <2> QED BY <1>1, <1>4, <2>3
<1>16. PartClamped(a, z, s)
  BY <1>2, <1>4, ClampedPart
<1>13. ASSUME x.row \in from.row..to.row
       PROVE  /\ p \in Nat /\ x.from <= p /\ a <= s + p /\ (p = x.from \/ s + p = a)
              /\ q \in Nat /\ q <= x.to /\ s + q <= z /\ (q = x.to \/ s + q = z)
  <2>1. (from.row = x.row \/ from.row < x.row) /\ (to.row = x.row \/ x.row < to.row)
    <3>1. from.row \in Nat /\ to.row \in Nat
      BY <1>1, <1>5, <1>6
    <3> QED BY <1>1, <1>13, <3>1
  <2>2. /\ p \in Nat /\ x.from <= p /\ a <= s + p /\ (p = x.from \/ s + p = a)
    <3>1. CASE from.row = x.row
      <4>1. a = s + from.col /\ p = (IF x.from < from.col THEN from.col ELSE x.from)
        BY <1>7, <1>10, <3>1
      <4>2. from.col \in Nat
        BY <1>5
      <4> QED BY <1>2, <1>3, <4>1, <4>2
    <3>2. CASE from.row < x.row
      <4>1. a < s /\ from.row # x.row
        BY <1>1, <1>5, <1>7, <3>2
      <4>2. p = x.from
        BY <1>3, <1>10, <4>1
      <4> QED BY <1>2, <1>3, <1>4, <4>1, <4>2
    <3> QED BY <2>1, <3>1, <3>2
  <2>3. /\ q \in Nat /\ q <= x.to /\ s + q <= z /\ (q = x.to \/ s + q = z)
    <3>1. CASE to.row = x.row
      <4>1. z = s + to.col /\ q = (IF x.to < to.col THEN x.to ELSE to.col)
        BY <1>8, <1>10, <3>1
      <4>2. to.col \in Nat
        BY <1>6
      <4> QED BY <1>2, <1>3, <4>1, <4>2
    <3>2. CASE x.row < to.row
      <4>1. s + Len(t) < z /\ to.row # x.row
        BY <1>1, <1>6, <1>8, <3>2
      <4>2. q = x.to
        BY <1>2, <1>3, <1>10, <4>1
      <4> QED BY <1>2, <1>3, <1>4, <4>1, <4>2
    <3> QED BY <2>1, <3>1, <3>2
  <2> QED BY <2>2, <2>3
<1>14. piece \in Seq(Glyph) /\ Shown(piece) = Shown(SubSeq(T, c + 1, d))
  <2>1. CASE /\ HasSelection(b) /\ x.row \in from.row..to.row /\ p < q
    <3>1. /\ p \in Nat /\ x.from <= p /\ a <= s + p /\ (p = x.from \/ s + p = a)
      BY <1>13, <2>1
    <3>2. /\ q \in Nat /\ q <= x.to /\ s + q <= z /\ (q = x.to \/ s + q = z)
      BY <1>13, <2>1
    <3>3. c = s + p /\ d = s + q
      BY <1>3, <1>11, <1>16, <2>1, <3>1, <3>2 DEF PartClamped
    <3>4. p \in 0..Len(t) /\ q \in p..Len(t)
      BY <1>2, <1>3, <2>1, <3>1, <3>2
    <3>5. SubSeq(T, c + 1, d) = SubSeq(t, p + 1, q)
      <4>1. SubSeq(T, s + p + 1, s + q) = SubSeq(t, p + 1, q)
        BY <1>1, <3>4, LineInText DEF T, s, t
      <4> QED BY <3>3, <4>1
    <3>6. /\ SubSeq(t, p + 1, q) \in Seq(Glyph) /\ Len(SubSeq(t, p + 1, q)) = q - p
          /\ \A i \in 1..(q - p) : SubSeq(t, p + 1, q)[i] = t[p + i]
      BY <1>1, <3>4, PartOfText
    <3>7. CASE ColumnsIn(t, x.from, p) < columns
      <4>1. piece = SubSeq(t, p + 1, q)
        BY <1>9, <2>1, <3>7
      <4> QED BY <3>5, <3>6, <4>1
    <3>8. CASE ~(ColumnsIn(t, x.from, p) < columns)
      <4>1. piece = <<>>
        BY <1>9, <3>8
      <4>2. ColumnsIn(t, x.from, p) \in Nat /\ ColumnsIn(t, x.from, x.to) \in Nat
        BY <1>3, <3>1, ColumnsRight
      <4>3. ColumnsIn(t, x.from, x.to) <= ColumnsIn(t, x.from, p)
        BY <1>3, <3>8, <4>2
      <4>4. ASSUME NEW i \in 1..(q - p) PROVE ~Wide(SubSeq(t, p + 1, q)[i])
        <5>1. PICK k \in p..(x.to - 1) : k + 1 = p + i
          <6>1. p + i - 1 \in p..(x.to - 1) /\ (p + i - 1) + 1 = p + i
            BY <1>3, <2>1, <3>1, <3>2
          <6> QED BY <6>1
        <5>2. ~(StartsAt(t, k) /\ Columns[t[k + 1]] = 1)
          <6>1. p <= x.to
            BY <1>3, <2>1, <3>1, <3>2
          <6> QED BY <1>3, <3>1, <4>3, <6>1, NoColumnsLeft
        <5>3. k < Len(t)
          BY <1>2, <1>3, <3>1
        <5>4. ~Wide(t[k + 1])
          BY <5>2, <5>3, Utf8Assumption DEF Wide, StartsAt
        <5>5. SubSeq(t, p + 1, q)[i] = t[k + 1]
          BY <3>6, <5>1
        <5> QED BY <5>4, <5>5
      <4>5. Shown(SubSeq(t, p + 1, q)) = <<>>
        <5> DEFINE u == SubSeq(t, p + 1, q)
        <5>1. u \in Seq(Glyph) /\ \A n \in 1..Len(u) : ~Wide(u[n])
          BY <3>6, <4>4
        <5> HIDE DEF u
        <5>2. Shown(u) = <<>>
          BY <5>1, NothingShown
        <5> QED BY <5>2 DEF u
      <4>6. Shown(<<>>) = <<>> /\ <<>> \in Seq(Glyph)
        BY <1>1, <3>4, NothingOfNothing, EmptySeq
      <4> QED BY <3>5, <4>1, <4>5, <4>6
    <3> QED BY <3>7, <3>8
  <2>2. CASE ~(/\ HasSelection(b) /\ x.row \in from.row..to.row /\ p < q)
    <3>1. piece = <<>>
      BY <1>9, <2>2
    <3>2. c = d
      <4>0. a = z \/ s + x.to < a \/ z < s + x.from => c = d
        <5>1. \A f, g \in Nat : f <= g /\ (a = z \/ s + g < a \/ z < s + f) =>
                Clamped(a, z, s + f) = Clamped(a, z, s + g)
          BY <1>2, <1>4, ClampedAside
        <5> QED BY <1>3, <1>11, <5>1
      <4>1. CASE ~HasSelection(b)
        BY <1>4, <4>0, <4>1
      <4>2. CASE x.row < from.row
        <5>1. s + x.to < a
          BY <1>2, <1>3, <1>4, <1>7, <4>2
        <5> QED BY <4>0, <5>1
      <4>3. CASE to.row < x.row
        <5>1. z < s + x.from
          BY <1>2, <1>3, <1>4, <1>8, <4>3
        <5> QED BY <4>0, <5>1
      <4>4. x.row \in from.row..to.row \/ x.row < from.row \/ to.row < x.row
        <5>1. x.row \in Nat /\ from.row \in Nat /\ to.row \in Nat
          BY <1>1, <1>5, <1>6
        <5> QED BY <5>1
      <4>5. CASE ~(x.row < from.row) /\ ~(to.row < x.row) /\ ~(p < q)
        <5>1. x.row \in from.row..to.row
          BY <4>5, <4>4
        <5>2. /\ p \in Nat /\ x.from <= p /\ a <= s + p /\ (p = x.from \/ s + p = a)
          BY <1>13, <5>1
        <5>3. /\ q \in Nat /\ q <= x.to /\ s + q <= z /\ (q = x.to \/ s + q = z)
          BY <1>13, <5>1
        <5> QED BY <1>3, <1>11, <1>16, <4>5, <5>2, <5>3 DEF PartClamped
      <4> QED BY <2>2, <4>1, <4>2, <4>3, <4>4, <4>5
    <3>3. SubSeq(T, c + 1, d) = <<>>
      <4>1. c \in 0..Len(T)
        BY <1>1, <1>12, <3>2
      <4> QED BY <1>1, <3>2, <4>1, NothingOfNothing
    <3>4. <<>> \in Seq(Glyph)
      BY EmptySeq
    <3> QED BY <3>1, <3>3, <3>4
  <2> QED BY <2>1, <2>2
<1>15. d \in 0..Len(T)
  BY <1>1, <1>12
<1> QED BY <1>12, <1>14, <1>15 DEF piece, c, d, s, T

\* One offset further, the nearest one in the selection is the same or one further.
LEMMA ClampedNext ==
  ASSUME NEW a \in Nat, NEW z \in Nat, a <= z, NEW x \in Nat
  PROVE  \/ Clamped(a, z, x + 1) = Clamped(a, z, x)
         \/ Clamped(a, z, x) = x /\ Clamped(a, z, x + 1) = x + 1
BY DEF Clamped

\* The nearest offset to the start is where the selection starts, that to one
\* behind it where it ends.
LEMMA ClampedEnds ==
  ASSUME NEW a \in Nat, NEW z \in Nat, a <= z
  PROVE  /\ Clamped(a, z, 0) = a
         /\ \A x \in Nat : z <= x => Clamped(a, z, x) = z
BY DEF Clamped

\* The end of a line is not seen.
LEMMA NewLineUnseen ==
  ASSUME NEW t \in Seq(Glyph), NEW r \in 0..Len(t), r < Len(t), t[r + 1] = NewLine
  PROVE  Shown(SubSeq(t, r + 1, r + 1)) = <<>>
<1>1. Len(t) \in Nat
  BY LenProperties
<1>2. PICK q : q = r + 1
  OBVIOUS
<1>3. q \in r..Len(t) /\ q - r = 1
  BY <1>1, <1>2
<1>4. /\ SubSeq(t, r + 1, q) \in Seq(Glyph) /\ Len(SubSeq(t, r + 1, q)) = 1
      /\ \A i \in 1..1 : SubSeq(t, r + 1, q)[i] = t[r + i]
  BY <1>3, PartOfText
<1> DEFINE u == SubSeq(t, r + 1, q)
<1>5. ASSUME NEW i \in 1..1 PROVE ~Wide(u[i])
  <2>1. r + i = r + 1
    OBVIOUS
  <2>2. u[i] = NewLine
    BY <1>4, <2>1
  <2> QED BY <2>2, FoldAssumption DEF Wide
<1>6. u \in Seq(Glyph) /\ \A i \in 1..Len(u) : ~Wide(u[i])
  BY <1>4, <1>5
<1> HIDE DEF u
<1>7. Shown(u) = <<>>
  BY <1>6, NothingShown
<1> QED BY <1>2, <1>7 DEF u

\* Where the selection got to with the first rows of the screen.
Ended(b, rows, a, z, n) ==
  IF n = 0 THEN a ELSE Clamped(a, z, RowStart(b, rows[n].row) + rows[n].to)

\* From there to the next row of the screen nothing is seen.
LEMMA GapShows ==
  ASSUME NEW b, Good(b), NEW columns \in Nat \ {0},
         NEW rows, rows = VisualRows(b, columns), NEW i \in 1..Len(rows),
         NEW a \in Nat, NEW z \in Nat, a <= z, z <= Len(ToText(b)),
         NEW e, e = Clamped(a, z, RowStart(b, rows[i].row) + rows[i].from)
  PROVE  /\ Ended(b, rows, a, z, i - 1) \in 0..Len(ToText(b))
         /\ e \in Nat /\ Ended(b, rows, a, z, i - 1) <= e /\ e <= Len(ToText(b))
         /\ Shown(SubSeq(ToText(b), Ended(b, rows, a, z, i - 1) + 1, e)) = <<>>
<1> DEFINE T == ToText(b)
           L == Len(b.lines)
           y == rows[i]
           c == Ended(b, rows, a, z, i - 1)
<1>1. /\ Sound(b) /\ T \in Seq(Glyph) /\ Len(T) \in Nat
      /\ L \in Nat \ {0} /\ LastRow(b) = L - 1 /\ b.lines \in Rows
  BY GoodParts, SoundRows, RowsRight
<1>2. Walked(rows, b, L, columns)
  BY <1>1, VisualRowsRight
<1>3. ASSUME NEW k \in 1..Len(rows)
      PROVE  /\ rows[k].row \in 0..LastRow(b) /\ rows[k].from \in Nat /\ rows[k].to \in Nat
             /\ rows[k].to <= Len(Line(b, rows[k].row))
             /\ rows[k].from <= Len(Line(b, rows[k].row))
             /\ RowStart(b, rows[k].row) \in Nat /\ Len(Line(b, rows[k].row)) \in Nat
             /\ RowStart(b, rows[k].row) + Len(Line(b, rows[k].row)) \in 0..Len(T)
  <2>1. rows[k].row < L /\ Fits(rows[k], Line(b, rows[k].row), rows[k].row, columns)
    BY <1>2 DEF Walked
  <2>2. rows[k].row \in 0..LastRow(b)
    BY <1>1, <2>1 DEF Fits, Chunks
  <2>3. /\ RowStart(b, rows[k].row) \in Nat /\ Len(Line(b, rows[k].row)) \in Nat
        /\ RowStart(b, rows[k].row) + Len(Line(b, rows[k].row)) \in 0..Len(T)
    BY <1>1, <2>2, TextAt
  <2>4. GoodLine(Line(b, rows[k].row))
    BY <1>1, <2>2, SoundRows
  <2> QED BY <2>1, <2>2, <2>3, <2>4, PlacesOfLine DEF Fits, Chunks
<1>4. PICK E \in Nat : E = RowStart(b, y.row) + y.from
  BY <1>3
<1>5. e = Clamped(a, z, E) /\ e \in Nat /\ e <= z /\ a <= e
  <2>1. e = Clamped(a, z, E)
    BY <1>4
  <2>2. E <= E
    OBVIOUS
  <2> QED BY <2>1, <2>2, ClampedRight
<1>6. CASE i = 1
  <2>1. y.row = 0 /\ y.from = 0
    BY <1>1, <1>2, <1>6 DEF Walked
  <2>2. RowStart(b, 0) = 0
    BY <1>1, RowStartRight
  <2>3. E = 0
    BY <1>4, <2>1, <2>2
  <2>4. e = a
    BY <1>5, <2>3, ClampedEnds
  <2>5. c = a
    BY <1>6 DEF Ended
  <2>6. a \in 0..Len(T)
    BY <1>1
  <2>7. Shown(SubSeq(T, a + 1, a)) = <<>>
    BY <1>1, <2>6, NothingOfNothing
  <2> HIDE DEF T, c
  <2>8. a <= a /\ a <= Len(T)
    BY <1>1, <2>6
  <2> QED BY <2>4, <2>5, <2>6, <2>7, <2>8 DEF T, c
<1>7. CASE i # 1
  <2>1. PICK n \in 1..(Len(rows) - 1) : n = i - 1 /\ n + 1 = i /\ n # 0
    <3>1. Len(rows) \in Nat
      BY <1>2, LenProperties DEF Walked
    <3>2. i - 1 \in 1..(Len(rows) - 1) /\ (i - 1) + 1 = i /\ i - 1 # 0
      BY <1>7, <3>1
    <3> QED BY <3>2
  <2> DEFINE x == rows[n]
  <2>2. Follows(x, y, b)
    <3>1. Follows(rows[n], rows[n + 1], b)
      BY <1>2 DEF Walked
    <3> QED BY <2>1, <3>1
  <2>3. n \in 1..Len(rows)
    BY <2>1
  <2>4. PICK R \in Nat : R = RowStart(b, x.row) + x.to
    <3>1. RowStart(b, x.row) \in Nat /\ x.to \in Nat
      BY <1>3, <2>3
    <3>2. RowStart(b, x.row) + x.to \in Nat
      BY <3>1
    <3> QED BY <3>2
  <2>5. c = Clamped(a, z, R)
    <3>1. c = Ended(b, rows, a, z, n)
      BY <2>1
    <3> HIDE DEF c
    <3> QED BY <2>1, <2>4, <3>1 DEF Ended
  <2>6. /\ x.row \in 0..LastRow(b) /\ x.to \in Nat
        /\ RowStart(b, x.row) \in Nat /\ Len(Line(b, x.row)) \in Nat
    BY <1>3, <2>3
  <2>7. E = R \/ (E = R + 1 /\ (R < Len(T) => T[R + 1] = NewLine))
    <3>1. CASE y.row = x.row /\ x.to = y.from
      <4>1. RowStart(b, y.row) = RowStart(b, x.row)
        BY <3>1
      <4>2. E = RowStart(b, x.row) + x.to
        BY <1>4, <3>1, <4>1
      <4> QED BY <2>4, <4>2
    <3>2. CASE y.row = x.row + 1 /\ x.to = Len(Line(b, x.row)) /\ y.from = 0
      <4>1. RowStart(b, x.row + 1) = RowStart(b, x.row) + Len(Line(b, x.row)) + 1
        BY <1>1, <2>6, RowStartRight
      <4>2. R = RowStart(b, x.row) + Len(Line(b, x.row))
        BY <2>4, <3>2
      <4>3. E = RowStart(b, x.row + 1) + 0
        BY <1>4, <3>2
      <4>4. E = R + 1
        BY <4>1, <4>2, <4>3
      <4>5. R < Len(T) => T[R + 1] = NewLine
        BY <1>1, <2>6, <4>2, TextAt
      <4> QED BY <4>4, <4>5
    <3> QED BY <2>2, <3>1, <3>2 DEF Follows
  <2>8. c = e \/ (c = R /\ e = R + 1 /\ T[R + 1] = NewLine /\ R < Len(T))
    <3> HIDE DEF c, T
    <3>1. E = R => c = e
      BY <1>5, <2>5
    <3>5. E = R + 1 => c = e \/ (c = R /\ e = R + 1)
      <4>1. \/ Clamped(a, z, R + 1) = Clamped(a, z, R)
            \/ Clamped(a, z, R) = R /\ Clamped(a, z, R + 1) = R + 1
        BY ClampedNext
      <4>2. c = Clamped(a, z, R) /\ e = Clamped(a, z, E)
        BY <1>5, <2>5
      <4> QED BY <4>1, <4>2, Zenon
    <3>2. c = e \/ (c = R /\ e = R + 1 /\ E = R + 1)
      BY <2>7, <3>1, <3>5
    <3>3. CASE c = e
      BY <3>3
    <3>4. CASE c = R /\ e = R + 1 /\ E = R + 1
      <4>1. R < Len(T)
        BY <1>1, <1>5, <3>4 DEF T
      <4>2. R + 1 # R
        OBVIOUS
      <4> QED BY <2>7, <3>4, <4>1, <4>2
    <3> QED BY <3>2, <3>3, <3>4
  <2> HIDE DEF c
  <2>9. c \in 0..Len(T) /\ c <= e
    BY <1>1, <1>5, <2>8
  <2>10. Shown(SubSeq(T, c + 1, e)) = <<>>
    <3>1. CASE c = e
      BY <1>1, <2>9, <3>1, NothingOfNothing
    <3>2. CASE c = R /\ e = R + 1 /\ T[R + 1] = NewLine /\ R < Len(T)
      <4>1. R \in 0..Len(T)
        BY <2>9, <3>2
      <4>2. Shown(SubSeq(T, R + 1, R + 1)) = <<>>
        BY <1>1, <3>2, <4>1, NewLineUnseen
      <4> QED BY <3>2, <4>2
    <3> QED BY <2>8, <3>1, <3>2
  <2>11. e <= Len(T)
    BY <1>1, <1>5
  <2> QED BY <1>5, <2>9, <2>10, <2>11 DEF c
<1> QED BY <1>6, <1>7

\* What is drawn again of the rows of the screen is seen as what is selected.
LEMMA SelectionShows ==
  ASSUME NEW b, Good(b), NEW columns \in Nat \ {0}, NEW rows, rows = VisualRows(b, columns)
  PROVE  Shown(SelectedText(b)) =
           Shown(FlattenSeq([i \in DOMAIN rows |-> SelectedIn(b, rows[i], columns)]))
<1> DEFINE T == ToText(b)
           L == Len(b.lines)
           K == Len(rows)
           a == Offset(b, Selected(b).from)
           z == Offset(b, Selected(b).to)
           part(i) == SelectedIn(b, rows[i], columns)
           seqs == [i \in DOMAIN rows |-> part(i)]
           C(n) == Ended(b, rows, a, z, n)
           E(i) == Clamped(a, z, RowStart(b, rows[i].row) + rows[i].from)
<1>1. /\ Sound(b) /\ T \in Seq(Glyph) /\ Len(T) \in Nat
      /\ L \in Nat \ {0} /\ LastRow(b) = L - 1 /\ b.lines \in Rows
  BY GoodParts, SoundRows, RowsRight
<1>2. Walked(rows, b, L, columns)
  BY <1>1, VisualRowsRight
<1>3. K \in Nat \ {0} /\ DOMAIN rows = 1..K
  <2>1. rows # <<>> /\ rows \in Seq(Chunks)
    BY <1>1, <1>2 DEF Walked
  <2> QED BY <2>1, LenProperties, EmptySeq
<1>4. a \in Nat /\ z \in Nat /\ a <= z /\ z <= Len(T)
  BY SelectionBounds
<1>5. ASSUME NEW i \in 1..K
      PROVE  /\ part(i) \in Seq(Glyph)
             /\ C(i) \in 0..Len(T) /\ E(i) <= C(i)
             /\ Shown(part(i)) = Shown(SubSeq(T, E(i) + 1, C(i)))
  <2>1. rows[i].row < L /\ Fits(rows[i], Line(b, rows[i].row), rows[i].row, columns)
    BY <1>2 DEF Walked
  <2>2. rows[i].row \in 0..LastRow(b)
    BY <1>1, <2>1 DEF Fits, Chunks
  <2>3. i # 0
    BY <1>3
  <2>4. C(i) = Clamped(a, z, RowStart(b, rows[i].row) + rows[i].to)
    BY <2>3 DEF Ended
  <2>5. /\ part(i) \in Seq(Glyph)
        /\ Clamped(a, z, RowStart(b, rows[i].row) + rows[i].to) \in 0..Len(T)
        /\ E(i) <= Clamped(a, z, RowStart(b, rows[i].row) + rows[i].to)
        /\ Shown(part(i)) = Shown(SubSeq(T, E(i) + 1,
                                Clamped(a, z, RowStart(b, rows[i].row) + rows[i].to)))
    BY <2>1, <2>2, PieceShows
  <2> HIDE DEF C, E, part, T
  <2> QED BY <2>4, <2>5
<1>6. ASSUME NEW i \in 1..K
      PROVE  /\ C(i - 1) \in 0..Len(T) /\ E(i) \in Nat
             /\ C(i - 1) <= E(i) /\ E(i) <= Len(T)
             /\ Shown(SubSeq(T, C(i - 1) + 1, E(i))) = <<>>
  <2>1. PICK e : e = E(i)
    OBVIOUS
  <2>2. /\ Ended(b, rows, a, z, i - 1) \in 0..Len(ToText(b))
        /\ e \in Nat /\ Ended(b, rows, a, z, i - 1) <= e /\ e <= Len(ToText(b))
        /\ Shown(SubSeq(ToText(b), Ended(b, rows, a, z, i - 1) + 1, e)) = <<>>
    <3>1. e = Clamped(a, z, RowStart(b, rows[i].row) + rows[i].from)
      BY <2>1
    <3> HIDE DEF a, z, E
    <3> QED BY <1>4, <3>1, GapShows
  <2> HIDE DEF E
  <2> QED BY <2>1, <2>2
<1>7. seqs \in Seq(Seq(Glyph)) /\ Len(seqs) = K /\ \A i \in 1..K : seqs[i] = part(i)
  <2>1. \A i \in 1..K : part(i) \in Seq(Glyph)
    BY <1>5
  <2> HIDE DEF part
  <2>2. seqs \in [1..K -> Seq(Glyph)]
    BY <1>3, <2>1
  <2>3. DOMAIN seqs = 1..K
    BY <1>3
  <2>4. \A i \in 1..K : seqs[i] = part(i)
    BY <1>3
  <2> HIDE DEF seqs, K
  <2>5. seqs \in Seq(Seq(Glyph))
    BY <1>3, <2>2, SeqDef
  <2>6. Len(seqs) = K
    BY <1>3, <2>3, <2>5, LenProperties
  <2> QED BY <2>4, <2>5, <2>6
<1> HIDE DEF seqs
<1>8. PICK f : Flats(f, seqs, Glyph)
  BY <1>7, FlatsExist
<1>9. FlattenSeq(seqs) = f[K]
  BY <1>7, <1>8, FlattenIs
<1>10. /\ f[0] = <<>> /\ \A i \in 1..K : f[i] = f[i - 1] \o part(i)
       /\ \A n \in 0..K : f[n] \in Seq(Glyph)
  BY <1>7, <1>8 DEF Flats
<1> HIDE DEF K, part, C, E, T, a, z
<1> DEFINE S == {n \in 0..K : /\ Shown(f[n]) = Shown(SubSeq(T, a + 1, C(n)))
                              /\ a <= C(n) /\ C(n) \in 0..Len(T)}
<1>11. 0 \in S
  <2>1. C(0) = a
    BY DEF C, Ended
  <2>2. a \in 0..Len(T)
    BY <1>1, <1>4
  <2>3. SubSeq(T, a + 1, a) = <<>>
    BY <1>1, <2>2, NothingOfNothing
  <2>4. Shown(f[0]) = Shown(SubSeq(T, a + 1, C(0)))
    BY <1>10, <2>1, <2>3
  <2>5. a <= C(0) /\ C(0) \in 0..Len(T) /\ 0 \in 0..K
    BY <1>3, <1>4, <2>1, <2>2
  <2> QED BY <2>4, <2>5
<1>12. ASSUME NEW n \in 0..K, n < K, n \in S PROVE n + 1 \in S
  <2>1. PICK i \in 1..K : i = n + 1 /\ i - 1 = n
    <3>1. n + 1 \in 1..K /\ (n + 1) - 1 = n
      BY <1>3, <1>12
    <3> QED BY <3>1
  <2>2. f[i] = f[n] \o part(i) /\ f[n] \in Seq(Glyph)
    BY <1>10, <2>1
  <2>3. PICK c : c = C(n)
    OBVIOUS
  <2>4. PICK d : d = C(i)
    OBVIOUS
  <2>5. PICK e : e = E(i)
    OBVIOUS
  <2>6. /\ c \in 0..Len(T) /\ e \in Nat /\ c <= e /\ e <= Len(T)
        /\ Shown(SubSeq(T, c + 1, e)) = <<>>
    BY <1>6, <2>1, <2>3, <2>5
  <2>7. /\ part(i) \in Seq(Glyph) /\ d \in 0..Len(T) /\ e <= d
        /\ Shown(part(i)) = Shown(SubSeq(T, e + 1, d))
    BY <1>5, <2>4, <2>5
  <2>8. Shown(f[n]) = Shown(SubSeq(T, a + 1, c)) /\ a <= c
    BY <1>12, <2>3
  <2>9. /\ a \in 0..Len(T) /\ c \in a..Len(T) /\ e \in c..Len(T)
        /\ e \in a..Len(T) /\ d \in e..Len(T) /\ a <= d
    BY <1>1, <1>4, <2>6, <2>7, <2>8
  <2>10. Shown(SubSeq(T, a + 1, e)) = Shown(SubSeq(T, a + 1, c)) \o Shown(SubSeq(T, c + 1, e))
    BY <1>1, <2>9, ShownParts
  <2>11. Shown(SubSeq(T, a + 1, c)) \o <<>> = Shown(SubSeq(T, a + 1, c))
    <3>1. SubSeq(T, a + 1, c) \in Seq(Glyph)
      BY <1>1, <2>9, PartOfText
    <3>2. Shown(SubSeq(T, a + 1, c)) \in Seq(Chars)
      BY <3>1, SeensExist, ShownIs
    <3> QED BY <3>2, ConcatEmptySeq
  <2>12. Shown(SubSeq(T, a + 1, d)) = Shown(SubSeq(T, a + 1, e)) \o Shown(SubSeq(T, e + 1, d))
    BY <1>1, <2>9, ShownParts
  <2>13. Shown(f[i]) = Shown(f[n]) \o Shown(part(i))
    BY <2>2, <2>7, ShownConcat
  <2>14. Shown(f[i]) = Shown(SubSeq(T, a + 1, d))
    BY <2>6, <2>7, <2>8, <2>10, <2>11, <2>12, <2>13
  <2>15. i \in 0..K
    BY <1>3
  <2>16. i \in S
    BY <2>4, <2>7, <2>9, <2>14, <2>15
  <2> QED BY <2>1, <2>16
<1>13. K \in S
  <2> HIDE DEF S
  <2>1. 0..K \subseteq S
    BY <1>3, <1>11, <1>12, Stepwise
  <2> QED BY <1>3, <2>1
<1>14. C(K) = z
  <2> DEFINE last == Line(b, L - 1)
             s == RowStart(b, L - 1)
             to == Selected(b).to
  <2>1. rows[K].row = L - 1 /\ rows[K].to = Len(last)
    BY <1>1, <1>2 DEF Walked, K
  <2>2. C(K) = Clamped(a, z, s + Len(last))
    BY <1>3, <2>1 DEF C, Ended
  <2>3. L - 1 \in 0..LastRow(b)
    BY <1>1
  <2>4. s \in Nat /\ Len(last) \in Nat
    BY <1>1, <2>3, TextAt
  <2>5. /\ to.row \in 0..LastRow(b) /\ to.col \in 0..Len(Line(b, to.row))
        /\ Len(Line(b, to.row)) \in Nat /\ z = RowStart(b, to.row) + to.col
    BY SelectionBounds DEF z
  <2>6. RowStart(b, to.row) \in Nat
    BY <1>1, <2>5, TextAt
  <2>7. to.row = L - 1 \/ to.row < L - 1
    BY <1>1, <2>5
  <2>8. RowStart(b, to.row) + Len(Line(b, to.row)) <= s + Len(last)
    <3>1. CASE to.row = L - 1
      BY <2>4, <3>1
    <3>2. CASE to.row < L - 1
      <4>1. RowStart(b, to.row) + Len(Line(b, to.row)) < s
        BY <1>1, <2>3, <2>5, <3>2, RowsInOrder
      <4> HIDE DEF s, last, to
      <4> QED BY <2>4, <2>5, <2>6, <4>1
    <3> QED BY <2>7, <3>1, <3>2
  <2> HIDE DEF s, last
  <2>9. z <= s + Len(last) /\ s + Len(last) \in Nat
    <3>1. to.col \in Nat /\ to.col <= Len(Line(b, to.row))
      BY <2>5
    <3> HIDE DEF to
    <3> QED BY <2>4, <2>5, <2>6, <2>8, <3>1
  <2> QED BY <1>4, <2>2, <2>9, ClampedEnds
<1>15. SelectedText(b) = SubSeq(T, a + 1, z)
  BY DEF SelectedText, T, a, z
<1>16. Shown(f[K]) = Shown(SubSeq(T, a + 1, z))
  BY <1>13, <1>14
<1>17. Shown(FlattenSeq(seqs)) = Shown(SelectedText(b))
  BY <1>9, <1>15, <1>16
<1> QED BY <1>17 DEF seqs, part

(***************************************************************************)
(* Whatever the width of the window, the visual rows show all of each      *)
(* line, what is drawn again of them is seen as what is selected, and a    *)
(* step up or down moves the cursor by one visual row.                     *)
(***************************************************************************)
THEOREM WrapIsAlwaysFaithful == Spec => []WrapIsFaithful
<1>1. IInv => WrapIsFaithful
  <2> SUFFICES ASSUME IInv, NEW size \in Sizes
               PROVE  LET rows == VisualRows(buffer, size.columns)
                          here == CursorVisual(buffer, size.columns)
                          there(down) == CursorVisual([buffer EXCEPT !.at =
                                           MoveWrapped(buffer, size.columns, down)], size.columns)
                      IN  /\ \A row \in 0..LastRow(buffer) :
                               FlattenSeq([i \in DOMAIN rows |->
                                 IF rows[i].row = row
                                 THEN SubSeq(Line(buffer, row), rows[i].from + 1, rows[i].to)
                                 ELSE <<>>]) = Line(buffer, row)
                          /\ Shown(SelectedText(buffer)) =
                               Shown(FlattenSeq([i \in DOMAIN rows |->
                                                   SelectedIn(buffer, rows[i], size.columns)]))
                          /\ there(TRUE)  = IF here = Len(rows) THEN here ELSE here + 1
                          /\ there(FALSE) = IF here = 1 THEN here ELSE here - 1
    BY DEF WrapIsFaithful
  <2> DEFINE columns == size.columns
             rows == VisualRows(buffer, columns)
             here == CursorVisual(buffer, columns)
             there(down) == CursorVisual([buffer EXCEPT !.at =
                              MoveWrapped(buffer, columns, down)], columns)
  <2>1. Good(buffer) /\ Sound(buffer)
    BY GoodParts DEF IInv
  <2>2. columns \in Nat \ {0}
    BY EditorAssumption
  <2> HIDE DEF columns
  <2>3. \A row \in 0..LastRow(buffer) :
          FlattenSeq([i \in DOMAIN rows |->
            IF rows[i].row = row THEN SubSeq(Line(buffer, row), rows[i].from + 1, rows[i].to)
            ELSE <<>>]) = Line(buffer, row)
    BY <2>1, <2>2, RowsShowLine
  <2>4. Shown(SelectedText(buffer)) =
          Shown(FlattenSeq([i \in DOMAIN rows |-> SelectedIn(buffer, rows[i], columns)]))
    BY <2>1, <2>2, SelectionShows
  <2>5. here \in 1..Len(rows) /\ Len(rows) \in Nat
    <3>1. Walked(rows, buffer, Len(buffer.lines), columns)
      BY <2>1, <2>2, VisualRowsRight
    <3> QED BY <2>1, <2>2, <3>1, CursorVisualRight, LenProperties DEF Walked
  <2>6. there(TRUE) = IF here = Len(rows) THEN here ELSE here + 1
    <3>1. PICK next : next = here + 1
      OBVIOUS
    <3>2. TRUE \in BOOLEAN /\ next = IF TRUE THEN here + 1 ELSE here - 1
      BY <3>1
    <3>3. there(TRUE) = IF next \in 1..Len(rows) THEN next ELSE here
      BY <2>1, <2>2, <3>2, MoveWrappedMoves
    <3> HIDE DEF there, here, rows
    <3>4. next \in 1..Len(rows) <=> here # Len(rows)
      BY <2>5, <3>1
    <3> QED BY <3>1, <3>3, <3>4
  <2>7. there(FALSE) = IF here = 1 THEN here ELSE here - 1
    <3>1. PICK next : next = here - 1
      OBVIOUS
    <3>2. FALSE \in BOOLEAN /\ next = IF FALSE THEN here + 1 ELSE here - 1
      BY <3>1
    <3>3. there(FALSE) = IF next \in 1..Len(rows) THEN next ELSE here
      BY <2>1, <2>2, <3>2, MoveWrappedMoves
    <3> HIDE DEF there, here, rows
    <3>4. next \in 1..Len(rows) <=> here # 1
      BY <2>5, <3>1
    <3> QED BY <3>1, <3>3, <3>4
  <2> QED BY <2>3, <2>4, <2>6, <2>7 DEF columns
<1> QED BY <1>1, EditorStaysGood, PTL

-----------------------------------------------------------------------------
(***************************************************************************)
(* The characters of a text and those of its parts.                        *)
(***************************************************************************)
\* How many characters the first bytes of a text hold.
Count(t, p) == Len(Characters(SubSeq(t, 1, p)))

\* A sequence with a part of it replaced.
Replaced(s, from, to, new) == SubSeq(s, 1, from) \o new \o SubSeq(s, to + 1, Len(s))

\* The characters of a text that is cut in two.
LEMMA CutCharacters ==
  ASSUME NEW t \in Seq(Glyph), NEW p \in 0..Len(t)
  PROVE  /\ Count(t, p) \in 0..Len(Characters(t))
         /\ SubSeq(Characters(t), 1, Count(t, p)) = Characters(SubSeq(t, 1, p))
         /\ SubSeq(Characters(t), Count(t, p) + 1, Len(Characters(t)))
              = Characters(SubSeq(t, p + 1, Len(t)))
<1> DEFINE a == SubSeq(t, 1, p)
           z == SubSeq(t, p + 1, Len(t))
           x == Characters(a)
           y == Characters(z)
           c == Characters(t)
<1>1. a \in Seq(Glyph) /\ z \in Seq(Glyph) /\ a \o z = t
  BY CutRight
<1>2. Count(t, p) = Len(x)
  BY DEF Count
<1> HIDE DEF a, z
<1>3. c = x \o y
  BY <1>1, CharactersConcat
<1>4. x \in Seq(Symbol) /\ y \in Seq(Symbol)
  BY <1>1, CharactersType
<1> HIDE DEF x, y, c
<1>5. x \in Seq(Glyph) /\ y \in Seq(Glyph)
  <2>1. Symbol \subseteq Glyph
    BY DEF Symbol, Glyph, Byte
  <2> QED BY <1>4, <2>1, SeqMonotonic
<1>6. SubSeq(x \o y, 1, Len(x)) = x /\ SubSeq(x \o y, Len(x) + 1, Len(x \o y)) = y
  BY <1>5, UncutRight
<1>7. Len(x \o y) = Len(x) + Len(y) /\ Len(x) \in Nat /\ Len(y) \in Nat
  BY <1>5, Parts
<1>8. Len(x) \in 0..Len(c)
  BY <1>3, <1>7
<1> QED BY <1>2, <1>3, <1>6, <1>8 DEF x, y, c, a, z

\* What replaces a part of the bytes replaces the characters of it.
LEMMA SpliceCharacters ==
  ASSUME NEW t \in Seq(Glyph), NEW new \in Seq(Glyph), NEW from \in 0..Len(t), NEW to \in 0..Len(t)
  PROVE  /\ Characters(Splice(t, from, to, new))
              = Replaced(Characters(t), Count(t, from), Count(t, to), Characters(new))
         /\ Count(Splice(t, from, to, new), from + Len(new))
              = Count(t, from) + Len(Characters(new))
<1> DEFINE a == SubSeq(t, 1, from)
           z == SubSeq(t, to + 1, Len(t))
           u == a \o new
           x == Characters(a)
           n == Characters(new)
<1>1. a \in Seq(Glyph) /\ z \in Seq(Glyph) /\ Len(a) = from
  BY CutRight
<1>2. /\ x = SubSeq(Characters(t), 1, Count(t, from))
      /\ Characters(z) = SubSeq(Characters(t), Count(t, to) + 1, Len(Characters(t)))
      /\ Len(x) = Count(t, from)
  BY CutCharacters DEF Count
<1>3. Splice(t, from, to, new) = u \o z
  BY DEF Splice
<1> HIDE DEF a, z
<1>4. u \in Seq(Glyph) /\ Len(u) = from + Len(new)
  BY <1>1, Parts
<1>5. Characters(u) = x \o n
  BY <1>1, CharactersConcat
<1>6. x \in Seq(Symbol) /\ n \in Seq(Symbol)
  BY <1>1, CharactersType
<1> HIDE DEF u, x, n
<1>7. Characters(u \o z) = (x \o n) \o Characters(z)
  BY <1>1, <1>4, <1>5, CharactersConcat
<1>8. Characters(Splice(t, from, to, new))
        = Replaced(Characters(t), Count(t, from), Count(t, to), n)
  BY <1>2, <1>3, <1>7 DEF Replaced
<1>9. SubSeq(u \o z, 1, Len(u)) = u
  BY <1>1, <1>4, UncutRight
<1>10. Count(u \o z, Len(u)) = Len(x \o n)
  BY <1>5, <1>9 DEF Count
<1>11. Len(x \o n) = Len(x) + Len(n)
  BY <1>6, ConcatProperties
<1> QED BY <1>2, <1>3, <1>4, <1>8, <1>10, <1>11 DEF n

\* More bytes hold no fewer characters.
LEMMA CountGrows ==
  ASSUME NEW t \in Seq(Glyph), NEW p \in 0..Len(t), NEW q \in 0..Len(t), p <= q
  PROVE  Count(t, p) <= Count(t, q)
<1> DEFINE a == SubSeq(t, 1, q)
<1>1. a \in Seq(Glyph) /\ Len(a) = q
  BY CutRight
<1>2. Len(t) \in Nat
  BY GlyphRight
<1>3. p \in 0..Len(a)
  BY <1>1, <1>2
<1>4. SubSeq(a, 1, p) = SubSeq(t, 1, p)
  <2>1. CASE p = 0
    <3>1. SubSeq(a, 1, 0) = <<>> /\ SubSeq(t, 1, 0) = <<>>
      BY SubSeqEmpty
    <3> QED BY <2>1, <3>1
  <2>2. CASE p # 0
    <3>1. 1 \in 1..Len(t) /\ q \in 1..Len(t) /\ 1 \in 1..(q - 1 + 1) /\ p \in 1..(q - 1 + 1)
      BY <1>2, <2>2
    <3>2. SubSeq(SubSeq(t, 1, q), 1, p) = SubSeq(t, 1 + 1 - 1, 1 + p - 1)
      BY <3>1, SubSeqOfSubSeq
    <3>3. 1 + 1 - 1 = 1 /\ 1 + p - 1 = p
      BY <1>2
    <3> QED BY <3>2, <3>3
  <2> QED BY <2>1, <2>2
<1>5. Count(a, p) \in 0..Len(Characters(a))
  BY <1>1, <1>3, CutCharacters
<1>6. Count(a, p) = Count(t, p) /\ Len(Characters(a)) = Count(t, q)
  BY <1>4 DEF Count
<1> HIDE DEF a
<1>7. Len(Characters(a)) \in Nat
  BY <1>1, CharactersType
<1> QED BY <1>5, <1>6, <1>7

\* The characters of the first bytes, one byte after the other.
LEMMA PrefixIs ==
  ASSUME NEW t \in Seq(Glyph), NEW h, Ofs(h, t), NEW p \in 0..Len(t)
  PROVE  Characters(SubSeq(t, 1, p)) = h[p] /\ Count(t, p) = Len(h[p])
<1> DEFINE a == SubSeq(t, 1, p)
           g == [n \in 0..p |-> h[n]]
<1>1. Len(t) \in Nat /\ p \in Nat
  BY GlyphRight
<1>2. a \in Seq(Glyph) /\ Len(a) = p /\ \A n \in 1..p : a[n] = t[n]
  <2>1. a \in Seq(Glyph) /\ Len(a) = p
    BY CutRight
  <2>2. \A i \in 1..p : t[i] \in Glyph
    BY <1>1, ElementOfSeq
  <2>3. \A i \in 1..(p - 1 + 1) : a[i] = t[1 + i - 1]
    BY <1>1, <2>2, SubSeqProperties
  <2> HIDE DEF a
  <2>4. p - 1 + 1 = p /\ \A i \in 1..p : 1 + i - 1 = i
    BY <1>1
  <2> QED BY <2>1, <2>3, <2>4
<1> HIDE DEF a
<1>3. /\ \A n \in 0..p : g[n] = h[n] /\ h[n] \in Seq(Symbol)
      /\ \A n \in 1..p : h[n] = IF t[n] = Cont THEN h[n - 1] ELSE Append(h[n - 1], t[n])
      /\ h[0] = <<>>
  <2>1. \A n \in 0..p : n \in 0..Len(t)
    BY <1>1
  <2>2. \A n \in 0..p : g[n] = h[n]
    OBVIOUS
  <2>3. \A n \in 0..p : h[n] \in Seq(Symbol)
    BY <2>1 DEF Ofs
  <2>4. ASSUME NEW n \in 1..p
        PROVE  h[n] = IF t[n] = Cont THEN h[n - 1] ELSE Append(h[n - 1], t[n])
    <3>1. n \in 1..Len(t)
      BY <1>1
    <3> QED BY <3>1 DEF Ofs
  <2>5. h[0] = <<>>
    BY DEF Ofs
  <2> HIDE DEF g
  <2> QED BY <2>2, <2>3, <2>4, <2>5
<1>4. g \in [0..Len(a) -> Seq(Symbol)]
  BY <1>2, <1>3
<1>5. \A n \in 1..p : n - 1 \in 0..p /\ n \in 0..p
  BY <1>1
<1> HIDE DEF g
<1>6. Ofs(g, a)
  <2>1. 0 \in 0..p
    BY <1>1
  <2>2. g[0] = <<>>
    BY <1>3, <2>1
  <2>3. ASSUME NEW n \in 1..Len(a)
        PROVE  g[n] = IF a[n] = Cont THEN g[n - 1] ELSE Append(g[n - 1], a[n])
    BY <1>2, <1>3, <1>5
  <2> QED BY <1>4, <2>2, <2>3 DEF Ofs
<1>7. Characters(a) = g[Len(a)]
  BY <1>2, <1>6, CharactersAre
<1>8. p \in 0..p
  BY <1>1
<1> QED BY <1>2, <1>3, <1>7, <1>8 DEF Count, a

\* A byte that begins a character is that character.
LEMMA CharAt ==
  ASSUME NEW t \in Seq(Glyph), NEW p \in 0..(Len(t) - 1), t[p + 1] # Cont
  PROVE  /\ Count(t, p) \in Nat /\ Count(t, p + 1) = Count(t, p) + 1
         /\ Count(t, p) < Len(Characters(t)) /\ Characters(t)[Count(t, p) + 1] = t[p + 1]
<1> DEFINE c == Characters(t)
           k == Count(t, p)
           m == Count(t, p + 1)
<1>1. PICK h : Ofs(h, t)
  BY OfsExist
<1>2. Len(t) \in Nat /\ p \in 0..Len(t) /\ p + 1 \in 0..Len(t) /\ t[p + 1] \in Symbol
  BY GlyphRight
<1>3. h[p + 1] = Append(h[p], t[p + 1]) /\ h[p] \in Seq(Symbol)
  <2>1. PICK n \in 1..Len(t) : n = p + 1 /\ n - 1 = p
    BY <1>2
  <2>2. h[n] = Append(h[n - 1], t[n])
    BY <1>1, <2>1 DEF Ofs
  <2> QED BY <1>1, <1>2, <2>1, <2>2 DEF Ofs
<1>4. k = Len(h[p]) /\ m = Len(h[p + 1]) /\ Characters(SubSeq(t, 1, p + 1)) = h[p + 1]
  BY <1>1, <1>2, PrefixIs
<1>5. /\ Len(Append(h[p], t[p + 1])) = Len(h[p]) + 1
      /\ Append(h[p], t[p + 1])[Len(h[p]) + 1] = t[p + 1]
  BY <1>2, <1>3, AppendProperties
<1>6. m \in 0..Len(c) /\ SubSeq(c, 1, m) = h[p + 1] /\ k \in 0..Len(c)
  BY <1>2, <1>4, CutCharacters
<1>7. c \in Seq(Symbol) /\ Len(c) \in Nat
  BY CharactersType
<1> HIDE DEF c, k, m
<1>8. m = k + 1 /\ k \in Nat /\ k < Len(c) /\ h[p + 1][k + 1] = t[p + 1]
  BY <1>3, <1>4, <1>5, <1>6, <1>7
<1>9. c[m] = SubSeq(c, 1, m)[m]
  <2>1. \A i \in 1..m : c[i] \in Symbol
    BY <1>6, <1>7, ElementOfSeq
  <2>2. \A i \in 1..(m - 1 + 1) : SubSeq(c, 1, m)[i] = c[1 + i - 1]
    BY <1>6, <1>7, <2>1, SubSeqProperties
  <2>3. m \in 1..(m - 1 + 1) /\ 1 + m - 1 = m
    BY <1>8
  <2> QED BY <2>2, <2>3
<1> QED BY <1>6, <1>8, <1>9 DEF c, k, m

\* From one place to the next there is one character.
LEMMA OneCharCounts ==
  ASSUME NEW t \in Seq(Glyph), NEW from, NEW to, OneChar(t, from, to)
  PROVE  Count(t, to) = Count(t, from) + 1 /\ Count(t, from) \in Nat
<1> DEFINE N == to - (from + 1)
           S == {i \in 0..N : Count(t, from + 1 + i) = Count(t, from + 1)}
<1>1. /\ from \in Nat /\ to \in (from + 1)..Len(t) /\ t[from + 1] # Cont
      /\ \A q \in (from + 1)..(to - 1) : t[q + 1] = Cont /\ Len(t) \in Nat
  BY GlyphRight DEF OneChar
<1>2. N \in Nat /\ from + 1 + N = to
  BY <1>1
<1>3. Count(t, from + 1) = Count(t, from) + 1 /\ Count(t, from) \in Nat
  <2>1. from \in 0..(Len(t) - 1)
    BY <1>1
  <2> QED BY <1>1, <2>1, CharAt
<1> HIDE DEF N
<1>4. 0 \in S
  <2>1. from + 1 + 0 = from + 1
    BY <1>1
  <2> QED BY <1>2, <2>1
<1>5. ASSUME NEW i \in 0..N, i < N, i \in S PROVE i + 1 \in S
  <2>1. PICK q \in (from + 1)..(to - 1) : q = from + 1 + i
    <3>1. from + 1 + i \in (from + 1)..(to - 1)
      BY <1>1, <1>2, <1>5
    <3> QED BY <3>1
  <2>2. PICK h : Ofs(h, t)
    BY OfsExist
  <2>3. q \in 0..Len(t) /\ q + 1 \in 1..Len(t) /\ q + 1 \in 0..Len(t) /\ (q + 1) - 1 = q
    BY <1>1
  <2>4. h[q + 1] = h[q]
    <3>1. PICK n \in 1..Len(t) : n = q + 1 /\ n - 1 = q
      BY <2>3
    <3>2. t[n] = Cont
      BY <1>1, <3>1
    <3>3. h[n] = h[n - 1]
      BY <2>2, <3>2 DEF Ofs
    <3> QED BY <3>1, <3>3
  <2>5. Count(t, q + 1) = Count(t, q)
    BY <2>2, <2>3, <2>4, PrefixIs
  <2>6. from + 1 + (i + 1) = q + 1 /\ i + 1 \in 0..N
    BY <1>1, <1>2, <1>5, <2>1
  <2> QED BY <1>5, <2>1, <2>5, <2>6
<1>6. N \in S
  <2> HIDE DEF S
  <2>1. 0..N \subseteq S
    BY <1>2, <1>4, <1>5, Stepwise
  <2> QED BY <1>2, <2>1
<1> QED BY <1>2, <1>3, <1>6

-----------------------------------------------------------------------------
\* The rest of a line, counted in characters.
LEMMA RestCounts ==
  ASSUME NEW t \in Seq(Glyph), NEW from \in Boundaries(t), NEW to, RestOfLine(t, from, to)
  PROVE  /\ Count(t, from) \in Nat
         /\ Count(t, to) \in (Count(t, from) + 1)..Len(Characters(t))
         /\ \A k \in (Count(t, from) + 1)..Count(t, to) : Characters(t)[k] # NewLine
         /\ Count(t, to) < Len(Characters(t)) => Characters(t)[Count(t, to) + 1] = NewLine
<1> DEFINE c == Characters(t)
           l == Count(t, from)
           m == Count(t, to)
           N == to - from
<1>1. /\ from \in Nat /\ to \in (from + 1)..Len(t) /\ Len(t) \in Nat
      /\ \A q \in from..(to - 1) : t[q + 1] # NewLine
      /\ to < Len(t) => t[to + 1] = NewLine
  BY GlyphRight DEF RestOfLine
<1>2. N \in Nat /\ from + N = to /\ from \in 0..(Len(t) - 1) /\ to \in 0..Len(t)
      /\ from \in 0..Len(t)
  BY <1>1
<1>3. PICK h : Ofs(h, t)
  BY OfsExist
<1>4. t[from + 1] # Cont
  BY <1>1, BoundaryIs DEF AtBoundary
<1>5. l \in Nat /\ Count(t, from + 1) = l + 1
  BY <1>2, <1>4, CharAt
<1>6. Count(t, from + 1) <= m
  <2>1. from + 1 \in 0..Len(t) /\ from + 1 <= to
    BY <1>1
  <2> QED BY <1>2, <2>1, CountGrows
<1>7. m \in 0..Len(c) /\ SubSeq(c, 1, m) = h[to] /\ m = Len(h[to]) /\ l = Len(h[from])
  <2>1. m \in 0..Len(c) /\ SubSeq(c, 1, m) = Characters(SubSeq(t, 1, to))
    BY <1>2, CutCharacters
  <2>2. Characters(SubSeq(t, 1, to)) = h[to] /\ m = Len(h[to])
    BY <1>2, <1>3, PrefixIs
  <2>3. l = Len(h[from])
    BY <1>2, <1>3, PrefixIs
  <2> QED BY <2>1, <2>2, <2>3
<1>8. c \in Seq(Symbol) /\ Len(c) \in Nat
  BY CharactersType
<1> DEFINE Clean(s) == \A k \in (l + 1)..Len(s) : s[k] # NewLine
           S == {i \in 0..N : Clean(h[from + i])}
<1> HIDE DEF N, c, l, m
<1>9. 0 \in S
  <2>1. from + 0 = from
    BY <1>1
  <2>2. \A k \in (l + 1)..Len(h[from]) : FALSE
    BY <1>5, <1>7
  <2> QED BY <1>2, <2>1, <2>2
<1>10. ASSUME NEW i \in 0..N, i < N, i \in S PROVE i + 1 \in S
  <2>1. PICK q \in from..(to - 1) : q = from + i
    <3>1. from + i \in from..(to - 1)
      BY <1>1, <1>2, <1>10
    <3> QED BY <3>1
  <2>2. q \in 0..Len(t) /\ q + 1 \in 1..Len(t) /\ (q + 1) - 1 = q /\ t[q + 1] # NewLine
    <3>1. t[q + 1] # NewLine
      BY <1>1
    <3>2. PICK n \in Nat : n = Len(t) /\ to \in Nat /\ to <= n
      BY <1>1
    <3>3. q \in 0..n /\ q + 1 \in 1..n /\ (q + 1) - 1 = q
      BY <1>1, <3>2
    <3> QED BY <3>1, <3>2, <3>3
  <2>3. h[q] \in Seq(Symbol) /\ Clean(h[q])
    BY <1>3, <1>10, <2>1, <2>2 DEF Ofs
  <2>4. t[q + 1] \in Glyph
    BY <2>2, ElementOfSeq
  <2>5. h[q + 1] = IF t[q + 1] = Cont THEN h[q] ELSE Append(h[q], t[q + 1])
    <3>1. PICK n \in 1..Len(t) : n = q + 1 /\ n - 1 = q
      BY <2>2
    <3>2. h[n] = IF t[n] = Cont THEN h[n - 1] ELSE Append(h[n - 1], t[n])
      BY <1>3 DEF Ofs
    <3> QED BY <3>1, <3>2
  <2>6. Clean(h[q + 1])
    <3>1. CASE t[q + 1] = Cont
      BY <2>3, <2>5, <3>1
    <3>2. CASE t[q + 1] # Cont
      <4> DEFINE s == h[q]
                 e == t[q + 1]
      <4>1. e \in Symbol
        BY <2>4, <3>2, GlyphRight DEF Glyph, Byte, Symbol
      <4>2. h[q + 1] = Append(s, e) /\ e # NewLine /\ s \in Seq(Symbol) /\ Clean(s)
        BY <2>2, <2>3, <2>5, <3>2
      <4> HIDE DEF s, e
      <4>3. /\ Len(Append(s, e)) = Len(s) + 1 /\ Append(s, e)[Len(s) + 1] = e
            /\ \A k \in 1..Len(s) : Append(s, e)[k] = s[k]
        BY <4>1, <4>2, AppendProperties
      <4>4. Len(s) \in Nat
        BY <4>2, LenProperties
      <4>5. ASSUME NEW k \in (l + 1)..(Len(s) + 1) PROVE Append(s, e)[k] # NewLine
        <5>1. CASE k = Len(s) + 1
          BY <4>2, <4>3, <5>1
        <5>2. CASE k # Len(s) + 1
          <6>1. k \in (l + 1)..Len(s) /\ k \in 1..Len(s)
            BY <1>5, <4>4, <5>2
          <6> QED BY <4>2, <4>3, <6>1
        <5> QED BY <5>1, <5>2
      <4> QED BY <4>2, <4>3, <4>5
    <3> QED BY <3>1, <3>2
  <2>7. from + (i + 1) = q + 1 /\ i + 1 \in 0..N
    BY <1>1, <1>2, <1>10, <2>1
  <2> QED BY <2>6, <2>7
<1>11. Clean(h[to])
  <2> HIDE DEF S
  <2>1. 0..N \subseteq S
    BY <1>2, <1>9, <1>10, Stepwise
  <2>2. N \in S
    BY <1>2, <2>1
  <2> QED BY <1>2, <2>2 DEF S
<1>12. ASSUME NEW k \in (l + 1)..m PROVE c[k] # NewLine
  <2>1. \A i \in 1..m : c[i] \in Symbol
    BY <1>7, <1>8, ElementOfSeq
  <2>2. m \in Int
    BY <1>7, <1>8
  <2>3. \A i \in 1..(m - 1 + 1) : SubSeq(c, 1, m)[i] = c[1 + i - 1]
    BY <2>1, <2>2, SubSeqProperties
  <2>4. k \in 1..(m - 1 + 1) /\ 1 + k - 1 = k
    BY <1>5, <2>2
  <2>5. h[to][k] # NewLine
    BY <1>7, <1>11
  <2> QED BY <1>7, <2>3, <2>4, <2>5
<1>13. m < Len(c) => c[m + 1] = NewLine
  <2>1. CASE to = Len(t)
    <3>1. SubSeq(t, 1, to) = t
      BY <2>1, SubSeqFull
    <3>2. m = Len(c)
      BY <3>1 DEF m, c, Count
    <3> QED BY <1>8, <3>2
  <2>2. CASE to # Len(t)
    <3>1. to \in 0..(Len(t) - 1) /\ t[to + 1] = NewLine
      BY <1>1, <2>2
    <3>2. NewLine # Cont
      BY LineEndRight
    <3>3. c[m + 1] = t[to + 1]
      BY <3>1, <3>2, CharAt DEF c, m
    <3> QED BY <3>1, <3>3
  <2> QED BY <2>1, <2>2
<1>14. m \in (l + 1)..Len(c)
  BY <1>5, <1>6, <1>7, <1>8
<1> QED BY <1>5, <1>12, <1>13, <1>14 DEF c, l, m

-----------------------------------------------------------------------------
(***************************************************************************)
(* The text, the cursor and the mark of a buffer, as PlainText has them.   *)
(***************************************************************************)
TextOf(b)     == Characters(ToText(b))
CharsTo(b, p) == Count(ToText(b), Offset(b, p))
PointOf(b)    == CharsTo(b, b.at)
MarkOf(b)     == CharsTo(b, IF HasSelection(b) THEN b.anchor ELSE b.at)

\* A part of the text is replaced and the cursor is behind what replaced it.
Rewritten(b, d, from, to, new) ==
  /\ TextOf(d) = Replaced(TextOf(b), from, to, new)
  /\ PointOf(d) = from + Len(new) /\ MarkOf(d) = PointOf(d)

\* Offsets of places are in the text, and count its characters.
LEMMA PlaceCounts ==
  ASSUME NEW b, Good(b), NEW p \in Places, IsPlace(b, p)
  PROVE  /\ Offset(b, p) \in Boundaries(ToText(b)) /\ Offset(b, p) \in 0..Len(ToText(b))
         /\ CharsTo(b, p) \in 0..Len(TextOf(b)) /\ Len(TextOf(b)) \in Nat
<1>1. Sound(b) /\ b.lines \in Rows
  BY GoodParts
<1>2. PICK h : Throughs(h, b.lines)
  BY <1>1, ThroughsExist
<1>3. Offset(b, p) \in Boundaries(ToText(b)) /\ ToText(b) \in Seq(Glyph)
  BY <1>1, <1>2, PlaceInText, SoundRows
<1>4. Offset(b, p) \in 0..Len(ToText(b))
  BY <1>3, BoundaryIs
<1>5. CharsTo(b, p) \in 0..Len(TextOf(b))
  BY <1>3, <1>4, CutCharacters DEF CharsTo, TextOf
<1> QED BY <1>3, <1>4, <1>5, CharactersType DEF TextOf

\* The cursor and the mark count characters of the text.
LEMMA StateCounts ==
  ASSUME NEW b, Good(b)
  PROVE  /\ PointOf(b) \in 0..Len(TextOf(b)) /\ MarkOf(b) \in 0..Len(TextOf(b))
         /\ Len(TextOf(b)) \in Nat
         /\ ~HasSelection(b) => MarkOf(b) = PointOf(b)
<1>1. /\ b.at \in Places /\ b.anchor \in Places /\ IsPlace(b, b.at) /\ IsPlace(b, b.anchor)
  BY GoodParts
<1>2. PointOf(b) \in 0..Len(TextOf(b)) /\ Len(TextOf(b)) \in Nat
  BY <1>1, PlaceCounts DEF PointOf
<1>3. CASE HasSelection(b)
  BY <1>1, <1>2, <1>3, PlaceCounts DEF MarkOf
<1>4. CASE ~HasSelection(b)
  BY <1>2, <1>4 DEF MarkOf, PointOf
<1> QED BY <1>2, <1>3, <1>4

\* An edit of the bytes is one of the characters.
LEMMA EditRewrites ==
  ASSUME NEW b, Good(b), NEW d, NEW from \in 0..Len(ToText(b)), NEW to \in 0..Len(ToText(b)),
         NEW new \in Seq(Glyph), Edited(b, d, from, to, new)
  PROVE  Rewritten(b, d, Count(ToText(b), from), Count(ToText(b), to), Characters(new))
<1> DEFINE t == ToText(b)
<1>1. t \in Seq(Glyph)
  BY GoodParts, SoundRows
<1>2. /\ ToText(d) = Splice(t, from, to, new) /\ Offset(d, d.at) = from + Len(new)
      /\ ~HasSelection(d)
  BY DEF Edited
<1> HIDE DEF t
<1>3. /\ Characters(Splice(t, from, to, new))
              = Replaced(Characters(t), Count(t, from), Count(t, to), Characters(new))
      /\ Count(Splice(t, from, to, new), from + Len(new))
              = Count(t, from) + Len(Characters(new))
  BY <1>1, SpliceCharacters DEF t
<1>4. TextOf(d) = Replaced(TextOf(b), Count(t, from), Count(t, to), Characters(new))
  BY <1>2, <1>3 DEF TextOf, t
<1>5. PointOf(d) = Count(t, from) + Len(Characters(new))
  BY <1>2, <1>3 DEF PointOf, CharsTo
<1>6. MarkOf(d) = PointOf(d)
  BY <1>2 DEF MarkOf, PointOf
<1> QED BY <1>4, <1>5, <1>6 DEF Rewritten, t

-----------------------------------------------------------------------------
(***************************************************************************)
(* Each step is one of PlainText.                                          *)
(***************************************************************************)
\* The text, the cursor and the mark before and after a step.
LEMMA PlainView ==
  /\ TextOf(buffer) = Characters(ToText(buffer))
  /\ CharsBefore(buffer.at) = PointOf(buffer)
  /\ CharsBefore(IF HasSelection(buffer) THEN buffer.anchor ELSE buffer.at) = MarkOf(buffer)
  /\ TextOf(buffer') = Characters(ToText(buffer))'
  /\ CharsBefore(buffer.at)' = PointOf(buffer')
  /\ CharsBefore(IF HasSelection(buffer) THEN buffer.anchor ELSE buffer.at)' = MarkOf(buffer')
BY DEF TextOf, PointOf, MarkOf, CharsTo, Count, CharsBefore

\* A replacement of bytes is one of characters.
LEMMA PlainReplaces ==
  ASSUME NEW x, NEW y, NEW new, Rewritten(buffer, buffer', x, y, new)
  PROVE  Plain!ReplaceBetween(x, y, new)
BY PlainView DEF Rewritten, Replaced, Plain!ReplaceBetween

\* A move leaves the plain text alone,
LEMMA PlainMove ==
  ASSUME Good(buffer), Moved(buffer, buffer')
  PROVE  Plain!Move
<1>1. Good(buffer') /\ TextOf(buffer') = TextOf(buffer)
  <2>1. Sound(buffer) /\ buffer'.lines = buffer.lines
    BY GoodParts DEF Moved
  <2>2. ToText(buffer') = ToText(buffer)
    BY <2>1, SameLines
  <2> QED BY <2>2 DEF Moved, TextOf
<1>2. /\ PointOf(buffer') \in 0..Len(TextOf(buffer')) /\ MarkOf(buffer') \in 0..Len(TextOf(buffer'))
  BY <1>1, StateCounts
<1> QED BY <1>1, <1>2, PlainView DEF Plain!Move

\* a load replaces it,
LEMMA PlainLoad ==
  ASSUME Loaded(buffer, buffer')
  PROVE  Plain!Load
<1>1. /\ PointOf(buffer') \in 0..Len(TextOf(buffer')) /\ MarkOf(buffer') = PointOf(buffer')
      /\ TextOf(buffer') \in Texts
  BY StateCounts DEF Loaded, TextOf
<1> QED BY <1>1, PlainView DEF Plain!Load

\* The selection lies between the cursor and the mark.
LEMMA SelectionCounts ==
  ASSUME NEW b, Good(b)
  PROVE  /\ CharsTo(b, Selected(b).from) = Plain!Least(PointOf(b), MarkOf(b))
         /\ CharsTo(b, Selected(b).to) = Plain!Greatest(PointOf(b), MarkOf(b))
         /\ Offset(b, Selected(b).from) \in 0..Len(ToText(b))
         /\ Offset(b, Selected(b).to) \in 0..Len(ToText(b))
<1> DEFINE from == Selected(b).from
           to   == Selected(b).to
<1>1. /\ from \in Places /\ to \in Places /\ IsPlace(b, from) /\ IsPlace(b, to)
      /\ Offset(b, from) <= Offset(b, to)
      /\ ~HasSelection(b) => from = b.at /\ to = b.at
      /\ HasSelection(b) => \/ from = b.at /\ to = b.anchor
                            \/ from = b.anchor /\ to = b.at
  BY SelectedRight
<1>2. /\ Offset(b, from) \in 0..Len(ToText(b)) /\ Offset(b, to) \in 0..Len(ToText(b))
      /\ CharsTo(b, from) \in 0..Len(TextOf(b)) /\ CharsTo(b, to) \in 0..Len(TextOf(b))
      /\ Len(TextOf(b)) \in Nat
  BY <1>1, PlaceCounts
<1>3. CharsTo(b, from) <= CharsTo(b, to)
  <2>1. ToText(b) \in Seq(Glyph)
    BY GoodParts, SoundRows
  <2> QED BY <1>1, <1>2, <2>1, CountGrows DEF CharsTo
<1> HIDE DEF from, to
<1>4. \/ PointOf(b) = CharsTo(b, from) /\ MarkOf(b) = CharsTo(b, to)
      \/ PointOf(b) = CharsTo(b, to) /\ MarkOf(b) = CharsTo(b, from)
  <2>1. CASE HasSelection(b)
    BY <1>1, <2>1 DEF PointOf, MarkOf
  <2>2. CASE ~HasSelection(b)
    BY <1>1, <2>2 DEF PointOf, MarkOf
  <2> QED BY <2>1, <2>2
<1>5. /\ CharsTo(b, from) = Plain!Least(PointOf(b), MarkOf(b))
      /\ CharsTo(b, to) = Plain!Greatest(PointOf(b), MarkOf(b))
  BY <1>2, <1>3, <1>4 DEF Plain!Least, Plain!Greatest
<1> QED BY <1>2, <1>5 DEF from, to

\* what is typed or pasted is inserted in it or changes nothing,
LEMMA PlainInsert ==
  ASSUME Good(buffer), Typed(buffer, buffer')
  PROVE  Plain!Insert \/ Plain!Move
<1>1. PICK new : /\ TextOK(new) /\ Characters(new) \in Insertable
                 /\ Inserted(buffer, buffer', new)
  BY DEF Typed
<1>2. CASE buffer' = buffer
  <2>1. Moved(buffer, buffer')
    BY <1>2 DEF Moved
  <2> QED BY <2>1, PlainMove
<1>3. CASE buffer' = Quiet(buffer.lines, buffer.at)
  <2>1. Sound(buffer) /\ buffer.at \in Places /\ IsPlace(buffer, buffer.at)
    BY GoodParts
  <2>2. Moved(buffer, buffer')
    BY <1>3, <2>1, QuietIsGood DEF Moved
  <2> QED BY <2>2, PlainMove
<1>4. CASE Edited(buffer, buffer', Offset(buffer, Selected(buffer).from),
                  Offset(buffer, Selected(buffer).to), new)
  <2>1. new \in Seq(Glyph)
    BY <1>1, BytesRight
  <2>2. Rewritten(buffer, buffer', CharsTo(buffer, Selected(buffer).from),
                  CharsTo(buffer, Selected(buffer).to), Characters(new))
    BY <1>4, <2>1, SelectionCounts, EditRewrites DEF CharsTo
  <2>3. Rewritten(buffer, buffer', Plain!Least(PointOf(buffer), MarkOf(buffer)),
                  Plain!Greatest(PointOf(buffer), MarkOf(buffer)), Characters(new))
    BY <2>2, SelectionCounts
  <2>4. Plain!ReplaceBetween(Plain!Least(PointOf(buffer), MarkOf(buffer)),
                             Plain!Greatest(PointOf(buffer), MarkOf(buffer)), Characters(new))
    BY <2>3, PlainReplaces
  <2>5. Characters(new) \in {<<c>> : c \in Chars \cup {NewLine}} \cup Pastes \cup {<<>>}
    BY <1>1 DEF Insertable, Symbol
  <2>6. Plain!Insert
    BY <2>4, <2>5, PlainView DEF Plain!Insert
  <2> QED BY <2>6
<1> QED BY <1>1, <1>2, <1>3, <1>4 DEF Inserted

\* Where the cursor is when nothing is selected.
LEMMA HereCounts ==
  ASSUME NEW b, Good(b), ~HasSelection(b)
  PROVE  /\ Offset(b, b.at) \in 0..Len(ToText(b)) /\ Offset(b, b.at) \in Boundaries(ToText(b))
         /\ Count(ToText(b), Offset(b, b.at)) = PointOf(b) /\ MarkOf(b) = PointOf(b)
         /\ PointOf(b) \in 0..Len(TextOf(b)) /\ Len(TextOf(b)) \in Nat
         /\ ToText(b) \in Seq(Glyph) /\ Len(ToText(b)) \in Nat
<1>1. b.at \in Places /\ IsPlace(b, b.at) /\ Sound(b)
  BY GoodParts
<1> QED BY <1>1, PlaceCounts, StateCounts, SoundRows DEF PointOf, CharsTo

\* and what is erased is the character before the cursor,
LEMMA PlainEraseBefore ==
  ASSUME Good(buffer), ErasedBefore(buffer, buffer')
  PROVE  Plain!EraseBefore
<1> DEFINE t == ToText(buffer)
           o == Offset(buffer, buffer.at)
<1>1. PICK from : Edited(buffer, buffer', from, o, <<>>) /\ OneChar(t, from, o)
  BY DEF ErasedBefore
<1>2. /\ o \in 0..Len(t) /\ Count(t, o) = PointOf(buffer) /\ MarkOf(buffer) = PointOf(buffer)
      /\ t \in Seq(Glyph) /\ PointOf(buffer) \in Nat
  BY HereCounts DEF ErasedBefore
<1> HIDE DEF t, o
<1>3. Count(t, o) = Count(t, from) + 1 /\ Count(t, from) \in Nat
  BY <1>1, <1>2, OneCharCounts
<1>4. from \in 0..Len(t)
  BY <1>1, <1>2 DEF OneChar
<1>5. <<>> \in Seq(Glyph) /\ Characters(<<>>) = <<>>
  BY EmptySeq, NoCharacters
<1>6. Rewritten(buffer, buffer', Count(t, from), Count(t, o), Characters(<<>>))
  BY <1>1, <1>2, <1>4, <1>5, EditRewrites DEF t
<1>7. Rewritten(buffer, buffer', PointOf(buffer) - 1, PointOf(buffer), <<>>)
  <2>1. Count(t, from) = PointOf(buffer) - 1
    BY <1>2, <1>3
  <2> QED BY <1>2, <1>5, <1>6, <2>1
<1>8. PointOf(buffer) > 0
  BY <1>2, <1>3
<1> QED BY <1>2, <1>7, <1>8, PlainReplaces, PlainView DEF Plain!EraseBefore

\* the one behind it
LEMMA PlainEraseAfter ==
  ASSUME Good(buffer), ErasedAfter(buffer, buffer')
  PROVE  Plain!EraseAfter
<1> DEFINE t == ToText(buffer)
           o == Offset(buffer, buffer.at)
<1>1. PICK to : Edited(buffer, buffer', o, to, <<>>) /\ OneChar(t, o, to)
  BY DEF ErasedAfter
<1>2. /\ o \in 0..Len(t) /\ Count(t, o) = PointOf(buffer) /\ MarkOf(buffer) = PointOf(buffer)
      /\ t \in Seq(Glyph) /\ PointOf(buffer) \in Nat /\ Len(t) \in Nat
  BY HereCounts DEF ErasedAfter
<1> HIDE DEF t, o
<1>3. Count(t, to) = PointOf(buffer) + 1
  BY <1>1, <1>2, OneCharCounts
<1>4. to \in 0..Len(t)
  BY <1>1, <1>2 DEF OneChar
<1>5. <<>> \in Seq(Glyph) /\ Characters(<<>>) = <<>>
  BY EmptySeq, NoCharacters
<1>6. Rewritten(buffer, buffer', Count(t, o), Count(t, to), Characters(<<>>))
  BY <1>1, <1>2, <1>4, <1>5, EditRewrites DEF t
<1>7. Rewritten(buffer, buffer', PointOf(buffer), PointOf(buffer) + 1, <<>>)
  BY <1>2, <1>3, <1>5, <1>6
<1>8. PointOf(buffer) < Len(TextOf(buffer))
  <2>1. Count(t, to) \in 0..Len(TextOf(buffer))
    BY <1>2, <1>4, CutCharacters DEF TextOf, t
  <2>2. Len(TextOf(buffer)) \in Nat
    BY StateCounts
  <2> QED BY <1>2, <1>3, <2>1, <2>2
<1> QED BY <1>2, <1>7, <1>8, PlainReplaces, PlainView DEF Plain!EraseAfter

\* or the rest of the line.
LEMMA PlainEraseLine ==
  ASSUME Good(buffer), ErasedRest(buffer, buffer')
  PROVE  Plain!EraseLine
<1> DEFINE t == ToText(buffer)
           o == Offset(buffer, buffer.at)
           c == TextOf(buffer)
           p == PointOf(buffer)
<1>1. PICK to : Edited(buffer, buffer', o, to, <<>>) /\ RestOfLine(t, o, to)
  BY DEF ErasedRest
<1>2. /\ o \in 0..Len(t) /\ o \in Boundaries(t) /\ Count(t, o) = p /\ MarkOf(buffer) = p
      /\ t \in Seq(Glyph) /\ p \in Nat /\ Len(t) \in Nat
  BY HereCounts DEF ErasedRest
<1> HIDE DEF t, o
<1> DEFINE m == Count(t, to)
<1>3. /\ m \in (p + 1)..Len(c) /\ \A k \in (p + 1)..m : c[k] # NewLine
      /\ m < Len(c) => c[m + 1] = NewLine
  BY <1>1, <1>2, RestCounts DEF TextOf, t
<1>4. to \in 0..Len(t)
  BY <1>1, <1>2 DEF RestOfLine
<1>5. <<>> \in Seq(Glyph) /\ Characters(<<>>) = <<>>
  BY EmptySeq, NoCharacters
<1>6. Rewritten(buffer, buffer', Count(t, o), Count(t, to), Characters(<<>>))
  BY <1>1, <1>2, <1>4, <1>5, EditRewrites DEF t
<1> HIDE DEF m
<1>7. Rewritten(buffer, buffer', p, m, <<>>)
  BY <1>2, <1>5, <1>6 DEF m
<1>8. Plain!ReplaceBetween(p, m, <<>>)
  BY <1>7, PlainReplaces
<1> QED BY <1>2, <1>3, <1>8, PlainView DEF Plain!EraseLine

(***************************************************************************)
(* The buffer of lines and byte offsets, with its shortcuts for edits in   *)
(* one line, is one text with a cursor and a selection; an edit that fails *)
(* leaves it as it was.                                                    *)
(***************************************************************************)
THEOREM EditorIsPlainText == Spec => EditsAsPromised
<1>1. Init => Plain!Init
  <2> SUFFICES ASSUME Init PROVE Plain!Init
    OBVIOUS
  <2>1. buffer = EmptyBuffer
    BY DEF Init
  <2>2. /\ Good(buffer) /\ ~HasSelection(buffer) /\ ToText(buffer) = <<>>
    BY <2>1, EmptyIsGood
  <2>3. TextOf(buffer) = <<>> /\ Len(<<>>) = 0
    BY <2>2, NoCharacters, NoBytes DEF TextOf
  <2>4. PointOf(buffer) = 0 /\ MarkOf(buffer) = 0
    BY <2>2, <2>3, StateCounts
  <2> QED BY <2>3, <2>4, PlainView DEF Plain!Init
<1>2. IInv /\ [Next]_vars => [Plain!Next]_<<Characters(ToText(buffer)), CharsBefore(buffer.at),
        CharsBefore(IF HasSelection(buffer) THEN buffer.anchor ELSE buffer.at)>>
  <2>1. ASSUME IInv, Next PROVE Plain!Next
    <3>1. Good(buffer) /\ Did(buffer, buffer')
      BY <2>1, StepDoes DEF IInv
    <3> QED BY <3>1, PlainInsert, PlainEraseBefore, PlainEraseAfter, PlainEraseLine, PlainMove,
                PlainLoad DEF Did, Plain!Next
  <2>2. ASSUME UNCHANGED vars
        PROVE  UNCHANGED <<Characters(ToText(buffer)), CharsBefore(buffer.at),
                 CharsBefore(IF HasSelection(buffer) THEN buffer.anchor ELSE buffer.at)>>
    BY <2>2, PlainView DEF vars
  <2> QED BY <2>1, <2>2
<1> QED BY <1>1, <1>2, EditorStaysGood, PTL DEF Spec, EditsAsPromised, Plain!Spec

-----------------------------------------------------------------------------
(***************************************************************************)
(* Find selects the nearest occurrence of the query: the code compares     *)
(* bytes where the property compares characters, and searches line by line *)
(* where the property searches the text.                                   *)
(***************************************************************************)
\* Texts with the same characters, but for their case, in the same places.
Alike(s, t) ==
  /\ Len(s) = Len(t)
  /\ \A n \in 1..Len(s) : \/ s[n] = Cont /\ t[n] = Cont
                          \/ {s[n], t[n]} \subseteq Chars /\ Fold[s[n]] = Fold[t[n]]

\* A character and its other case take the same bytes.
LEMMA FoldKeepsBytes ==
  ASSUME NEW c \in Chars, NEW d \in Chars, Fold[c] = Fold[d]
  PROVE  Bytes[c] = Bytes[d]
BY FoldAssumption

\* The bytes of a line are characters or continue one.
LEMMA LineBytes ==
  ASSUME NEW t \in Seq(Byte)
  PROVE  /\ t \in Seq(Glyph) /\ Len(t) \in Nat
         /\ \A n \in 1..Len(t) : (t[n] = Cont \/ t[n] \in Chars) /\ ~(t[n] = Cont /\ t[n] \in Chars)
<1>1. t \in Seq(Glyph)
  BY SeqMonotonic DEF Glyph
<1>2. Len(t) \in Nat /\ \A n \in 1..Len(t) : t[n] \in Byte
  BY LenProperties, ElementOfSeq
<1>3. Cont \notin Chars
  BY Utf8Assumption
<1> QED BY <1>1, <1>2, <1>3 DEF Byte

\* What is alike has the same characters but for their case.
LEMMA AlikeSame ==
  ASSUME NEW s \in Seq(Byte), NEW t \in Seq(Byte), Alike(s, t)
  PROVE  Same(Characters(s), Characters(t))
<1> DEFINE N == Len(s)
<1>1. /\ s \in Seq(Glyph) /\ t \in Seq(Glyph) /\ N \in Nat /\ Len(t) = N
      /\ \A n \in 1..N : (s[n] = Cont \/ s[n] \in Chars) /\ ~(s[n] = Cont /\ s[n] \in Chars)
  BY LineBytes DEF Alike
<1>2. PICK f : Ofs(f, s)
  BY <1>1, OfsExist
<1>3. PICK g : Ofs(g, t)
  BY <1>1, OfsExist
<1>4. Characters(s) = f[N] /\ Characters(t) = g[N]
  BY <1>1, <1>2, <1>3, CharactersAre
<1> DEFINE S == {n \in 0..N : Same(f[n], g[n])}
<1>5. /\ \A n \in 0..N : f[n] \in Seq(Symbol) /\ g[n] \in Seq(Symbol)
      /\ f[0] = <<>> /\ g[0] = <<>>
      /\ \A n \in 1..N : f[n] = IF s[n] = Cont THEN f[n - 1] ELSE Append(f[n - 1], s[n])
      /\ \A n \in 1..N : g[n] = IF t[n] = Cont THEN g[n - 1] ELSE Append(g[n - 1], t[n])
  BY <1>1, <1>2, <1>3 DEF Ofs
<1>6. \A n \in 1..N : \/ s[n] = Cont /\ t[n] = Cont
                      \/ {s[n], t[n]} \subseteq Chars /\ Fold[s[n]] = Fold[t[n]]
  BY DEF Alike
<1> HIDE DEF N
<1>7. 0 \in S
  <2>1. Same(f[0], g[0])
    BY <1>5, EmptySeq DEF Same
  <2> QED BY <1>1, <2>1
<1>8. ASSUME NEW n \in 0..N, n < N, n \in S PROVE n + 1 \in S
  <2>1. PICK i \in 1..N : i = n + 1 /\ i - 1 = n
    <3>1. n + 1 \in 1..N /\ (n + 1) - 1 = n
      BY <1>1, <1>8
    <3> QED BY <3>1
  <2>2. i \in 0..N /\ f[n] \in Seq(Symbol) /\ g[n] \in Seq(Symbol) /\ Same(f[n], g[n])
    BY <1>5, <1>8
  <2>3. CASE s[i] = Cont /\ t[i] = Cont
    <3>1. f[i] = f[n] /\ g[i] = g[n]
      BY <1>5, <2>1, <2>3
    <3> QED BY <2>1, <2>2, <3>1
  <2>4. CASE {s[i], t[i]} \subseteq Chars /\ Fold[s[i]] = Fold[t[i]]
    <3>1. s[i] # Cont /\ t[i] # Cont /\ s[i] \in Symbol /\ t[i] \in Symbol
      BY <2>4, Utf8Assumption DEF Symbol
    <3>2. f[i] = Append(f[n], s[i]) /\ g[i] = Append(g[n], t[i])
      BY <1>5, <2>1, <3>1
    <3>3. PICK u, v : u = f[n] /\ v = g[n]
      OBVIOUS
    <3>4. PICK c, d : c = s[i] /\ d = t[i]
      OBVIOUS
    <3>5. u \in Seq(Symbol) /\ v \in Seq(Symbol) /\ c \in Symbol /\ d \in Symbol
          /\ Fold[c] = Fold[d] /\ Len(u) = Len(v)
          /\ \A k \in DOMAIN u : Fold[u[k]] = Fold[v[k]]
      BY <2>2, <2>4, <3>1, <3>3, <3>4 DEF Same
    <3>6. Same(Append(u, c), Append(v, d))
      <4>1. /\ Len(u) \in Nat /\ DOMAIN u = 1..Len(u)
            /\ Append(u, c) \in Seq(Symbol) /\ Len(Append(u, c)) = Len(u) + 1
            /\ \A k \in 1..Len(u) : Append(u, c)[k] = u[k]
            /\ Append(u, c)[Len(u) + 1] = c
        <5>1. Len(u) \in Nat /\ DOMAIN u = 1..Len(u)
          BY <3>5, LenProperties
        <5>2. /\ Append(u, c) \in Seq(Symbol) /\ Len(Append(u, c)) = Len(u) + 1
              /\ \A k \in 1..Len(u) : Append(u, c)[k] = u[k]
              /\ Append(u, c)[Len(u) + 1] = c
          BY <3>5, AppendProperties
        <5> QED BY <5>1, <5>2
      <4>2. /\ Append(v, d) \in Seq(Symbol) /\ Len(Append(v, d)) = Len(u) + 1
            /\ \A k \in 1..Len(u) : Append(v, d)[k] = v[k]
            /\ Append(v, d)[Len(u) + 1] = d
        <5>1. /\ Append(v, d) \in Seq(Symbol) /\ Len(Append(v, d)) = Len(v) + 1
              /\ \A k \in 1..Len(v) : Append(v, d)[k] = v[k]
              /\ Append(v, d)[Len(v) + 1] = d
          BY <3>5, LenProperties, AppendProperties
        <5> QED BY <3>5, <5>1
      <4>3. DOMAIN Append(u, c) = 1..(Len(u) + 1)
        <5>1. PICK w : w = Append(u, c)
          OBVIOUS
        <5>2. w \in Seq(Symbol) /\ Len(w) = Len(u) + 1
          BY <4>1, <5>1
        <5>3. DOMAIN w = 1..Len(w)
          BY <5>2, LenProperties
        <5> QED BY <5>1, <5>2, <5>3
      <4>4. ASSUME NEW k \in 1..(Len(u) + 1)
            PROVE  Fold[Append(u, c)[k]] = Fold[Append(v, d)[k]]
        <5>1. k \in 1..Len(u) \/ k = Len(u) + 1
          BY <4>1
        <5> QED BY <3>5, <4>1, <4>2, <5>1
      <4> QED BY <4>1, <4>2, <4>3, <4>4 DEF Same
    <3> QED BY <2>1, <2>2, <3>2, <3>3, <3>4, <3>6
  <2> QED BY <1>6, <2>3, <2>4
<1>9. N \in S
  <2> HIDE DEF S
  <2>1. 0..N \subseteq S
    BY <1>1, <1>7, <1>8, Stepwise
  <2> QED BY <1>1, <2>1
<1> QED BY <1>4, <1>9

\* What is like whole characters is whole characters.
LEMMA AlikeWhole ==
  ASSUME NEW s, GoodLine(s), NEW t \in Seq(Byte), Alike(s, t)
  PROVE  GoodLine(t)
<1> DEFINE N == Len(s)
<1>1. /\ s \in Seq(Byte) /\ TextOK(s) /\ t \in Seq(Glyph) /\ N \in Nat /\ Len(t) = N
      /\ s \in Seq(Glyph)
  BY LineBytes, PlacesOfLine DEF Alike
<1>2. \A n \in 1..N : \/ s[n] = Cont /\ t[n] = Cont
                      \/ {s[n], t[n]} \subseteq Chars /\ Fold[s[n]] = Fold[t[n]]
  BY DEF Alike
<1>3. \A q \in 0..(N - 1) : s[q + 1] = Cont <=> t[q + 1] = Cont
  BY <1>1, <1>2, Utf8Assumption
<1>4. ASSUME NEW p \in 0..(N - 1)
      PROVE  IF t[p + 1] = Cont THEN p > 0 ELSE Whole(t, p)
  <2>1. IF s[p + 1] = Cont THEN p > 0 ELSE Whole(s, p)
    BY <1>1 DEF TextOK
  <2>2. CASE t[p + 1] = Cont
    BY <1>3, <2>1, <2>2
  <2>3. CASE t[p + 1] # Cont
    <3>1. Whole(s, p)
      BY <1>3, <2>1, <2>3
    <3>2. s[p + 1] \in Chars /\ t[p + 1] \in Chars /\ Fold[s[p + 1]] = Fold[t[p + 1]]
      <4>1. p + 1 \in 1..N
        BY <1>1
      <4> QED BY <1>2, <2>3, <4>1
    <3>3. Width(t[p + 1]) = Width(s[p + 1]) /\ Width(s[p + 1]) \in 1..4
      BY <3>2, FoldKeepsBytes, WidthRight DEF Symbol
    <3>4. PICK w \in 1..4 : w = Width(s[p + 1]) /\ w = Width(t[p + 1])
      BY <3>3
    <3>5. /\ p + w <= N /\ p + w \in 0..N /\ (p + w = N \/ s[(p + w) + 1] # Cont)
          /\ \A q \in (p + 1)..(p + w - 1) : s[q + 1] = Cont
      BY <3>1, <3>4 DEF Whole, AtBoundary
    <3>6. p + w = N \/ t[(p + w) + 1] # Cont
      <4>1. p + w # N => p + w \in 0..(N - 1)
        BY <1>1, <3>5
      <4> QED BY <1>3, <3>5, <4>1
    <3>7. \A q \in (p + 1)..(p + w - 1) : t[q + 1] = Cont
      <4>1. \A q \in (p + 1)..(p + w - 1) : q \in 0..(N - 1)
        BY <1>1, <3>5
      <4> QED BY <1>3, <3>5, <4>1
    <3>8. Whole(t, p)
      BY <1>1, <3>4, <3>5, <3>6, <3>7 DEF Whole, AtBoundary
    <3> QED BY <2>3, <3>8
  <2> QED BY <2>2, <2>3
<1> QED BY <1>1, <1>4 DEF GoodLine, TextOK

\* A place before the same number of characters in both texts.
Shared(s, t, n) == n \in Boundaries(s) /\ n \in Boundaries(t) /\ Count(s, n) = Count(t, n)

\* The next character of both texts is the same but for its case, and so is its end.
LEMMA NextShared ==
  ASSUME NEW s, GoodLine(s), NEW t, GoodLine(t), Len(s) = Len(t),
         Same(Characters(s), Characters(t)), NEW n, Shared(s, t, n), n < Len(s)
  PROVE  /\ NextChar(s, n) = NextChar(t, n) /\ Shared(s, t, NextChar(s, n))
         /\ s[n + 1] \in Chars /\ t[n + 1] \in Chars /\ Fold[s[n + 1]] = Fold[t[n + 1]]
<1>1. /\ s \in Seq(Glyph) /\ t \in Seq(Glyph) /\ Len(s) \in Nat /\ n \in 0..Len(s)
      /\ n \in Boundaries(s) /\ n \in Boundaries(t)
  BY PlacesOfLine DEF Shared
<1>2. /\ s[n + 1] \in Chars /\ NextChar(s, n) = n + Bytes[s[n + 1]]
      /\ OneChar(s, n, NextChar(s, n)) /\ NextChar(s, n) \in Boundaries(s)
  BY <1>1, NextCharRight, CharBehind
<1>3. /\ t[n + 1] \in Chars /\ NextChar(t, n) = n + Bytes[t[n + 1]]
      /\ OneChar(t, n, NextChar(t, n)) /\ NextChar(t, n) \in Boundaries(t)
  BY <1>1, NextCharRight, CharBehind
<1>4. /\ Count(s, NextChar(s, n)) = Count(s, n) + 1
      /\ Count(t, NextChar(t, n)) = Count(t, n) + 1
  BY <1>1, <1>2, <1>3, OneCharCounts
<1>5. n \in 0..(Len(s) - 1) /\ s[n + 1] # Cont /\ t[n + 1] # Cont
  BY <1>1, <1>2, <1>3, Utf8Assumption
<1>6. /\ Count(s, n) \in Nat /\ Count(s, n) < Len(Characters(s))
      /\ Characters(s)[Count(s, n) + 1] = s[n + 1]
  BY <1>1, <1>5, CharAt
<1>7. Characters(t)[Count(t, n) + 1] = t[n + 1]
  <2>1. n \in 0..(Len(t) - 1)
    BY <1>5
  <2> QED BY <1>1, <1>5, <2>1, CharAt
<1>8. Fold[s[n + 1]] = Fold[t[n + 1]]
  <2>1. Characters(s) \in Seq(Symbol) /\ Len(Characters(s)) \in Nat
    BY <1>1, CharactersType
  <2>2. Count(s, n) + 1 \in 1..Len(Characters(s)) /\ DOMAIN Characters(s) = 1..Len(Characters(s))
    BY <1>6, <2>1, LenProperties
  <2>3. Fold[Characters(s)[Count(s, n) + 1]] = Fold[Characters(t)[Count(s, n) + 1]]
    BY <2>2 DEF Same
  <2>4. Count(s, n) = Count(t, n)
    BY DEF Shared
  <2> QED BY <1>6, <1>7, <2>3, <2>4
<1>9. Bytes[s[n + 1]] = Bytes[t[n + 1]]
  BY <1>2, <1>3, <1>8, FoldKeepsBytes
<1>10. NextChar(s, n) = NextChar(t, n)
  BY <1>2, <1>3, <1>9
<1>11. Count(s, NextChar(s, n)) = Count(t, NextChar(s, n))
  BY <1>4, <1>10 DEF Shared
<1> QED BY <1>2, <1>3, <1>8, <1>10, <1>11 DEF Shared

\* One character behind the one before is where one was.
LEMMA NextOfPrev ==
  ASSUME NEW t, GoodLine(t), NEW p \in Boundaries(t), p > 0
  PROVE  /\ PrevChar(t, p) \in Boundaries(t) /\ PrevChar(t, p) < p /\ p <= Len(t)
         /\ PrevChar(t, p) \in Nat /\ p \in Nat /\ Len(t) \in Nat
         /\ NextChar(t, PrevChar(t, p)) = p
<1>1. Len(t) \in Nat /\ p \in 0..Len(t) /\ Boundaries(t) \subseteq 0..Len(t)
      /\ (p = Len(t) \/ t[p + 1] # Cont)
  BY PlacesOfLine DEF AtBoundary
<1>2. PICK q : q = PrevChar(t, p)
  OBVIOUS
<1>3. /\ q \in Boundaries(t) /\ q \in Nat /\ p \in (q + 1)..Len(t)
      /\ \A k \in (q + 1)..(p - 1) : t[k + 1] = Cont
  BY <1>2, CharBefore DEF OneChar
<1>4. q < Len(t)
  BY <1>1, <1>3
<1>5. PICK n : n = NextChar(t, q)
  OBVIOUS
<1>6. /\ n \in Boundaries(t) /\ n \in (q + 1)..Len(t)
      /\ \A k \in (q + 1)..(n - 1) : t[k + 1] = Cont
  BY <1>3, <1>4, <1>5, CharBehind DEF OneChar
<1>7. n = Len(t) \/ t[n + 1] # Cont
  BY <1>6, PlacesOfLine DEF AtBoundary
<1>8. ~(n < p)
  <2>1. n < p => n \in (q + 1)..(p - 1) /\ n # Len(t)
    BY <1>1, <1>3, <1>6
  <2> QED BY <1>3, <1>7, <2>1
<1>9. ~(p < n)
  <2>1. p < n => p \in (q + 1)..(n - 1) /\ p # Len(t)
    BY <1>1, <1>3, <1>6
  <2> QED BY <1>1, <1>6, <2>1
<1>10. n = p
  BY <1>3, <1>6, <1>8, <1>9
<1> QED BY <1>1, <1>2, <1>3, <1>5, <1>10

\* Texts of the same length with the same characters, but for their case, have
\* them in the same places.
LEMMA SameAlike ==
  ASSUME NEW s, GoodLine(s), NEW t, GoodLine(t), Len(s) = Len(t),
         Same(Characters(s), Characters(t))
  PROVE  Alike(s, t)
<1> DEFINE N == Len(s)
           Bad == {n \in 0..N : (n \in Boundaries(s) \/ n \in Boundaries(t)) /\ ~Shared(s, t, n)}
<1>1. /\ s \in Seq(Byte) /\ t \in Seq(Byte) /\ s \in Seq(Glyph) /\ t \in Seq(Glyph)
      /\ N \in Nat /\ Len(t) = N /\ 0 \in Boundaries(s) /\ 0 \in Boundaries(t)
      /\ Boundaries(s) \subseteq 0..N /\ Boundaries(t) \subseteq 0..N
      /\ \A p : p \in Boundaries(s) <=> AtBoundary(s, p)
      /\ \A p : p \in Boundaries(t) <=> AtBoundary(t, p)
  BY PlacesOfLine
<1>2. Same(Characters(t), Characters(s))
  <2>1. Characters(s) \in Seq(Symbol) /\ Characters(t) \in Seq(Symbol)
    BY <1>1, CharactersType
  <2>2. /\ DOMAIN Characters(s) = 1..Len(Characters(s))
        /\ DOMAIN Characters(t) = 1..Len(Characters(t))
    BY <2>1, LenProperties
  <2> QED BY <2>2 DEF Same
<1>3. Shared(s, t, 0)
  <2>1. SubSeq(s, 1, 0) = <<>> /\ SubSeq(t, 1, 0) = <<>>
    BY SubSeqEmpty
  <2> QED BY <1>1, <2>1 DEF Shared, Count
<1>4. \A n : Shared(s, t, n) <=> Shared(t, s, n)
  BY DEF Shared
<1>5. ASSUME NEW n \in Bad, \A k \in Bad : n <= k PROVE FALSE
  <2>1. n \in 0..N /\ ~Shared(s, t, n) /\ n # 0 /\ n \in Nat /\ n > 0
    BY <1>1, <1>3, <1>5
  <2>2. \A k \in 0..N : k < n /\ (k \in Boundaries(s) \/ k \in Boundaries(t)) => Shared(s, t, k)
    BY <1>1, <1>5, <2>1
  <2>3. CASE n \in Boundaries(s)
    <3>1. PICK p : p = PrevChar(s, n)
      OBVIOUS
    <3>2. /\ p \in Boundaries(s) /\ p < n /\ p \in Nat /\ NextChar(s, p) = n /\ n <= N
      BY <2>1, <2>3, <3>1, NextOfPrev
    <3>3. p \in 0..N /\ p < N
      BY <1>1, <2>1, <3>2
    <3>4. Shared(s, t, p)
      BY <2>2, <3>2, <3>3
    <3>5. Shared(s, t, n)
      BY <3>2, <3>3, <3>4, NextShared
    <3> QED BY <2>1, <3>5
  <2>4. CASE n \in Boundaries(t)
    <3>1. PICK p : p = PrevChar(t, n)
      OBVIOUS
    <3>2. /\ p \in Boundaries(t) /\ p < n /\ p \in Nat /\ NextChar(t, p) = n /\ n <= N
      BY <1>1, <2>1, <2>4, <3>1, NextOfPrev
    <3>3. p \in 0..N /\ p < N
      BY <1>1, <2>1, <3>2
    <3>4. Shared(t, s, p)
      BY <1>4, <2>2, <3>2, <3>3
    <3>5. Shared(t, s, n)
      BY <1>1, <1>2, <3>2, <3>3, <3>4, NextShared
    <3> QED BY <1>4, <2>1, <3>5
  <2> QED BY <1>5, <2>3, <2>4
<1>6. Bad = {}
  <2> SUFFICES ASSUME Bad # {} PROVE FALSE
    OBVIOUS
  <2>1. Bad \in SUBSET Nat
    BY <1>1
  <2> HIDE DEF Bad
  <2>2. PICK n \in Bad : \A k \in Bad : n <= k
    BY <2>1, LeastExists
  <2> QED BY <1>5, <2>2
<1>7. ASSUME NEW n \in 1..N
      PROVE  \/ s[n] = Cont /\ t[n] = Cont
             \/ {s[n], t[n]} \subseteq Chars /\ Fold[s[n]] = Fold[t[n]]
  <2>1. PICK p \in 0..(N - 1) : p + 1 = n /\ p \in 0..N /\ p < N
    <3>1. n - 1 \in 0..(N - 1) /\ (n - 1) + 1 = n /\ n - 1 \in 0..N /\ n - 1 < N
      BY <1>1
    <3> QED BY <3>1
  <2>2. CASE s[n] = Cont /\ t[n] = Cont
    BY <2>2
  <2>3. CASE ~(s[n] = Cont /\ t[n] = Cont)
    <3>1. p \in Boundaries(s) \/ p \in Boundaries(t)
      BY <1>1, <2>1, <2>3 DEF AtBoundary
    <3>2. Shared(s, t, p)
      BY <1>6, <2>1, <3>1
    <3>3. s[p + 1] \in Chars /\ t[p + 1] \in Chars /\ Fold[s[p + 1]] = Fold[t[p + 1]]
      BY <2>1, <3>2, NextShared
    <3> QED BY <2>1, <3>3
  <2> QED BY <2>2, <2>3
<1> QED BY <1>1, <1>7 DEF Alike

\* A part of a line.
LEMMA PartOfLine ==
  ASSUME NEW t \in Seq(Byte), NEW p \in 0..Len(t), NEW q \in p..Len(t)
  PROVE  /\ SubSeq(t, p + 1, q) \in Seq(Byte) /\ Len(SubSeq(t, p + 1, q)) = q - p
         /\ \A i \in 1..(q - p) : SubSeq(t, p + 1, q)[i] = t[p + i]
<1>1. t \in Seq(Glyph) /\ Len(t) \in Nat
  BY LineBytes
<1>2. /\ Len(SubSeq(t, p + 1, q)) = q - p
      /\ \A i \in 1..(q - p) : SubSeq(t, p + 1, q)[i] = t[p + i]
  BY <1>1, PartOfText
<1>3. p + 1 \in Int /\ q \in Int /\ \A n \in (p + 1)..q : t[n] \in Byte
  <2>1. \A n \in (p + 1)..q : n \in 1..Len(t)
    BY <1>1
  <2>2. \A n \in 1..Len(t) : t[n] \in Byte
    BY ElementOfSeq
  <2> QED BY <1>1, <2>1, <2>2
<1>4. SubSeq(t, p + 1, q) \in Seq(Byte)
  BY <1>3, SubSeqProperties
<1> QED BY <1>2, <1>4

\* The code finds what is like the query.
LEMMA MatchesIs ==
  ASSUME NEW line, GoodLine(line), NEW q, GoodLine(q), NEW p \in Boundaries(line),
         p + Len(q) <= Len(line), NEW u, u = SubSeq(line, p + 1, p + Len(q))
  PROVE  u \in Seq(Byte) /\ Len(u) = Len(q) /\ (QueryMatches(line, p, q) <=> Alike(u, q))
<1>1. /\ line \in Seq(Byte) /\ q \in Seq(Byte) /\ Len(q) \in Nat /\ Len(line) \in Nat
      /\ p \in 0..Len(line)
  BY PlacesOfLine
<1>2. PICK z : z = p + Len(q)
  OBVIOUS
<1>3. z \in p..Len(line) /\ z - p = Len(q)
  BY <1>1, <1>2
<1>4. u \in Seq(Byte) /\ Len(u) = Len(q) /\ \A k \in 1..Len(q) : u[k] = line[p + k]
  <2>1. /\ SubSeq(line, p + 1, z) \in Seq(Byte) /\ Len(SubSeq(line, p + 1, z)) = z - p
        /\ \A i \in 1..(z - p) : SubSeq(line, p + 1, z)[i] = line[p + i]
    BY <1>1, <1>3, PartOfLine
  <2> QED BY <1>2, <1>3, <2>1
<1>5. ASSUME NEW k \in 1..Len(q)
      PROVE  (\/ q[k] = Cont /\ line[p + k] = Cont
              \/ /\ {q[k], line[p + k]} \subseteq Chars
                 /\ Fold[q[k]] = Fold[line[p + k]])
             <=> (\/ u[k] = Cont /\ q[k] = Cont
                  \/ {u[k], q[k]} \subseteq Chars /\ Fold[u[k]] = Fold[q[k]])
  BY <1>4
<1> QED BY <1>4, <1>5 DEF QueryMatches, Alike

\* Being alike goes both ways.
LEMMA AlikeBoth ==
  ASSUME NEW s, NEW t, Alike(s, t)
  PROVE  Alike(t, s)
BY DEF Alike

\* And this is the query but for the case of its characters.
LEMMA OccursIs ==
  ASSUME NEW line, GoodLine(line), NEW q, GoodLine(q), NEW p \in Boundaries(line),
         p + Len(q) <= Len(line), NEW u, u = SubSeq(line, p + 1, p + Len(q))
  PROVE  QueryMatches(line, p, q) <=> Valid(u) /\ Same(Characters(u), Characters(q))
<1>1. u \in Seq(Byte) /\ Len(u) = Len(q) /\ (QueryMatches(line, p, q) <=> Alike(u, q))
  <2>1. \A v : v = SubSeq(line, p + 1, p + Len(q)) =>
                v \in Seq(Byte) /\ Len(v) = Len(q) /\ (QueryMatches(line, p, q) <=> Alike(v, q))
    BY MatchesIs
  <2> QED BY <2>1
<1>2. q \in Seq(Byte)
  BY PlacesOfLine
<1>3. ASSUME Alike(u, q) PROVE Valid(u) /\ Same(Characters(u), Characters(q))
  <2>1. GoodLine(u)
    BY <1>1, <1>3, AlikeBoth, AlikeWhole
  <2>2. Valid(u)
    BY <1>1, <2>1, ValidIs DEF GoodLine
  <2> QED BY <1>1, <1>2, <1>3, <2>2, AlikeSame
<1>4. ASSUME Valid(u), Same(Characters(u), Characters(q)) PROVE Alike(u, q)
  <2>1. GoodLine(u)
    BY <1>1, <1>4, ValidIs DEF GoodLine
  <2> QED BY <1>1, <1>4, <2>1, SameAlike
<1> QED BY <1>1, <1>3, <1>4

\* What is found ends between two characters.
LEMMA MatchEnds ==
  ASSUME NEW line, GoodLine(line), NEW q, GoodLine(q), q # <<>>, NEW p \in Boundaries(line),
         QueryMatches(line, p, q)
  PROVE  p + Len(q) \in Boundaries(line)
<1>1. /\ Len(q) \in Nat /\ Len(q) \in Boundaries(q) /\ Len(line) \in Nat /\ p \in 0..Len(line)
      /\ q \in Seq(Byte) /\ \A n : n \in Boundaries(line) <=> AtBoundary(line, n)
  BY PlacesOfLine
<1>2. Len(q) > 0
  BY <1>1, EmptySeq
<1>3. PICK k : k = PrevChar(q, Len(q))
  OBVIOUS
<1>4. k \in Boundaries(q) /\ k < Len(q) /\ k \in Nat /\ NextChar(q, k) = Len(q)
  BY <1>1, <1>2, <1>3, NextOfPrev
<1>5. q[k + 1] \in Chars /\ Len(q) = k + Bytes[q[k + 1]]
  BY <1>4, NextCharRight
<1>6. /\ p + Len(q) <= Len(line)
      /\ line[p + (k + 1)] \in Chars /\ Fold[q[k + 1]] = Fold[line[p + (k + 1)]]
  <2>1. PICK n \in 1..Len(q) : n = k + 1
    BY <1>1, <1>4
  <2>2. q[n] # Cont
    BY <1>5, <2>1, Utf8Assumption
  <2> QED BY <2>1, <2>2 DEF QueryMatches
<1>7. PICK r : r = p + k
  OBVIOUS
<1>8. r \in Nat /\ r < Len(line) /\ r + 1 = p + (k + 1)
  BY <1>1, <1>4, <1>6, <1>7
<1>9. line[r + 1] \in Chars /\ Bytes[line[r + 1]] = Bytes[q[k + 1]]
  BY <1>5, <1>6, <1>8, FoldKeepsBytes
<1>10. r \in Boundaries(line)
  BY <1>1, <1>8, <1>9, Utf8Assumption DEF AtBoundary
<1>11. NextChar(line, r) \in Boundaries(line) /\ NextChar(line, r) = r + Bytes[line[r + 1]]
  BY <1>8, <1>10, NextCharRight
<1>12. Bytes[q[k + 1]] \in Nat
  BY <1>5, Utf8Assumption
<1>13. r + Bytes[q[k + 1]] = p + Len(q)
  BY <1>1, <1>4, <1>5, <1>7, <1>12
<1> QED BY <1>9, <1>11, <1>13

\* An occurrence of the query is a place where the code finds it.
LEMMA OccurrencesAre ==
  ASSUME NEW b, Good(b), NEW q, GoodLine(q)
  PROVE  /\ \A row \in 0..LastRow(b) : \A col :
              Pos(row, col) \in Occurrences(b, q) <=>
                /\ col \in Boundaries(Line(b, row)) /\ col + Len(q) <= Len(Line(b, row))
                /\ QueryMatches(Line(b, row), col, q)
         /\ \A p \in Occurrences(b, q) :
              /\ p = Pos(p.row, p.col) /\ p.row \in 0..LastRow(b) /\ p.row \in Nat /\ p.col \in Nat
<1>1. Sound(b)
  BY GoodParts
<1>2. ASSUME NEW row \in 0..LastRow(b)
      PROVE  GoodLine(Line(b, row)) /\ \A col \in Boundaries(Line(b, row)) : col \in Nat
  <2>1. GoodLine(Line(b, row))
    BY <1>1, SoundRows
  <2>2. Boundaries(Line(b, row)) \subseteq 0..Len(Line(b, row))
    BY <2>1, PlacesOfLine
  <2> QED BY <2>1, <2>2
<1> DEFINE All == UNION {{Pos(row, col) : col \in Boundaries(Line(b, row))} : row \in 0..LastRow(b)}
<1>3. ASSUME NEW p
      PROVE  p \in All <=> \E row \in 0..LastRow(b) : \E col \in Boundaries(Line(b, row)) :
                             p = Pos(row, col)
  OBVIOUS
<1>4. ASSUME NEW p \in All
      PROVE  /\ p = Pos(p.row, p.col) /\ p.row \in 0..LastRow(b)
             /\ p.col \in Boundaries(Line(b, p.row))
  <2>1. PICK row \in 0..LastRow(b) : \E col \in Boundaries(Line(b, row)) : p = Pos(row, col)
    BY <1>3
  <2>2. PICK col \in Boundaries(Line(b, row)) : p = Pos(row, col)
    BY <2>1
  <2>3. p.row = row /\ p.col = col
    BY <2>2 DEF Pos
  <2> QED BY <2>2, <2>3
<1>5. \A p : p \in Occurrences(b, q) <=>
        /\ p \in All /\ p.col + Len(q) <= Len(Line(b, p.row))
        /\ Valid(SubSeq(Line(b, p.row), p.col + 1, p.col + Len(q)))
        /\ Same(Characters(SubSeq(Line(b, p.row), p.col + 1, p.col + Len(q))), Characters(q))
  BY DEF Occurrences
<1> HIDE DEF All
<1>6. ASSUME NEW row \in 0..LastRow(b), NEW col
      PROVE  Pos(row, col) \in Occurrences(b, q) <=>
               /\ col \in Boundaries(Line(b, row)) /\ col + Len(q) <= Len(Line(b, row))
               /\ QueryMatches(Line(b, row), col, q)
  <2> DEFINE u == SubSeq(Line(b, row), col + 1, col + Len(q))
  <2>1. Pos(row, col).row = row /\ Pos(row, col).col = col
    BY DEF Pos
  <2>2. Pos(row, col) \in All <=> col \in Boundaries(Line(b, row))
    BY <1>3, <1>4, <2>1
  <2>3. Pos(row, col) \in Occurrences(b, q) <=>
          /\ col \in Boundaries(Line(b, row)) /\ col + Len(q) <= Len(Line(b, row))
          /\ Valid(u) /\ Same(Characters(u), Characters(q))
    BY <1>5, <2>1, <2>2
  <2>4. col \in Boundaries(Line(b, row)) /\ col + Len(q) <= Len(Line(b, row)) =>
          (QueryMatches(Line(b, row), col, q) <=> Valid(u) /\ Same(Characters(u), Characters(q)))
    BY <1>2, OccursIs
  <2> HIDE DEF u
  <2> QED BY <2>3, <2>4
<1>7. ASSUME NEW p \in Occurrences(b, q)
      PROVE  /\ p = Pos(p.row, p.col) /\ p.row \in 0..LastRow(b) /\ p.row \in Nat /\ p.col \in Nat
  <2>1. p \in All
    BY <1>5
  <2>2. p = Pos(p.row, p.col) /\ p.row \in 0..LastRow(b) /\ p.col \in Boundaries(Line(b, p.row))
    BY <1>4, <2>1
  <2> QED BY <1>2, <2>2
<1> QED BY <1>6, <1>7

\* The occurrences from the cursor on, and those that end before it.
Coming(b, q, at) == {p \in Occurrences(b, q) : ~Before(p, at)}
Passed(b, q, at) == {p \in Occurrences(b, q) : ~Before(at, Pos(p.row, p.col + Len(q)))}

\* What the code finds in a row, read from the cursor on or up to it.
LEMMA RowFinds ==
  ASSUME NEW b, Good(b), NEW q, GoodLine(q), NEW at \in Places, IsPlace(b, at),
         NEW row \in 0..LastRow(b), NEW col,
         NEW from, from = (IF row = at.row THEN AtOrAfter(Line(b, row), at.col) ELSE 0)
  PROVE  /\ at.row <= row => (col \in FindInLine(Line(b, row), q, from, Len(Line(b, row)))
                                <=> Pos(row, col) \in Coming(b, q, at))
         /\ row < at.row => (col \in FindInLine(Line(b, row), q, from, Len(Line(b, row)))
                               <=> Pos(row, col) \in Passed(b, q, at))
         /\ row = at.row => (col \in FindInLine(Line(b, row), q, 0, from)
                               <=> Pos(row, col) \in Passed(b, q, at))
<1> DEFINE t == Line(b, row)
           occurs == Pos(row, col) \in Occurrences(b, q)
<1>1. /\ Sound(b) /\ at.row \in Nat /\ at.col \in Nat /\ row \in Nat
      /\ LastRow(b) \in Nat
  <2>1. at.row \in Nat /\ at.col \in Nat
    BY DEF Places
  <2> QED BY <2>1, GoodParts, SoundRows
<1>2. GoodLine(t) /\ Len(t) \in Nat /\ Boundaries(t) \subseteq 0..Len(t)
  <2>1. GoodLine(t)
    BY <1>1, SoundRows
  <2> QED BY <2>1, PlacesOfLine
<1>3. Len(q) \in Nat
  BY PlacesOfLine
<1>4. from = IF row = at.row THEN at.col ELSE 0
  <2>1. row = at.row => AtOrAfter(t, at.col) = at.col
    BY <1>2, AtOrAfterRight DEF IsPlace
  <2> QED BY <2>1
<1>5. occurs <=> col \in Boundaries(t) /\ col + Len(q) <= Len(t) /\ QueryMatches(t, col, q)
  BY OccurrencesAre
<1>6. col \in Boundaries(t) => col \in Nat
  BY <1>2
<1>7. /\ Pos(row, col).row = row /\ Pos(row, col).col = col
      /\ Pos(row, col + Len(q)).row = row /\ Pos(row, col + Len(q)).col = col + Len(q)
  BY DEF Pos
<1>8. Pos(row, col) \in Coming(b, q, at) <=> occurs /\ ~(row < at.row \/ (row = at.row /\ col < at.col))
  BY <1>7 DEF Coming, Before
<1>9. Pos(row, col) \in Passed(b, q, at) <=>
        occurs /\ ~(at.row < row \/ (at.row = row /\ at.col < col + Len(q)))
  BY <1>7 DEF Passed, Before
<1>10. col \in FindInLine(t, q, from, Len(t)) <=>
         col \in Boundaries(t) /\ from <= col /\ col + Len(q) <= Len(t) /\ QueryMatches(t, col, q)
  BY DEF FindInLine
<1>11. col \in FindInLine(t, q, 0, from) <=>
         col \in Boundaries(t) /\ 0 <= col /\ col + Len(q) <= from /\ QueryMatches(t, col, q)
  BY DEF FindInLine
<1>12. row = at.row => at.col <= Len(t)
  <2>1. row = at.row => at.col \in Boundaries(t)
    BY DEF IsPlace
  <2> QED BY <1>2, <2>1
<1> HIDE DEF t, occurs
<1>13. CASE col \notin Boundaries(t)
  <2>1. ~occurs
    BY <1>5, <1>13
  <2>2. Pos(row, col) \notin Coming(b, q, at) /\ Pos(row, col) \notin Passed(b, q, at)
    BY <1>8, <1>9, <2>1
  <2>3. col \notin FindInLine(t, q, from, Len(t)) /\ col \notin FindInLine(t, q, 0, from)
    BY <1>10, <1>11, <1>13, Zenon
  <2> QED BY <2>2, <2>3 DEF t
<1>14. CASE col \in Boundaries(t)
  <2>1. col \in Nat
    BY <1>6, <1>14
  <2>2. at.row <= row => (col \in FindInLine(t, q, from, Len(t)) <=> Pos(row, col) \in Coming(b, q, at))
    <3>1. CASE row = at.row
      BY <1>1, <1>4, <1>5, <1>8, <1>10, <1>14, <2>1, <3>1
    <3>2. CASE row # at.row
      BY <1>1, <1>4, <1>5, <1>8, <1>10, <1>14, <2>1, <3>2
    <3> QED BY <3>1, <3>2
  <2>3. row < at.row => (col \in FindInLine(t, q, from, Len(t)) <=> Pos(row, col) \in Passed(b, q, at))
    BY <1>1, <1>4, <1>5, <1>9, <1>10, <1>14, <2>1
  <2>4. row = at.row => (col \in FindInLine(t, q, 0, from) <=> Pos(row, col) \in Passed(b, q, at))
    BY <1>1, <1>2, <1>3, <1>4, <1>5, <1>9, <1>11, <1>12, <1>14, <2>1
  <2> QED BY <2>2, <2>3, <2>4 DEF t
<1> QED BY <1>13, <1>14 DEF t

\* What the code finds is the nearest occurrence, if there is one.
LEMMA FoundNearest ==
  ASSUME NEW b, Good(b), NEW q, GoodLine(q), q # <<>>, NEW at \in Places, IsPlace(b, at),
         NEW m, m = FindNext(b, q, at),
         NEW near, near = IF Coming(b, q, at) # {} THEN Coming(b, q, at) ELSE Passed(b, q, at)
  PROVE  IF near = {} THEN m = NoMatch
         ELSE \E p \in near : /\ m = Match(p.row, p.col, p.col + Len(q)) /\ m # NoMatch
                             /\ \A x \in near : ~Before(x, p)
<1> DEFINE from(row)  == IF row = at.row THEN AtOrAfter(Line(b, row), at.col) ELSE 0
           onRow(row) == FindInLine(Line(b, row), q, from(row), Len(Line(b, row)))
           head       == FindInLine(Line(b, at.row), q, 0, from(at.row))
           below      == {r \in at.row..LastRow(b) : onRow(r) # {}}
           above      == {r \in 0..(at.row - 1) : onRow(r) # {}}
           first(row) == Match(row, Min(onRow(row)), Min(onRow(row)) + Len(q))
           P == Coming(b, q, at)
           A == Passed(b, q, at)
           Nearest(p, S) == /\ p \in S /\ m = Match(p.row, p.col, p.col + Len(q))
                          /\ \A x \in S : ~Before(x, p)
<1>1. /\ at.row \in 0..LastRow(b) /\ at.row \in Nat /\ LastRow(b) \in Nat /\ Len(q) \in Nat
  BY GoodParts, SoundRows, PlacesOfLine DEF IsPlace
<1>2. m = IF below # {} THEN first(Min(below))
          ELSE IF above # {} THEN first(Min(above))
          ELSE IF head # {} THEN Match(at.row, Min(head), Min(head) + Len(q))
          ELSE NoMatch
  BY Zenon DEF FindNext
<1>a. near = IF P # {} THEN P ELSE A
  OBVIOUS
<1>3. ASSUME NEW r \in 0..LastRow(b), NEW c
      PROVE  /\ at.row <= r => (c \in onRow(r) <=> Pos(r, c) \in P)
             /\ r < at.row => (c \in onRow(r) <=> Pos(r, c) \in A)
             /\ r = at.row => (c \in FindInLine(Line(b, r), q, 0, from(r)) <=> Pos(r, c) \in A)
  BY RowFinds
<1>4. \A c : c \in head <=> Pos(at.row, c) \in A
  BY <1>1, <1>3
<1>5. \A p \in P \cup A : /\ p = Pos(p.row, p.col) /\ p.row \in 0..LastRow(b)
                          /\ p.row \in Nat /\ p.col \in Nat
  BY OccurrencesAre DEF Coming, Passed
<1>6. /\ \A p \in P : at.row <= p.row
      /\ \A p \in A : p.row <= at.row
  <2>1. ASSUME NEW p \in P PROVE at.row <= p.row
    <3>1. ~(p.row < at.row)
      BY DEF Coming, Before
    <3> QED BY <1>1, <1>5, <3>1
  <2>2. ASSUME NEW p \in A PROVE p.row <= at.row
    <3>1. Pos(p.row, p.col + Len(q)).row = p.row
      BY DEF Pos
    <3>2. ~(at.row < p.row)
      BY <3>1 DEF Passed, Before
    <3> QED BY <1>1, <1>5, <3>2
  <2> QED BY <2>1, <2>2
<1> HIDE DEF P, A, onRow, head
<1>7. ASSUME NEW r \in 0..LastRow(b), onRow(r) # {}
      PROVE  /\ Min(onRow(r)) \in onRow(r) /\ Min(onRow(r)) \in Nat
             /\ \A c \in onRow(r) : Min(onRow(r)) <= c
  <2>1. onRow(r) \in SUBSET Nat
    <3>1. ASSUME NEW c \in onRow(r) PROVE c \in Nat
      <4>1. Pos(r, c) \in P \cup A
        <5>1. at.row <= r \/ r < at.row
          BY <1>1
        <5> QED BY <1>3, <5>1
      <4>2. Pos(r, c).col = c
        BY DEF Pos
      <4> QED BY <1>5, <4>1, <4>2
    <3> QED BY <3>1
  <2>2. Min(onRow(r)) \in onRow(r) /\ \A c \in onRow(r) : Min(onRow(r)) <= c
    BY <1>7, <2>1, MinRight
  <2> QED BY <2>1, <2>2
<1>8. below \in SUBSET Nat /\ above \in SUBSET Nat /\ below \subseteq 0..LastRow(b)
      /\ above \subseteq 0..LastRow(b)
  BY <1>1
<1>9. ASSUME NEW S, NEW rows \in SUBSET (0..LastRow(b)), rows # {},
             \A r \in rows : onRow(r) # {} /\ \A c : c \in onRow(r) <=> Pos(r, c) \in S,
             S \subseteq P \cup A, \A p \in S : p.row \in rows \/ \A r \in rows : r < p.row,
             m = first(Min(rows))
      PROVE  \E p : Nearest(p, S)
  <2> DEFINE r == Min(rows)
             c == Min(onRow(r))
             p == Pos(r, c)
  <2>1. rows \in SUBSET Nat
    BY <1>1
  <2>2. r \in rows /\ \A k \in rows : r <= k
    BY <1>9, <2>1, MinRight
  <2> HIDE DEF r
  <2>3. r \in 0..LastRow(b) /\ onRow(r) # {} /\ r \in Nat
    BY <1>9, <2>1, <2>2
  <2>4. c \in onRow(r) /\ c \in Nat /\ \A k \in onRow(r) : c <= k
    BY <1>7, <2>3
  <2>5. m = Match(r, c, c + Len(q))
    BY <1>9 DEF r
  <2> HIDE DEF c
  <2>6. p \in S /\ p.row = r /\ p.col = c
    BY <1>9, <2>2, <2>4 DEF Pos
  <2>7. ASSUME NEW x \in S PROVE ~Before(x, p)
    <3>1. x = Pos(x.row, x.col) /\ x.row \in Nat /\ x.col \in Nat
      BY <1>5, <1>9
    <3>2. ~(x.row < r)
      <4>1. CASE x.row \in rows
        BY <2>2, <2>3, <3>1, <4>1
      <4>2. CASE \A k \in rows : k < x.row
        BY <2>2, <2>3, <3>1, <4>2
      <4> QED BY <1>9, <4>1, <4>2
    <3>3. x.row = r => ~(x.col < c)
      <4>1. x.row = r => x.col \in onRow(r)
        BY <1>9, <2>2, <3>1
      <4> QED BY <2>4, <3>1, <4>1
    <3> QED BY <2>6, <3>2, <3>3 DEF Before
  <2> QED BY <2>5, <2>6, <2>7
<1>10. P # {} <=> below # {}
  <2>1. ASSUME NEW p \in P PROVE below # {}
    <3>1. /\ p = Pos(p.row, p.col) /\ p.row \in 0..LastRow(b) /\ at.row <= p.row
      BY <1>5, <1>6
    <3>2. p.col \in onRow(p.row)
      BY <1>3, <3>1
    <3>3. p.row \in at.row..LastRow(b)
      BY <1>1, <3>1
    <3> QED BY <3>2, <3>3
  <2>2. ASSUME NEW r \in below PROVE P # {}
    <3>1. r \in 0..LastRow(b) /\ at.row <= r /\ onRow(r) # {}
      BY <1>1
    <3> QED BY <1>3, <3>1
  <2> QED BY <2>1, <2>2
<1>b. ASSUME NEW S, near = S, S \subseteq P \cup A, \E p : Nearest(p, S)
      PROVE  \E p \in near : /\ m = Match(p.row, p.col, p.col + Len(q)) /\ m # NoMatch
                            /\ \A x \in near : ~Before(x, p)
  <2>1. PICK p : Nearest(p, S)
    BY <1>b
  <2>2. p.col \in Nat /\ Len(q) # 0
    BY <1>1, <1>5, <1>b, <2>1, EmptySeq, PlacesOfLine
  <2>3. m # NoMatch
    BY <1>1, <2>1, <2>2 DEF Match, NoMatch
  <2> QED BY <1>b, <2>1, <2>3
<1>11. CASE below # {}
  <2>1. \A r \in below : onRow(r) # {} /\ \A c : c \in onRow(r) <=> Pos(r, c) \in P
    <3>1. \A r \in below : r \in 0..LastRow(b) /\ at.row <= r /\ onRow(r) # {}
      BY <1>1
    <3> QED BY <1>3, <3>1
  <2>2. \A p \in P : p.row \in below
    <3>1. ASSUME NEW p \in P PROVE p.row \in below
      <4>1. /\ p = Pos(p.row, p.col) /\ p.row \in 0..LastRow(b) /\ at.row <= p.row
        BY <1>5, <1>6
      <4>2. p.col \in onRow(p.row)
        BY <1>3, <4>1
      <4> QED BY <1>1, <4>1, <4>2
    <3> QED BY <3>1
  <2>3. m = first(Min(below))
    BY <1>2, <1>11
  <2> HIDE DEF first, Nearest, below
  <2>4. \E p : Nearest(p, P)
    BY <1>8, <1>9, <1>11, <2>1, <2>2, <2>3
  <2>5. near = P /\ near # {}
    BY <1>a, <1>10, <1>11
  <2> QED BY <1>b, <2>4, <2>5
<1>12. CASE below = {} /\ above # {}
  <2>1. \A r \in above : onRow(r) # {} /\ \A c : c \in onRow(r) <=> Pos(r, c) \in A
    <3>1. \A r \in above : r \in 0..LastRow(b) /\ r < at.row /\ onRow(r) # {}
      BY <1>1
    <3> QED BY <1>3, <3>1
  <2>2. \A p \in A : p.row \in above \/ \A r \in above : r < p.row
    <3>1. ASSUME NEW p \in A PROVE p.row \in above \/ \A r \in above : r < p.row
      <4>1. /\ p = Pos(p.row, p.col) /\ p.row \in 0..LastRow(b) /\ p.row <= at.row
        BY <1>5, <1>6
      <4>2. CASE p.row < at.row
        <5>1. p.col \in onRow(p.row)
          BY <1>3, <4>1, <4>2
        <5>2. p.row \in 0..(at.row - 1)
          BY <1>1, <4>1, <4>2
        <5> QED BY <5>1, <5>2
      <4>3. CASE p.row = at.row
        BY <1>1, <4>3
      <4>4. p.row < at.row \/ p.row = at.row
        BY <1>1, <4>1
      <4> QED BY <4>2, <4>3, <4>4
    <3> QED BY <3>1
  <2>3. m = first(Min(above))
    BY <1>2, <1>12
  <2> HIDE DEF first, Nearest, above, below
  <2>4. \E p : Nearest(p, A)
    BY <1>8, <1>9, <1>12, <2>1, <2>2, <2>3
  <2>5. near = A
    BY <1>a, <1>10, <1>12
  <2>6. near # {}
    BY <2>4, <2>5 DEF Nearest
  <2> QED BY <1>b, <2>4, <2>5, <2>6
<1>13. CASE below = {} /\ above = {} /\ head = {}
  <2>1. m = NoMatch /\ P = {}
    BY <1>2, <1>10, <1>13
  <2>2. ASSUME NEW x \in A PROVE FALSE
    <3>1. /\ x = Pos(x.row, x.col) /\ x.row \in 0..LastRow(b) /\ x.row <= at.row
          /\ x.row \in Nat /\ x.col \in Nat
      BY <1>5, <1>6
    <3>2. ~(x.row < at.row)
      <4>1. x.row < at.row => x.row \in above
        <5>1. x.row < at.row => x.col \in onRow(x.row) /\ x.row \in 0..(at.row - 1)
          BY <1>1, <1>3, <3>1
        <5> QED BY <5>1
      <4> QED BY <1>13, <4>1
    <3>3. x.row = at.row
      BY <1>1, <3>1, <3>2
    <3> QED BY <1>4, <1>13, <3>1, <3>3
  <2> QED BY <1>a, <2>1, <2>2
<1>14. CASE below = {} /\ above = {} /\ head # {}
  <2> DEFINE c == Min(head)
             p == Pos(at.row, c)
  <2>1. m = Match(at.row, c, c + Len(q))
    BY <1>2, <1>14
  <2>2. head \in SUBSET Nat
    <3>1. ASSUME NEW k \in head PROVE k \in Nat
      <4>1. Pos(at.row, k) \in A /\ Pos(at.row, k).col = k
        BY <1>4 DEF Pos
      <4> QED BY <1>5, <4>1
    <3> QED BY <3>1
  <2>3. c \in head /\ c \in Nat /\ \A k \in head : c <= k
    BY <1>14, <2>2, MinRight
  <2> HIDE DEF c
  <2>4. p \in A /\ p.row = at.row /\ p.col = c
    BY <1>4, <2>3 DEF Pos
  <2>5. ASSUME NEW x \in A PROVE ~Before(x, p)
    <3>1. /\ x = Pos(x.row, x.col) /\ x.row \in 0..LastRow(b) /\ x.row <= at.row
          /\ x.row \in Nat /\ x.col \in Nat
      BY <1>5, <1>6
    <3>2. ~(x.row < at.row)
      <4>1. x.row < at.row => x.row \in above
        <5>1. x.row < at.row => x.col \in onRow(x.row) /\ x.row \in 0..(at.row - 1)
          BY <1>1, <1>3, <3>1
        <5> QED BY <5>1
      <4> QED BY <1>14, <4>1
    <3>3. x.row = at.row => ~(x.col < c)
      BY <1>4, <2>3, <3>1
    <3> QED BY <2>4, <3>2, <3>3 DEF Before
  <2>6. P = {}
    BY <1>10, <1>14
  <2>7. near = A /\ near # {}
    BY <1>a, <2>4, <2>6
  <2>8. \E x : Nearest(x, A)
    BY <2>1, <2>4, <2>5
  <2> QED BY <1>b, <2>7, <2>8
<1> QED BY <1>11, <1>12, <1>13, <1>14

\* What is found is selected from its start to its end.
LEMMA FoundIsSelected ==
  ASSUME NEW b, Good(b), NEW q, GoodLine(q), q # <<>>, NEW p \in Occurrences(b, q)
  PROVE  LET d == SelectMatch(b, Match(p.row, p.col, p.col + Len(q)))
         IN  d.selecting /\ d.anchor = p /\ d.at = Pos(p.row, p.col + Len(q))
<1> DEFINE t == Line(b, p.row)
           m == Match(p.row, p.col, p.col + Len(q))
           d == SelectMatch(b, m)
<1>1. p = Pos(p.row, p.col) /\ p.row \in 0..LastRow(b) /\ p.col \in Nat
  BY OccurrencesAre
<1>2. GoodLine(t) /\ Len(q) \in Nat
  BY <1>1, GoodParts, SoundRows, PlacesOfLine
<1>3. p.col \in Boundaries(t) /\ QueryMatches(t, p.col, q)
  BY <1>1, OccurrencesAre
<1>4. p.col + Len(q) \in Boundaries(t)
  BY <1>2, <1>3, MatchEnds
<1>5. AtOrBefore(t, p.col) = p.col /\ AtOrBefore(t, p.col + Len(q)) = p.col + Len(q)
  <2>1. p.col + Len(q) \in Nat
    BY <1>1, <1>2
  <2> QED BY <1>1, <1>2, <1>3, <1>4, <2>1, AtOrBeforeRight
<1>6. m.row = p.row /\ m.from = p.col /\ m.to = p.col + Len(q)
  BY DEF Match
<1>7. b \in Buffers
  BY GoodParts
<1> HIDE DEF m
<1>8. /\ d.selecting /\ d.anchor = Pos(p.row, AtOrBefore(t, p.col))
      /\ d.at = Pos(p.row, AtOrBefore(t, p.col + Len(q)))
  BY <1>6, <1>7 DEF SelectMatch, Buffers
<1> QED BY <1>1, <1>5, <1>8 DEF m

(***************************************************************************)
(* In every state that can be reached Enter in Find would select the first *)
(* occurrence of the query from the cursor on, or else the first that ends *)
(* before it, whatever the letters' case; it selects nothing only if there *)
(* is neither.                                                             *)
(***************************************************************************)
THEOREM SearchFindsNearest == Spec => []FindsNearest
<1>1. ASSUME IInv, searching
      PROVE  LET query  == field.text
                 found  == Occurrences(buffer, query)
                 after  == {p \in found : ~Before(p, buffer.at)}
                 before == {p \in found : ~Before(buffer.at, Pos(p.row, p.col + Len(query)))}
                 near   == IF after # {} THEN after ELSE before
                 chosen == FindSelects(buffer, query)
             IN  IF query = <<>> \/ near = {} THEN chosen = buffer
                 ELSE /\ chosen.selecting /\ chosen.anchor \in near
                      /\ \A p \in near : ~Before(p, chosen.anchor)
                      /\ chosen.at = Pos(chosen.anchor.row, chosen.anchor.col + Len(query))
  <2> DEFINE q == field.text
             at == buffer.at
             near == IF Coming(buffer, q, at) # {} THEN Coming(buffer, q, at)
                     ELSE Passed(buffer, q, at)
             found == FindNext(buffer, q, at)
             chosen == FindSelects(buffer, q)
  <2>1. /\ Good(buffer) /\ GoodLine(q) /\ at \in Places /\ IsPlace(buffer, at)
    BY <1>1, FieldParts, GoodParts DEF IInv
  <2>2. chosen = IF found = NoMatch THEN buffer ELSE SelectMatch(buffer, found)
    BY DEF FindSelects
  <2>3. q = <<>> => found = NoMatch
    BY DEF FindNext
  <2> HIDE DEF q, at, chosen, found
  <2>4. near \subseteq Occurrences(buffer, q)
    BY DEF Coming, Passed
  <2>5. CASE q = <<>>
    <3>1. chosen = buffer
      BY <2>2, <2>3, <2>5
    <3> QED BY <2>5, <3>1 DEF q, chosen
  <2>6. CASE q # <<>>
    <3> HIDE DEF near
    <3>1. IF near = {} THEN found = NoMatch
          ELSE \E p \in near : /\ found = Match(p.row, p.col, p.col + Len(q))
                              /\ found # NoMatch /\ \A x \in near : ~Before(x, p)
      BY <2>1, <2>6, FoundNearest DEF near, found
    <3>2. CASE near = {}
      <4>1. chosen = buffer
        BY <2>2, <3>1, <3>2
      <4> QED BY <3>2, <4>1 DEF near, Coming, Passed, q, at, chosen
    <3>3. CASE near # {}
      <4>1. PICK p \in near : /\ found = Match(p.row, p.col, p.col + Len(q))
                              /\ found # NoMatch /\ \A x \in near : ~Before(x, p)
        BY <3>1, <3>3
      <4>2. /\ chosen.selecting /\ chosen.anchor = p
            /\ chosen.at = Pos(p.row, p.col + Len(q))
        BY <2>1, <2>2, <2>4, <2>6, <4>1, FoundIsSelected
      <4>3. /\ chosen.selecting /\ chosen.anchor \in near
            /\ \A x \in near : ~Before(x, chosen.anchor)
            /\ chosen.at = Pos(chosen.anchor.row, chosen.anchor.col + Len(q))
        BY <4>1, <4>2
      <4> QED BY <2>6, <3>3, <4>3 DEF near, Coming, Passed, q, at, chosen
    <3> QED BY <3>2, <3>3
  <2> QED BY <2>5, <2>6
<1>2. IInv => FindsNearest
  BY <1>1 DEF FindsNearest
<1> QED BY <1>2, EditorStaysGood, PTL
=============================================================================
