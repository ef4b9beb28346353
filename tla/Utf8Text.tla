------------------------------ MODULE Utf8Text ------------------------------
(***************************************************************************)
(* UTF-8 texts as src/core/utf8.c walks through them.  A text is the       *)
(* sequence of its bytes, of which the callers tell apart only what        *)
(* character starts at a byte and which bytes continue one: the first byte *)
(* of a character stands for the character, the others are Cont.  Offsets  *)
(* count bytes from 0, as in the code.                                     *)
(***************************************************************************)
EXTENDS Naturals, SequencesExt

CONSTANTS
  Chars,       \* the characters of the texts
  Bytes,       \* how many bytes each takes
  Columns      \* and how many cells of the screen: a combining mark takes none

Cont == "continuation"

ASSUME Utf8Assumption ==
  /\ Bytes \in [Chars -> 1..4]
  /\ Columns \in [Chars -> 0..1]
  /\ Cont \notin Chars

Encode(c)       == [k \in 1..Bytes[c] |-> IF k = 1 THEN c ELSE Cont]

StartsAt(t, p)  == p < Len(t) /\ t[p + 1] # Cont
Boundaries(t)   == {p \in 0..Len(t) : StartsAt(t, p)} \cup {Len(t)}

\* What retro_utf8_validate accepts.
Valid(t) ==
  \A p \in 0..(Len(t) - 1) :
    IF t[p + 1] = Cont THEN p > 0
    ELSE /\ p + Bytes[t[p + 1]] \in Boundaries(t)
         /\ \A q \in (p + 1)..(p + Bytes[t[p + 1]] - 1) : t[q + 1] = Cont

NextChar(t, p) ==
  IF p >= Len(t) THEN Len(t)
  ELSE IF StartsAt(t, p) THEN p + Bytes[t[p + 1]] ELSE p + 1

\* Mutant: one byte back.
PrevByte(t, p) == IF p = 0 THEN 0 ELSE p - 1

PrevChar(t, p) == IF p = 0 THEN 0 ELSE Max({q \in 0..(p - 1) : q = 0 \/ StartsAt(t, q)})

\* Both ends are boundaries, in every call.
ColumnsIn(t, from, to) ==
  Cardinality({p \in from..(to - 1) : StartsAt(t, p) /\ Columns[t[p + 1]] = 1})

\* As many characters as fit, and the marks that follow them.
PrefixBytes(t, columns) == Max({p \in Boundaries(t) : ColumnsIn(t, 0, p) <= columns})

ValidPrefix(t, bytes) == Max({p \in Boundaries(t) : p <= bytes})

Splice(t, from, to, new) == SubSeq(t, 1, from) \o new \o SubSeq(t, to + 1, Len(t))
=============================================================================
