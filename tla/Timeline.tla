------------------------------ MODULE Timeline ------------------------------
(***************************************************************************)
(* What undo and redo promise.  A document has a past and a future: the    *)
(* states that undo and redo come back to, text and cursor.  An edit adds  *)
(* the present to the past and ends the future.  The past keeps its newest *)
(* states and the future its nearest, as many as the limits allow and no   *)
(* fewer.  Only an edit that cannot be recorded, because the document is   *)
(* too large or memory is short, loses them all.                           *)
(***************************************************************************)
EXTENDS Naturals, SequencesExt

CONSTANTS
  Text, Place,  \* texts and places of the cursor
  Size,         \* of each text
  MaxStates,    \* limits of the past and of the future
  MaxBytes

VARIABLES past, present, future, scarce

vars == <<past, present, future, scarce>>

State == [text : Text, cursor : Place]

Total(states) ==
  LET sum[n \in 0..Len(states)] ==
        IF n = 0 THEN 0 ELSE sum[n - 1] + Size[states[n].text]
  IN  sum[Len(states)]

Fits(states) == Len(states) <= MaxStates /\ Total(states) <= MaxBytes

\* The longest end, and the longest beginning, within the limits.
Newest(states) ==
  LET From(k) == SubSeq(states, k, Len(states))
      k == CHOOSE k \in 1..(Len(states) + 1) :
             Fits(From(k)) /\ \A j \in 1..(k - 1) : ~Fits(From(j))
  IN  From(k)

Nearest(states) == Reverse(Newest(Reverse(states)))

Recordable == Size[present.text] <= MaxBytes

Init == past = <<>> /\ future = <<>> /\ present \in State /\ scarce \in BOOLEAN

Edit ==
  /\ Recordable
  /\ past' = Newest(Append(past, present))
  /\ present' \in State
  /\ future' = <<>>
  /\ UNCHANGED scarce

EditUnrecorded ==
  /\ scarce \/ ~Recordable
  /\ past' = <<>> /\ future' = <<>>
  /\ present' \in State
  /\ UNCHANGED scarce

MoveCursor ==
  /\ present' \in State /\ present'.text = present.text
  /\ UNCHANGED <<past, future, scarce>>

Undo ==
  /\ past # <<>> /\ Recordable
  /\ past' = Front(past) /\ present' = Last(past)
  /\ future' = Nearest(<<present>> \o future)
  /\ UNCHANGED scarce

Redo ==
  /\ future # <<>> /\ Recordable
  /\ past' = Newest(Append(past, present))
  /\ present' = Head(future) /\ future' = Tail(future)
  /\ UNCHANGED scarce

Memory == scarce' \in BOOLEAN /\ UNCHANGED <<past, present, future>>

Next == Edit \/ EditUnrecorded \/ MoveCursor \/ Undo \/ Redo \/ Memory

Spec == Init /\ [][Next]_vars
=============================================================================
