------------------------------ MODULE Notepad ------------------------------
(***************************************************************************)
(* The document of a Notepad window (src/apps/notepad_app.c): its text and *)
(* cursor, the undo and redo stacks with their limits, the text last saved *)
(* and whether the document counts as dirty.  How it is closed is modelled *)
(* in AppOps, how it is written in AtomicWrite.  While memory is scarce    *)
(* any copy of the text may fail.                                          *)
(***************************************************************************)
EXTENDS Naturals, SequencesExt

CONSTANTS
  Text, Place,  \* texts and places of the cursor
  Size,         \* bytes of each text
  MaxStates,    \* NP_HISTORY_MAX_STATES
  MaxBytes      \* NP_HISTORY_MAX_BYTES; RETRO_FS_MAX_TEXT is the same

ASSUME NotepadAssumption ==
  /\ Size \in [Text -> Nat]
  /\ MaxStates \in Nat \ {0} /\ MaxBytes \in Nat

VARIABLES
  text, cursor,  \* the buffer
  saved,         \* the text last read or written
  dirty,         \* shown in the title; such a document asks before it closes
  forced,        \* force_close: it does not, although it may be dirty
  undo, redo,    \* stacks of entries, with a count of their bytes
  scarce         \* memory is short

doc  == <<text, cursor, saved, dirty, forced>>
vars == <<doc, undo, redo, scarce>>

Empty == [entries |-> <<>>, bytes |-> 0]
Now   == [text |-> text, cursor |-> cursor]

Init ==
  /\ text \in {t \in Text : Size[t] <= MaxBytes} /\ cursor \in Place /\ saved = text
  /\ dirty = FALSE /\ forced = FALSE
  /\ undo = Empty /\ redo = Empty
  /\ scarce = FALSE

-----------------------------------------------------------------------------
(***************************************************************************)
(* The stacks.                                                             *)
(***************************************************************************)
Less(stack, entry) ==
  IF Size[entry.text] <= stack.bytes THEN stack.bytes - Size[entry.text] ELSE 0

DropOldest(stack) ==
  [entries |-> Tail(stack.entries), bytes |-> Less(stack, Head(stack.entries))]

Full(stack, entry) ==
  \/ Len(stack.entries) >= MaxStates
  \/ stack.bytes + Size[entry.text] > MaxBytes

\* The oldest entries are dropped, one by one, while the stack is full.
Room(stack, entry) ==
  LET after[n \in 0..Len(stack.entries)] ==
        IF n = 0 THEN stack ELSE DropOldest(after[n - 1])
      n == CHOOSE n \in DOMAIN after :
             ~Full(after[n], entry) /\ \A m \in 0..(n - 1) : Full(after[m], entry)
  IN  after[n]

Push(stack, entry) ==
  IF Size[entry.text] > MaxBytes THEN stack
  ELSE LET room == Room(stack, entry)
       IN  [entries |-> Append(room.entries, entry),
            bytes   |-> room.bytes + Size[entry.text]]

\* Mutant: the bytes of what is taken stay counted.
PopOnly(stack) == [stack EXCEPT !.entries = Front(@)]

Pop(stack) ==
  [entries |-> Front(stack.entries), bytes |-> Less(stack, Last(stack.entries))]

-----------------------------------------------------------------------------
(***************************************************************************)
(* Edits.                                                                  *)
(***************************************************************************)
\* What an attempt to allocate may come to.
Allocates == IF scarce THEN BOOLEAN ELSE {TRUE}

Captures == {got /\ Size[text] <= MaxBytes : got \in Allocates}

ClearHistory == undo' = Empty /\ redo' = Empty

\* Mutant: dirty is left as it was.
RefreshDirtyNever == UNCHANGED dirty

\* A document that cannot be compared counts as dirty.
RefreshDirty ==
  \E compared \in Allocates : dirty' = (compared => text' # saved)

\* Mutant: the states undone before are not forgotten.
RecordKeepsRedo(captured) ==
  IF captured THEN undo' = Push(undo, Now) /\ UNCHANGED redo
  ELSE ClearHistory

\* The history was cleared before the edit if the text was not captured.
Record(captured) ==
  IF captured THEN undo' = Push(undo, Now) /\ redo' = Empty
  ELSE ClearHistory

Changed(captured) ==
  /\ Record(captured)
  /\ forced' = FALSE
  /\ RefreshDirty
  /\ UNCHANGED <<saved, scarce>>

\* The text was not changed, whether or not the buffer took the key.
NotChanged(captured) ==
  /\ IF captured THEN UNCHANGED <<undo, redo>> ELSE ClearHistory
  /\ UNCHANGED <<text, saved, dirty, forced, scarce>>

\* A key that may edit.  It may be consumed and leave the text as it was, as
\* when a selection is replaced by itself; that only moves the cursor, unless
\* the comparison fails.
EditorKey ==
  \E captured \in Captures, compared \in Allocates :
    \/ /\ text' \in (IF captured /\ compared THEN Text \ {text} ELSE Text)
       /\ cursor' \in Place
       /\ Changed(captured)
    \/ /\ captured /\ compared
       /\ cursor' \in Place
       /\ NotChanged(captured)
    \/ NotChanged(captured) /\ UNCHANGED cursor

MovementKey ==
  /\ cursor' \in Place
  /\ UNCHANGED <<text, saved, dirty, forced, undo, redo, scarce>>

\* Cut and paste record what the buffer says it did: a paste may replace a
\* selection by the same text.
ManualEdit(texts) ==
  \E captured \in Captures :
    \/ text' \in texts /\ cursor' \in Place /\ Changed(captured)
    \/ scarce /\ NotChanged(captured) /\ UNCHANGED cursor

Cut   == ManualEdit({t \in Text : Size[t] < Size[text]})
Paste == ManualEdit(Text)

\* The target becomes the document; if that fails it is put back.
Restore(from, to, from1, to1) ==
  /\ from.entries # <<>>
  /\ TRUE \in Captures
  /\ \/ LET target == Last(from.entries)
        IN  /\ text' = target.text /\ cursor' = target.cursor
            /\ from1 = Pop(from) /\ to1 = Push(to, Now)
            /\ forced' = FALSE
            /\ RefreshDirty
            /\ UNCHANGED <<saved, scarce>>
     \/ /\ scarce
        /\ from1 = Push(Pop(from), Last(from.entries)) /\ to1 = to
        /\ UNCHANGED <<doc, scarce>>

Undo == Restore(undo, redo, undo', redo')
Redo == Restore(redo, undo, redo', undo')

-----------------------------------------------------------------------------
Save ==
  /\ Size[text] <= MaxBytes
  /\ saved' = text /\ dirty' = FALSE
  /\ UNCHANGED <<text, cursor, forced, undo, redo, scarce>>

\* D in a prompt, of a document that a cancelled shutdown leaves open.
Discard ==
  /\ dirty /\ ~forced
  /\ dirty' = FALSE /\ forced' = TRUE
  /\ UNCHANGED <<text, cursor, saved, undo, redo, scarce>>

Memory == scarce' = ~scarce /\ UNCHANGED <<doc, undo, redo>>

Next ==
  \/ EditorKey \/ MovementKey \/ Cut \/ Paste \/ Undo \/ Redo
  \/ Save \/ Discard \/ Memory

Spec == Init /\ [][Next]_vars

-----------------------------------------------------------------------------
(***************************************************************************)
(* Properties.                                                             *)
(***************************************************************************)
\* Whatever way the text comes to differ from the saved one, by keys, paste,
\* undo or redo, the document is dirty, unless that difference was discarded.
DirtyKnown == text # saved => dirty \/ forced

\* Undo and redo keep what the limits allow, in order, text and cursor.
Promise == INSTANCE Timeline WITH
  past    <- undo.entries,
  present <- Now,
  future  <- Reverse(redo.entries)

HistoryAsPromised == Promise!Spec

\* The count of bytes is that of the entries, and both limits are kept.
\* np_history_stack_push would not end otherwise: an empty stack must have
\* room for any entry.
BytesCounted ==
  \A stack \in {undo, redo} :
    /\ Len(stack.entries) <= MaxStates /\ stack.bytes <= MaxBytes
    /\ stack.bytes = Promise!Total(stack.entries)
=============================================================================
