----------------------------- MODULE SavedFile -----------------------------
(***************************************************************************)
(* What a versioned save promises about the file it writes.  A save first  *)
(* finds the file to be the one it expects, and later replaces it by its   *)
(* own text: both steps are atomic, the two together are not.  It reports  *)
(* success exactly when it has replaced the file; a save that fails, or a  *)
(* process that dies, leaves the file alone.  A save that expects no file  *)
(* never replaces one.  After a power failure the file is one of those it  *)
(* recently was, whole.                                                    *)
(***************************************************************************)
CONSTANTS
  Proc,        \* the processes that save
  Text,        \* the texts a file can hold
  Version,     \* the versions of a file
  None         \* no file: also what a save expects that creates its file

VARIABLES
  file,        \* None, or its version and text
  recent,      \* what the disk may hold after a power failure
  op,          \* of each process, its save: stage, expected version, text
  shows        \* and its window: none, a document, or one with an error

vars == <<file, recent, op, shows>>

Idle == [stage |-> "idle"]

VersionOf(f) == IF f = None THEN None ELSE f.version
Whole(f)     == f = None \/ f.text \in Text

Init ==
  /\ Whole(file) /\ recent = {file}
  /\ op = [p \in Proc |-> Idle]
  /\ shows = [p \in Proc |-> "nothing"]

Begin(p) ==
  /\ op[p] = Idle
  /\ op'[p] \in [stage : {"begun"}, expected : Version \cup {None}, text : Text]
  /\ op' = [op EXCEPT ![p] = op'[p]]
  /\ UNCHANGED <<file, recent, shows>>

Match(p) ==
  /\ op[p].stage = "begun"
  /\ VersionOf(file) = op[p].expected
  /\ op' = [op EXCEPT ![p].stage = "matched"]
  /\ UNCHANGED <<file, recent, shows>>

Replace(p) ==
  /\ op[p].stage = "matched"
  /\ op[p].expected = None => file = None
  /\ file' # None /\ file'.text = op[p].text
  /\ VersionOf(file') # VersionOf(file)
  /\ recent' = recent \cup {file'}
  /\ op' = [op EXCEPT ![p].stage = "done"]
  /\ UNCHANGED shows

End(p) ==
  /\ op[p] # Idle
  /\ op' = [op EXCEPT ![p] = Idle]
  /\ shows' = [shows EXCEPT ![p] = IF op[p].stage = "done" THEN "document" ELSE "error"]
  /\ UNCHANGED <<file, recent>>

\* A name that is taken is refused before anything begins.
Refuse(p) ==
  /\ op[p] = Idle
  /\ shows' = [shows EXCEPT ![p] = "error"]
  /\ UNCHANGED <<file, recent, op>>

\* The user opens, edits and closes the document.
GoOn(p) ==
  /\ op[p] = Idle
  /\ \E view \in {"nothing", "document"} : shows' = [shows EXCEPT ![p] = view]
  /\ UNCHANGED <<file, recent, op>>

\* The process ends, whether or not it was saving.
Die(p) ==
  /\ op' = [op EXCEPT ![p] = Idle]
  /\ shows' = [shows EXCEPT ![p] = "nothing"]
  /\ UNCHANGED <<file, recent>>

\* The directory reaches the disk.
Flush ==
  /\ recent' = {file}
  /\ UNCHANGED <<file, op, shows>>

\* Another program writes or removes the file.
Other ==
  /\ file' # file /\ Whole(file')
  /\ file' \in recent' /\ recent' \subseteq recent \cup {file'}
  /\ UNCHANGED <<op, shows>>

PowerFails ==
  /\ file' \in recent
  /\ recent' = {file'}
  /\ op' = [p \in Proc |-> Idle]
  /\ shows' = [p \in Proc |-> "nothing"]

Next ==
  \/ \E p \in Proc : Begin(p) \/ Match(p) \/ Replace(p) \/ End(p) \/ Refuse(p) \/ GoOn(p) \/ Die(p)
  \/ Flush \/ Other \/ PowerFails

Spec == Init /\ [][Next]_vars
=============================================================================
