------------------------------- MODULE AppOps -------------------------------
(***************************************************************************)
(* One running app: the close negotiation of src/app/app_runtime.c and, of *)
(* each built-in app, what its keys do to that negotiation.  Only Notepad  *)
(* can have unsaved work.  Its text is kept as one bit, whether it differs *)
(* from what was last saved; "dirty" is the flag the code keeps about it,  *)
(* which is set as well when there is no memory to compare them.           *)
(* Keys with several outcomes (a save may fail, Undo may or may not come   *)
(* back to the saved text) are sets of the states they can lead to.        *)
(* Search mode only keeps other keys from having an effect: its steps are  *)
(* steps that change nothing here.                                         *)
(***************************************************************************)

Kinds   == {"filemanager", "notepad", "diagnostics"}
Results == {"allowed", "deferred", "cancelled"}

App == [ kind       : Kinds,
         requested  : BOOLEAN,     \* close_requested
         pending    : BOOLEAN,     \* close_pending
         result     : Results,     \* close_result
         unsaved    : BOOLEAN,     \* the text is not saved_text
         dirty      : BOOLEAN,
         forced     : BOOLEAN,     \* force_close
         prompt     : BOOLEAN,     \* close_prompt
         saveAs     : BOOLEAN,     \* save_as
         closeAfter : BOOLEAN,     \* close_after_save
         hasPath    : BOOLEAN ]

NewApp(kind, hasPath) ==
  [ kind |-> kind, requested |-> FALSE, pending |-> FALSE, result |-> "allowed",
    unsaved |-> FALSE, dirty |-> FALSE, forced |-> FALSE, prompt |-> FALSE,
    saveAs |-> FALSE, closeAfter |-> FALSE, hasPath |-> hasPath ]

-----------------------------------------------------------------------------
(***************************************************************************)
(* The negotiation.                                                        *)
(***************************************************************************)
CanClose(a) == ~a.dirty \/ a.forced

RequestAppClose(a) ==
  IF CanClose(a)
    THEN [a EXCEPT !.requested = TRUE, !.pending = FALSE, !.result = "allowed"]
    ELSE [a EXCEPT !.requested = FALSE, !.pending = TRUE, !.result = "deferred",
                   !.prompt = TRUE, !.closeAfter = FALSE]

\* Mutant: the answer is noted but the request stays pending.
ResolveCloseKeepsPending(a, result) ==
  IF a.pending THEN [a EXCEPT !.result = result, !.requested = result = "allowed"] ELSE a

ResolveClose(a, result) ==
  IF a.pending
    THEN [a EXCEPT !.pending = FALSE, !.result = result,
                   !.requested = result = "allowed"]
    ELSE a

ResetCloseRequest(a) ==
  [a EXCEPT !.requested = FALSE, !.pending = FALSE, !.result = "allowed"]

-----------------------------------------------------------------------------
(***************************************************************************)
(* Notepad.                                                                *)
(***************************************************************************)
Saved(a) == [a EXCEPT !.unsaved = FALSE, !.dirty = FALSE]

\* Mutant: what was discarded stays discarded, with the new edit.
EditedStillForced(a, unsaved, dirty) ==
  [a EXCEPT !.unsaved = unsaved, !.dirty = dirty]

Edited(a, unsaved, dirty) ==
  [a EXCEPT !.unsaved = unsaved, !.dirty = dirty, !.forced = FALSE]

FinishClose(a) ==
  ResolveClose([a EXCEPT !.prompt = FALSE, !.closeAfter = FALSE, !.forced = TRUE],
               "allowed")

\* Mutant: Esc leaves the prompt and answers nothing.
CancelPromptSilently(a) == [a EXCEPT !.prompt = FALSE, !.closeAfter = FALSE]

\* Keys while the Save / Discard / Cancel prompt is shown.
CancelPrompt(a) ==
  ResolveClose([a EXCEPT !.prompt = FALSE, !.closeAfter = FALSE], "cancelled")

Discard(a) == FinishClose([a EXCEPT !.dirty = FALSE])

SaveFromPrompt(a) ==
  IF a.hasPath
    THEN {a, FinishClose(Saved(a))}                    \* a: the save failed
    ELSE {[a EXCEPT !.prompt = FALSE, !.saveAs = TRUE, !.closeAfter = TRUE]}

PromptKey(a) == {a, CancelPrompt(a), Discard(a)} \cup SaveFromPrompt(a)

\* Keys while Save As asks for a path.
LeaveSaveAs(a, result) ==
  LET left == [a EXCEPT !.saveAs = FALSE, !.closeAfter = FALSE]
  IN  IF a.closeAfter THEN ResolveClose(left, result) ELSE left

SaveAsDone(a) ==
  LET named == Saved([a EXCEPT !.hasPath = TRUE, !.saveAs = FALSE])
  IN  IF a.closeAfter THEN FinishClose(named) ELSE named

SaveAsFails(a) == LeaveSaveAs([a EXCEPT !.hasPath = TRUE], "cancelled")

SaveAsKey(a) == {a, LeaveSaveAs(a, "cancelled"), SaveAsDone(a), SaveAsFails(a)}

\* Keys in the text: typing, cut, paste, undo, redo, Ctrl+S, F3.  Without
\* memory for a comparison a text counts as changed (by a key that changed
\* nothing, too), and as different from the one that was saved.
AskPath(a) == [a EXCEPT !.saveAs = TRUE, !.closeAfter = FALSE]

EditorKey(a) ==
  {a, AskPath(a)}
    \cup {Edited(a, u, u \/ failed) : u, failed \in BOOLEAN}
    \cup {Saved([a EXCEPT !.closeAfter = FALSE]) : p \in {TRUE} \cap {a.hasPath}}

NotepadKey(a) ==
  IF a.prompt THEN PromptKey(a)
  ELSE IF a.saveAs THEN SaveAsKey(a)
  ELSE EditorKey(a)

(***************************************************************************)
(* A key in any app.  Esc closes the File Manager (unless it is asking for *)
(* a name) and Diagnostics.                                                *)
(***************************************************************************)
AppKey(a) ==
  IF a.kind = "notepad" THEN NotepadKey(a) ELSE {a, RequestAppClose(a)}
=============================================================================
