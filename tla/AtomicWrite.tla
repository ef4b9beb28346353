---------------------------- MODULE AtomicWrite ----------------------------
(***************************************************************************)
(* Notepads of several processes that open and save the same file, while   *)
(* other programs write it too: retro_fs_read_text, retro_fs_write_atomic  *)
(* and what src/apps/notepad_app.c does with them.  Every system call of a *)
(* save is a step of its own and may fail; processes and the machine may   *)
(* stop between any two.  The steps up to the second look at the file are  *)
(* the same in the three adapters; how it is replaced is not.              *)
(*                                                                         *)
(* Files are inodes, and names refer to them: the file's own name, the     *)
(* names of temporary files and of backups.  A version is the identity and *)
(* the metadata that same_version compares: no two contents of an inode    *)
(* have the same.  No name of an inode is a name of another.               *)
(***************************************************************************)
EXTENDS Naturals, Sequences, FiniteSets

CONSTANTS
  Proc,        \* processes, each with one Notepad window on the file
  Text,        \* the texts a document can hold
  Blank,       \* that of a new document
  Partial,     \* what an incomplete file holds
  Adapters,    \* of "posix", "portable", "win32" and "djgpp"
  OtherWrites, \* what other programs do: "replace", "edit", "remove"
  MaxInode,    \* bound on the files made
  MaxStamp,    \* bound on the edits of a file in place
  MaxCrash     \* bound on the failures of processes and of power

\* "portable" is the POSIX adapter where rename cannot refuse to replace.
ASSUME ConstantsAssumption ==
  /\ Blank \in Text /\ Partial \notin Text
  /\ Adapters \subseteq {"posix", "portable", "win32", "djgpp"}
  /\ OtherWrites \subseteq {"replace", "edit", "remove"}
  /\ MaxInode \in Nat \ {0} /\ MaxStamp \in Nat \ {0} /\ MaxCrash \in Nat

VARIABLES
  adapter,     \* the one the program was built with
  inode,       \* text and stamp of each file made, and whether it is synced
  target,      \* the inode the file's name refers to
  onDisk,      \* those it may refer to after a power failure
  temps,       \* inodes that have the name of a temporary file
  backups,     \* inodes that have the name of a backup
  doc,         \* of each process, the document [text, version, hasPath, error]:
               \* error if the last save failed, which it says
  call,        \* and its call of the storage [stage, opened, temp, backup]:
               \* the version of the file it reads, its two inodes
  crashes      \* calls cut short

names == <<target, onDisk, temps, backups>>
env   == <<adapter, crashes>>
vars  == <<inode, names, doc, call, env>>

Absent == 0
Inodes == 1..MaxInode

Version   == [ino : 0..MaxInode, stamp : 0..MaxStamp]
NoVersion == [ino |-> Absent, stamp |-> 0]
Ver(i)    == IF i = Absent THEN NoVersion ELSE [ino |-> i, stamp |-> inode[i].stamp]

Checking  == {"check", "create", "write", "sync", "recheck"}
Replacing == {"replace", "move", "install", "restore"}
Installed == {"discard", "flush", "stat"}

At(p, stage)    == call[p].stage = stage
Goto(p, stage)  == call' = [call EXCEPT ![p].stage = stage]
NoCall(stage)   == [stage |-> stage, opened |-> NoVersion, temp |-> Absent, backup |-> Absent]
Untitled        == [text |-> Blank, version |-> NoVersion,
                    hasPath |-> FALSE, error |-> FALSE]
\* DOS writes through: the disk never holds an earlier name.
Since(new)      == IF adapter = "djgpp" THEN {new} ELSE onDisk \cup {new}
Busy(p)         == ~At(p, "closed") /\ ~At(p, "idle")

Init ==
  /\ adapter \in Adapters
  /\ \/ inode = <<>> /\ target = Absent
     \/ inode = <<[text |-> Blank, stamp |-> 1, synced |-> TRUE]>> /\ target = 1
  /\ onDisk = {target}
  /\ temps = {} /\ backups = {}
  /\ doc = [p \in Proc |-> Untitled]
  /\ call = [p \in Proc |-> NoCall("closed")]
  /\ crashes = 0

-----------------------------------------------------------------------------
(***************************************************************************)
(* Notepad: a new document, one opened from the file, editing, saving.     *)
(***************************************************************************)
New(p) ==
  /\ At(p, "closed")
  /\ doc' = [doc EXCEPT ![p] = Untitled]
  /\ Goto(p, "idle")
  /\ UNCHANGED <<inode, names, env>>

\* The file is opened and its metadata read, before its text is.
Open(p) ==
  /\ At(p, "closed") /\ target # Absent
  /\ call' = [call EXCEPT ![p].stage = "reading", ![p].opened = Ver(target)]
  /\ UNCHANGED <<inode, names, doc, env>>

\* All but the POSIX adapter look at the metadata once more.
ReadFails(p) ==
  /\ At(p, "reading")
  /\ call' = [call EXCEPT ![p] = NoCall("closed")]
  /\ UNCHANGED <<inode, names, doc, env>>

\* What is left of a text is some text, if any.
ReadsAs(content) == IF content = Partial THEN Text ELSE {content}

\* Mutant: the version is that of the name once the text is read.
ReadThenStat(p) ==
  /\ At(p, "reading")
  /\ \E text \in ReadsAs(inode[call[p].opened.ino].text) :
       doc' = [doc EXCEPT ![p] = [text |-> text, version |-> Ver(target),
                                  hasPath |-> TRUE, error |-> FALSE]]
  /\ call' = [call EXCEPT ![p] = NoCall("idle")]
  /\ UNCHANGED <<inode, names, env>>

Read(p) ==
  LET opened == call[p].opened
  IN  /\ At(p, "reading")
      /\ adapter \in {"win32", "djgpp"} => Ver(opened.ino) = opened
      /\ \E text \in ReadsAs(inode[opened.ino].text) :
           doc' = [doc EXCEPT ![p] = [text |-> text, version |-> opened,
                                      hasPath |-> TRUE, error |-> FALSE]]
      /\ call' = [call EXCEPT ![p] = NoCall("idle")]
      /\ UNCHANGED <<inode, names, env>>

Edit(p) ==
  /\ At(p, "idle")
  /\ \E text \in Text \ {doc[p].text} :
       doc' = [doc EXCEPT ![p].text = text, ![p].error = FALSE]
  /\ UNCHANGED <<inode, names, call, env>>

Save(p) ==
  /\ At(p, "idle") /\ doc[p].hasPath
  /\ Goto(p, "check")
  /\ UNCHANGED <<inode, names, doc, env>>

\* Refused when something has the name; the document is renamed in any case.
SaveAs(p) ==
  /\ At(p, "idle")
  /\ IF target # Absent
       THEN doc' = [doc EXCEPT ![p].error = TRUE] /\ UNCHANGED call
       ELSE /\ doc' = [doc EXCEPT ![p].hasPath = TRUE, ![p].version = NoVersion]
            /\ Goto(p, "check")
  /\ UNCHANGED <<inode, names, env>>

Close(p) ==
  /\ At(p, "idle")
  /\ doc' = [doc EXCEPT ![p] = Untitled]
  /\ Goto(p, "closed")
  /\ UNCHANGED <<inode, names, env>>

-----------------------------------------------------------------------------
(***************************************************************************)
(* retro_fs_write_atomic, up to the second look at the file.               *)
(***************************************************************************)
\* Mutant: the caller is not told.
ReturnSilently(p) ==
  /\ temps' = temps \ {call[p].temp}
  /\ call' = [call EXCEPT ![p] = NoCall("idle")]
  /\ doc' = [doc EXCEPT ![p].error = FALSE]

\* Mutant: the temporary file is left.
ReturnLitters(p) ==
  /\ call' = [call EXCEPT ![p] = NoCall("idle")]
  /\ doc' = [doc EXCEPT ![p].error = TRUE]
  /\ UNCHANGED temps

\* The temporary file is removed and the caller gets an error.
Return(p) ==
  /\ temps' = temps \ {call[p].temp}
  /\ call' = [call EXCEPT ![p] = NoCall("idle")]
  /\ doc' = [doc EXCEPT ![p].error = TRUE]

Abandon(p) == Return(p) /\ UNCHANGED <<inode, target, onDisk, backups, env>>

Unchanged(p) == Ver(target) = doc[p].version

FirstCheck(p) ==
  /\ At(p, "check")
  /\ IF Unchanged(p)
       THEN Goto(p, "create") /\ UNCHANGED <<inode, names, doc, env>>
       ELSE Abandon(p)

CreateTemporary(p) ==
  /\ At(p, "create") /\ Len(inode) < MaxInode
  /\ inode' = Append(inode, [text |-> Partial, stamp |-> 0, synced |-> FALSE])
  /\ temps' = temps \cup {Len(inode')}
  /\ call' = [call EXCEPT ![p].stage = "write", ![p].temp = Len(inode')]
  /\ UNCHANGED <<target, onDisk, backups, doc, env>>

WriteTemporary(p) ==
  /\ At(p, "write")
  /\ inode' = [inode EXCEPT ![call[p].temp].text = doc[p].text,
                            ![call[p].temp].stamp = 1]
  /\ Goto(p, "sync")
  /\ UNCHANGED <<names, doc, env>>

\* Mutant: the text is not synced before the file gets its name.
SyncSkipped(p) ==
  /\ At(p, "sync")
  /\ Goto(p, "recheck")
  /\ UNCHANGED <<inode, names, doc, env>>

\* DJGPP takes it for success that the system cannot sync this file.
SyncsNothing == adapter = "djgpp"

SyncTemporary(p) ==
  /\ At(p, "sync")
  /\ \/ inode' = [inode EXCEPT ![call[p].temp].synced = TRUE]
     \/ SyncsNothing /\ UNCHANGED inode
  /\ Goto(p, "recheck")
  /\ UNCHANGED <<names, doc, env>>

\* Mutant: the file is not looked at again.
SecondCheckSkipped(p) ==
  /\ At(p, "recheck")
  /\ Goto(p, "replace")
  /\ UNCHANGED <<inode, names, doc, env>>

SecondCheck(p) ==
  /\ At(p, "recheck")
  /\ IF Unchanged(p)
       THEN Goto(p, "replace") /\ UNCHANGED <<inode, names, doc, env>>
       ELSE Abandon(p)

\* A system call fails; it has changed nothing.
Fails(p) ==
  /\ call[p].stage \in Checking \cup {"replace", "move"}
  /\ Abandon(p)

-----------------------------------------------------------------------------
(***************************************************************************)
(* The replacement.                                                        *)
(***************************************************************************)
Creates(p) == doc[p].version = NoVersion

Install(p, next) ==
  /\ target' = call[p].temp
  /\ onDisk' = Since(target')
  /\ temps' = temps \ {target'}
  /\ Goto(p, next)
  /\ UNCHANGED <<inode, backups, doc, env>>

\* rename over the file, whatever it has become.
RenameOver(p) ==
  /\ At(p, "replace") /\ adapter \in {"posix", "portable"} /\ ~Creates(p)
  /\ Install(p, "flush")

\* ReplaceFileW, which needs a file to replace.
ReplaceFile(p) ==
  /\ At(p, "replace") /\ adapter = "win32" /\ ~Creates(p)
  /\ target # Absent
  /\ Install(p, "stat")

\* It may also stop half way, without a backup as it is called: the file is
\* gone and the replacement still has the temporary name, which is deleted.
ReplaceFileLoses(p) ==
  /\ At(p, "replace") /\ adapter = "win32" /\ ~Creates(p)
  /\ target # Absent
  /\ target' = Absent /\ onDisk' = Since(Absent)
  /\ Return(p)
  /\ UNCHANGED <<inode, backups, env>>

\* Mutant: the rename replaces.
RenameNewOver(p) ==
  /\ At(p, "replace") /\ adapter \in {"posix", "win32"} /\ Creates(p)
  /\ Install(p, IF adapter = "posix" THEN "flush" ELSE "stat")

\* renameat2 and MoveFileExW refuse to replace; otherwise see Fails.
RenameNew(p) ==
  /\ At(p, "replace") /\ adapter \in {"posix", "win32"} /\ Creates(p)
  /\ target = Absent
  /\ Install(p, IF adapter = "posix" THEN "flush" ELSE "stat")

\* Without such a call: look, then rename.
LookUp(p) ==
  /\ At(p, "replace") /\ adapter \in {"portable", "djgpp"} /\ Creates(p)
  /\ IF target = Absent
       THEN Goto(p, "move") /\ UNCHANGED <<inode, names, doc, env>>
       ELSE Abandon(p)

Move(p) ==
  /\ At(p, "move")
  /\ Install(p, IF adapter = "portable" THEN "flush" ELSE "stat")

\* DOS: the file becomes the backup, the temporary file becomes the file.
BackUp(p) ==
  /\ At(p, "replace") /\ adapter = "djgpp" /\ ~Creates(p)
  /\ target # Absent
  /\ backups' = backups \cup {target}
  /\ target' = Absent /\ onDisk' = Since(Absent)
  /\ call' = [call EXCEPT ![p].stage = "install", ![p].backup = target]
  /\ UNCHANGED <<inode, temps, doc, env>>

InstallBackedUp(p) == At(p, "install") /\ Install(p, "discard")

InstallFails(p) ==
  /\ At(p, "install")
  /\ Goto(p, "restore")
  /\ UNCHANGED <<inode, names, doc, env>>

\* Mutant: the backup is removed whether or not it was restored.
RestoreDropsBackup(p) ==
  /\ At(p, "restore")
  /\ \/ target' = call[p].backup /\ onDisk' = Since(target')
     \/ UNCHANGED <<target, onDisk>>
  /\ backups' = backups \ {call[p].backup}
  /\ Return(p)
  /\ UNCHANGED <<inode, env>>

\* Restoring may fail too: the backup then keeps its name.
Restore(p) ==
  /\ At(p, "restore")
  /\ \/ /\ target' = call[p].backup /\ onDisk' = Since(target')
        /\ backups' = backups \ {target'}
     \/ UNCHANGED <<target, onDisk, backups>>
  /\ Return(p)
  /\ UNCHANGED <<inode, env>>

DiscardBackup(p) ==
  /\ At(p, "discard")
  /\ backups' = backups \ {call[p].backup}
  /\ Goto(p, "stat")
  /\ UNCHANGED <<inode, target, onDisk, temps, doc, env>>

\* A directory that cannot be opened or synced is not an error.
SyncDirectory(p) ==
  /\ At(p, "flush")
  /\ onDisk' \in {{target}, onDisk}
  /\ Goto(p, "stat")
  /\ UNCHANGED <<inode, target, temps, backups, doc, env>>

\* The version is read back from the file's name; the save has succeeded.
ReadBack(p) ==
  /\ At(p, "stat")
  /\ \E written \in {Ver(target), NoVersion} :
       doc' = [doc EXCEPT ![p].version = written, ![p].error = FALSE]
  /\ call' = [call EXCEPT ![p] = NoCall("idle")]
  /\ UNCHANGED <<inode, names, env>>

-----------------------------------------------------------------------------
(***************************************************************************)
(* Other programs, and failures.  DOS runs one program at a time.          *)
(***************************************************************************)
OthersRun == adapter = "djgpp" => \A p \in Proc : ~Busy(p)

OtherReplaces ==
  /\ "replace" \in OtherWrites /\ OthersRun /\ Len(inode) < MaxInode
  /\ \E text \in Text :
       inode' = Append(inode, [text |-> text, stamp |-> 1, synced |-> TRUE])
  /\ target' = Len(inode') /\ onDisk' = Since(target')
  /\ UNCHANGED <<temps, backups, doc, call, env>>

OtherEdits ==
  /\ "edit" \in OtherWrites /\ OthersRun
  /\ target # Absent /\ inode[target].stamp < MaxStamp
  /\ \E text \in Text :
       inode' = [inode EXCEPT ![target].text = text, ![target].stamp = @ + 1]
  /\ UNCHANGED <<names, doc, call, env>>

OtherRemoves ==
  /\ "remove" \in OtherWrites /\ OthersRun /\ target # Absent
  /\ target' = Absent /\ onDisk' = Since(Absent)
  /\ UNCHANGED <<inode, temps, backups, doc, call, env>>

Interrupted == Cardinality({p \in Proc : Busy(p)})

Crash(p) ==
  /\ Busy(p) /\ crashes < MaxCrash
  /\ crashes' = crashes + 1
  /\ doc' = [doc EXCEPT ![p] = Untitled]
  /\ call' = [call EXCEPT ![p] = NoCall("closed")]
  /\ UNCHANGED <<inode, names, adapter>>

\* What was not synced is lost, and the name is one it had since it was.
PowerFails ==
  /\ crashes < MaxCrash
  /\ crashes' = crashes + Interrupted
  /\ inode' = [i \in DOMAIN inode |->
                 IF inode[i].synced THEN inode[i] ELSE [inode[i] EXCEPT !.text = Partial]]
  /\ target' \in onDisk /\ onDisk' = {target'}
  /\ doc' = [p \in Proc |-> Untitled]
  /\ call' = [p \in Proc |-> NoCall("closed")]
  /\ UNCHANGED <<temps, backups, adapter>>

Notepad(p) ==
  New(p) \/ Open(p) \/ Read(p) \/ ReadFails(p) \/ Edit(p) \/ Save(p) \/ SaveAs(p) \/ Close(p)

Storage(p) ==
  \/ FirstCheck(p) \/ CreateTemporary(p) \/ WriteTemporary(p) \/ SyncTemporary(p)
  \/ SecondCheck(p) \/ Fails(p)
  \/ RenameOver(p) \/ ReplaceFile(p) \/ ReplaceFileLoses(p) \/ RenameNew(p)
  \/ LookUp(p) \/ Move(p)
  \/ BackUp(p) \/ InstallBackedUp(p) \/ InstallFails(p) \/ Restore(p) \/ DiscardBackup(p)
  \/ SyncDirectory(p) \/ ReadBack(p)

Next ==
  \/ \E p \in Proc : Notepad(p) \/ Storage(p) \/ Crash(p)
  \/ OtherReplaces \/ OtherEdits \/ OtherRemoves
  \/ PowerFails

Spec == Init /\ [][Next]_vars

-----------------------------------------------------------------------------
(***************************************************************************)
(* Properties.                                                             *)
(***************************************************************************)
\* Whatever fails and whenever the machine stops, the file holds one of the
\* texts that were written, never part of one: the temporary file is written
\* and synced before it gets the name.  Only on a DOS that cannot sync it may
\* a power failure leave part of a text that had been written.
TargetWhole ==
  target # Absent =>
    /\ inode[target].stamp > 0
    /\ inode[target].text \notin Text => adapter = "djgpp" /\ ~inode[target].synced

\* Every way out of a save removes its temporary file: only a call cut short
\* leaves one.  Backups are made on DOS only.
Owned == UNION {{call[p].temp, call[p].backup} : p \in Proc}
NoLitter ==
  /\ Cardinality(temps \ Owned) <= crashes
  /\ adapter # "djgpp" => backups = {}

Installs(p) == call[p].stage \in Replacing /\ call'[p].stage \in Installed

\* A save that expects no file, as the first of a new document and Save As
\* are, never replaces one, not even one that appeared after it looked.  The
\* adapters that can only look and rename do not promise it.
CreateNeverReplaces ==
  [][\A p \in Proc :
       adapter \in {"posix", "win32"} /\ Installs(p) /\ Creates(p)
         => target = Absent]_vars

\* Once there is a file, its text or a later one is to be found under its name
\* or that of a backup, until another program removes it or power fails before
\* the disk has the name, or ReplaceFileW stops half way.
HasCopy == target # Absent \/ backups # {}
CopyKept ==
  [][HasCopy => \/ HasCopy' \/ OtherRemoves
                \/ PowerFails /\ Absent \in onDisk
                \/ \E p \in Proc : ReplaceFileLoses(p)]_vars

\* A document just read does not claim the version of a text it does not show:
\* if the file is still that version, it holds what was read (what is left of
\* it, if power failed on a DOS that cannot sync).
ReadVersionNamesText ==
  [][\A p \in Proc :
       At(p, "reading") /\ At(p, "idle")' /\ Ver(target)' = doc'[p].version
         => doc'[p].text \in ReadsAs(inode'[target'].text)]_vars

\* The POSIX adapter keeps the promise of a versioned save.  What the other
\* adapters do is hidden: they promise less.
FileOf(i) == IF i = Absent THEN NoVersion ELSE [version |-> Ver(i), text |-> inode[i].text]

Saving(p) ==
  LET stage == CASE call[p].stage \in Checking  -> "begun"
                 [] call[p].stage \in Replacing -> "matched"
                 [] call[p].stage \in Installed -> "done"
                 [] OTHER -> "idle"
  IN  IF stage = "idle" THEN [stage |-> "idle"]
      ELSE [stage |-> stage, expected |-> doc[p].version, text |-> doc[p].text]

Shows(p) ==
  IF call[p].stage \in {"closed", "reading"} THEN "nothing"
  ELSE IF doc[p].error THEN "error" ELSE "document"

Posix(seen, unseen) == IF adapter = "posix" THEN seen ELSE unseen

Promise == INSTANCE SavedFile WITH
  None   <- NoVersion,
  file   <- Posix(FileOf(target), NoVersion),
  recent <- Posix({FileOf(i) : i \in onDisk}, {NoVersion}),
  op     <- [p \in Proc |-> Posix(Saving(p), [stage |-> "idle"])],
  shows  <- [p \in Proc |-> Posix(Shows(p), "nothing")]

SavesAsPromised == Promise!Spec
=============================================================================
