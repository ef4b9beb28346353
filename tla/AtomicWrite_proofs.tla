------------------------ MODULE AtomicWrite_proofs ------------------------
(***************************************************************************)
(* Theorems about AtomicWrite: for any number of processes, any texts and  *)
(* files, what the model checker finds for a few.                          *)
(***************************************************************************)
EXTENDS AtomicWrite, FiniteSetTheorems, TLAPS

Stages ==
  {"closed", "idle", "reading"} \cup Checking \cup Replacing \cup Installed

Files     == [text : Text \cup {Partial}, stamp : 0..MaxStamp, synced : BOOLEAN]
Documents == [text : Text, version : Version, hasPath : BOOLEAN, error : BOOLEAN]
Calls     == [stage : Stages, opened : Version, temp : 0..MaxInode, backup : 0..MaxInode]

TypesOK ==
  /\ adapter \in Adapters
  /\ inode \in Seq(Files) /\ Len(inode) <= MaxInode
  /\ target \in 0..Len(inode) /\ onDisk \in SUBSET (0..Len(inode))
  /\ backups \in SUBSET (1..Len(inode))
  /\ doc \in [Proc -> Documents]
  /\ call \in [Proc -> Calls]

Durable(i) ==
  /\ inode[i].stamp > 0
  /\ inode[i].synced => inode[i].text \in Text
  /\ ~inode[i].synced => adapter = "djgpp"

\* What has or may have the name of the file or of a backup was written whole
\* and, but on a DOS that cannot sync, is durable; so is what will get it.
NamedOK ==
  /\ target \in onDisk
  /\ \A i \in (onDisk \cup backups) \ {Absent} : Durable(i)

\* The stages in which a process has a file of its own under a temporary name.
Holding == {"write", "sync", "recheck", "replace", "move", "install"}

TempOK(p) ==
  LET t == call[p].temp
  IN  call[p].stage \in Holding =>
        /\ t \in 1..Len(inode) /\ t \notin onDisk \cup backups
        /\ \A q \in Proc \ {p} : call[q].stage \in Holding => call[q].temp # t
        /\ call[p].stage # "write" => inode[t].text = doc[p].text /\ inode[t].stamp > 0
        /\ call[p].stage \notin {"write", "sync"} => inode[t].synced \/ adapter = "djgpp"

\* The stages in which it has a backup; DOS only.
BackedUp == {"install", "restore", "discard"}

BackupOK(p) ==
  LET b == call[p].backup
  IN  call[p].stage \in BackedUp =>
        /\ adapter = "djgpp"
        /\ b \in backups /\ b # target
        /\ \A q \in Proc \ {p} : call[q].stage \in BackedUp => call[q].backup # b

\* A process discards a backup only when there is another copy.
Discarded == {call[p].backup : p \in {p \in Proc : call[p].stage = "discard"}}
CopyOK    == Discarded # {} => target # Absent \/ \E b \in backups : b \notin Discarded

StageOK(p) ==
  /\ call[p].stage = "reading" => call[p].opened.ino \in 1..Len(inode)
  /\ call[p].stage = "move" => adapter \in {"portable", "djgpp"}

AInv ==
  /\ TypesOK /\ NamedOK /\ CopyOK
  /\ \A p \in Proc : TempOK(p) /\ BackupOK(p) /\ StageOK(p)

-----------------------------------------------------------------------------
(***************************************************************************)
(* What a step makes of the calls, the documents and the files.            *)
(***************************************************************************)
LEMMA GotoRight ==
  ASSUME TypesOK, NEW p \in Proc, NEW s \in Stages, Goto(p, s)
  PROVE  /\ call' \in [Proc -> Calls]
         /\ call'[p].stage = s /\ call'[p].opened = call[p].opened
         /\ call'[p].temp = call[p].temp /\ call'[p].backup = call[p].backup
         /\ \A q \in Proc \ {p} : call'[q] = call[q]
  BY DEF Goto, TypesOK, Calls

\* A call that has returned is one of Calls.
LEMMA NoCallRight ==
  ASSUME TypesOK, NEW p \in Proc, NEW s \in Stages,
         call' = [call EXCEPT ![p] = NoCall(s)]
  PROVE  /\ call' \in [Proc -> Calls] /\ call'[p].stage = s
         /\ \A q \in Proc \ {p} : call'[q] = call[q]
<1>1. NoCall(s) \in Calls /\ NoCall(s).stage = s
  BY ConstantsAssumption DEF NoCall, Calls, NoVersion, Version, Absent
<1> QED  BY <1>1 DEF TypesOK

\* Versions are of their type, and name the file they are of.
LEMMA VersionRight ==
  ASSUME TypesOK, NEW i \in 0..Len(inode)
  PROVE  Ver(i) \in Version /\ (i # Absent => Ver(i).ino = i)
<1>1. CASE i = Absent
  BY <1>1, ConstantsAssumption DEF Ver, Version, NoVersion, Absent
<1>2. CASE i # Absent
  <2>1. i \in 1..Len(inode) /\ i \in 0..MaxInode
    BY <1>2, ConstantsAssumption DEF TypesOK, Absent
  <2>2. inode[i] \in Files
    BY <2>1 DEF TypesOK
  <2>3. inode[i].stamp \in 0..MaxStamp
    BY <2>2 DEF Files
  <2> QED  BY <1>2, <2>1, <2>3 DEF Ver, Version
<1> QED  BY <1>1, <1>2

\* A new document is one of Documents.
LEMMA UntitledRight == Untitled \in Documents
  BY ConstantsAssumption DEF Untitled, Documents, NoVersion, Version, Absent

(***************************************************************************)
(* A step of one process that leaves the files and their names alone keeps *)
(* the invariant, if the process does not come to have a file by it.       *)
(***************************************************************************)
Follows(p) ==
  /\ call'[p].stage \in Holding =>
       /\ call[p].stage \in Holding /\ call'[p].temp = call[p].temp /\ doc'[p] = doc[p]
       /\ call[p].stage = "write" => call'[p].stage = "write"
       /\ call[p].stage = "sync" => call'[p].stage \in {"write", "sync"}
  /\ call'[p].stage \in BackedUp =>
       /\ call[p].stage \in BackedUp /\ call'[p].backup = call[p].backup
       /\ call'[p].stage = "discard" => call[p].stage = "discard"

OnlyOf(p) == \A q \in Proc \ {p} : doc'[q] = doc[q] /\ call'[q] = call[q]

\* What only one process did, the others follow.
LEMMA OthersFollow ==
  ASSUME NEW p \in Proc, OnlyOf(p), Follows(p)
  PROVE  \A q \in Proc : Follows(q)
  BY DEF OnlyOf, Follows

\* Processes that follow keep their temporary files and their backups.
LEMMA FollowersRight ==
  ASSUME AInv, UNCHANGED <<inode, adapter>>,
         target' = target \/ target' \in onDisk,
         onDisk' \subseteq onDisk \cup {target'}, backups' = backups,
         \A q \in Proc : Follows(q),
         \A q \in Proc : call[q].stage \in BackedUp => target' = target
  PROVE  /\ \A q \in Proc : TempOK(q)'
         /\ \A q \in Proc : BackupOK(q)'
<1> USE DEF AInv, TypesOK, NamedOK
<1>1. target' \in onDisk
  OBVIOUS
<1>2. onDisk' \subseteq onDisk
  BY <1>1
<1>3. \A q \in Proc : TempOK(q)'
  BY <1>2 DEF TempOK, Follows
<1>4. \A q \in Proc : BackupOK(q)'
  BY DEF BackupOK, Follows
<1> QED  BY <1>3, <1>4

\* With it the whole invariant is kept.
LEMMA QuietRight ==
  ASSUME AInv, NEW p \in Proc,
         UNCHANGED <<inode, target, onDisk, backups, adapter>>,
         doc' \in [Proc -> Documents], call' \in [Proc -> Calls],
         OnlyOf(p), Follows(p), StageOK(p)'
  PROVE  AInv'
<1>1. TypesOK' /\ NamedOK'
  BY DEF AInv, TypesOK, NamedOK, Durable
<1>2. \A q \in Proc : TempOK(q)' /\ BackupOK(q)'
  BY OthersFollow, FollowersRight DEF AInv, TypesOK
<1>3. \A q \in Proc : StageOK(q)'
  BY DEF AInv, StageOK, OnlyOf
<1>4. Discarded' \subseteq Discarded
  BY DEF Discarded, Follows, OnlyOf, BackedUp
<1>5. CopyOK'
  BY <1>4 DEF AInv, CopyOK
<1> QED  BY <1>1, <1>2, <1>3, <1>5 DEF AInv

\* What a save that failed leaves of its call and of the document.
LEMMA ReturnRight ==
  ASSUME TypesOK, NEW p \in Proc, Return(p)
  PROVE  /\ doc' \in [Proc -> Documents] /\ call' \in [Proc -> Calls]
         /\ OnlyOf(p) /\ call'[p].stage = "idle"
         /\ doc'[p].error /\ doc'[p].text = doc[p].text
<1>1. /\ call' \in [Proc -> Calls] /\ call'[p].stage = "idle"
      /\ \A q \in Proc \ {p} : call'[q] = call[q]
  BY NoCallRight DEF Return, Stages
<1>2. /\ doc' \in [Proc -> Documents]
      /\ \A q \in Proc \ {p} : doc'[q] = doc[q]
      /\ doc'[p].error /\ doc'[p].text = doc[p].text
  BY DEF Return, TypesOK, Documents
<1> QED  BY <1>1, <1>2 DEF OnlyOf

\* A save may fail while the file is as it was.
LEMMA AbandonRight ==
  ASSUME AInv, NEW p \in Proc, Abandon(p)
  PROVE  AInv'
<1>1. TypesOK /\ UNCHANGED <<inode, target, onDisk, backups, adapter>> /\ Return(p)
  BY DEF AInv, Abandon, env
<1>2. Follows(p) /\ StageOK(p)'
  BY <1>1, ReturnRight DEF Follows, Holding, BackedUp, StageOK
<1> QED  BY <1>1, <1>2, ReturnRight, QuietRight

(***************************************************************************)
(* Notepad's steps.                                                        *)
(***************************************************************************)
LEMMA NotepadRight ==
  ASSUME AInv, NEW p \in Proc, Notepad(p)
  PROVE  AInv'
<1> USE DEF At
<1>1. /\ TypesOK /\ UNCHANGED <<inode, target, onDisk, backups, adapter>>
      /\ call[p] \in Calls /\ doc[p] \in Documents
  BY DEF AInv, TypesOK, Notepad, New, Open, Read, ReadFails, Edit, Save, SaveAs, Close, names, env
<1> DEFINE Step == /\ doc' \in [Proc -> Documents] /\ call' \in [Proc -> Calls]
                   /\ OnlyOf(p) /\ call'[p].stage \notin Holding \cup BackedUp
                   /\ call'[p].stage = "reading" => call'[p].opened.ino \in 1..Len(inode)
<1>2. CASE New(p)
  <2>1. Goto(p, "idle") /\ doc' = [doc EXCEPT ![p] = Untitled]
    BY <1>2 DEF New
  <2>2. Step
    BY <1>1, <2>1, GotoRight, UntitledRight DEF TypesOK, OnlyOf, Stages, Holding, BackedUp
  <2> QED  BY <1>1, <2>2, QuietRight DEF Follows, StageOK, Holding
<1>3. CASE Open(p)
  <2>1. /\ target \in 1..Len(inode) /\ doc' = doc
        /\ call' = [call EXCEPT ![p].stage = "reading", ![p].opened = Ver(target)]
    BY <1>1, <1>3 DEF Open, TypesOK, Absent
  <2>2. Ver(target) \in Version /\ Ver(target).ino = target
    BY <1>1, <2>1, VersionRight DEF Absent
  <2>3. Step
    <3> HIDE DEF Ver
    <3> QED  BY <1>1, <2>1, <2>2 DEF TypesOK, Calls, OnlyOf, Stages, Holding, BackedUp
  <2> QED  BY <1>1, <2>3, QuietRight DEF Follows, StageOK, Holding
<1>4. CASE ReadFails(p)
  <2>1. /\ call' \in [Proc -> Calls] /\ call'[p].stage = "closed" /\ doc' = doc
        /\ \A q \in Proc \ {p} : call'[q] = call[q]
    BY <1>1, <1>4, NoCallRight DEF ReadFails, Stages
  <2>2. Step
    BY <1>1, <2>1 DEF TypesOK, OnlyOf, Holding, BackedUp
  <2> QED  BY <1>1, <2>2, QuietRight DEF Follows, StageOK, Holding
<1>5. CASE Read(p)
  <2>5. PICK text \in ReadsAs(inode[call[p].opened.ino].text) :
          doc' = [doc EXCEPT ![p] = [text |-> text, version |-> call[p].opened,
                                     hasPath |-> TRUE, error |-> FALSE]]
    BY <1>5 DEF Read
  <2>6. text \in Text
    <3>1. call[p].opened.ino \in 1..Len(inode)
      BY <1>5 DEF AInv, StageOK, Read, At
    <3>2. inode[call[p].opened.ino] \in Files
      BY <1>1, <3>1 DEF TypesOK
    <3>3. inode[call[p].opened.ino].text \in Text \cup {Partial}
      BY <3>2 DEF Files
    <3> QED  BY <2>5, <3>3 DEF ReadsAs
  <2> DEFINE new == [text |-> text, version |-> call[p].opened,
                     hasPath |-> TRUE, error |-> FALSE]
  <2>1. doc' = [doc EXCEPT ![p] = new] /\ call' = [call EXCEPT ![p] = NoCall("idle")]
        /\ new.text \in Text
    BY <1>5, <2>5, <2>6 DEF Read
  <2>2. new \in Documents
    BY <1>1, <2>1 DEF Documents, Calls
  <2>3. /\ call' \in [Proc -> Calls] /\ call'[p].stage = "idle"
        /\ \A q \in Proc \ {p} : call'[q] = call[q]
    BY <1>1, <2>1, NoCallRight DEF Stages
  <2>4. Step
    <3> HIDE DEF new
    <3> QED  BY <1>1, <2>1, <2>2, <2>3 DEF TypesOK, OnlyOf, Holding, BackedUp
  <2> QED  BY <1>1, <2>4, QuietRight DEF Follows, StageOK, Holding
<1>6. CASE Edit(p)
  <2>1. PICK text \in Text : doc' = [doc EXCEPT ![p].text = text, ![p].error = FALSE]
    BY <1>6 DEF Edit
  <2>2. Step
    BY <1>1, <1>6, <2>1 DEF Edit, TypesOK, Documents, OnlyOf, Holding, BackedUp
  <2> QED  BY <1>1, <2>2, QuietRight DEF Follows, StageOK, Holding
<1>7. CASE Save(p)
  <2>1. Step
    BY <1>1, <1>7, GotoRight DEF Save, TypesOK, OnlyOf, Stages, Checking, Holding, BackedUp
  <2> QED  BY <1>1, <2>1, QuietRight DEF Follows, StageOK, Holding
<1>8. CASE SaveAs(p)
  <2>1. NoVersion \in Version
    BY ConstantsAssumption DEF NoVersion, Version, Absent
  <2>2. CASE target # Absent
    <3>1. doc' = [doc EXCEPT ![p].error = TRUE] /\ call' = call /\ call[p].stage = "idle"
      BY <1>8, <2>2 DEF SaveAs
    <3>2. doc' \in [Proc -> Documents] /\ \A q \in Proc \ {p} : doc'[q] = doc[q]
      BY <1>1, <3>1 DEF TypesOK, Documents
    <3>3. Step
      BY <1>1, <3>1, <3>2 DEF TypesOK, OnlyOf, Holding, BackedUp
    <3> QED  BY <1>1, <3>3, QuietRight DEF Follows, StageOK, Holding
  <2>3. CASE target = Absent
    <3>1. Goto(p, "check") /\ doc' = [doc EXCEPT ![p].hasPath = TRUE, ![p].version = NoVersion]
      BY <1>8, <2>3 DEF SaveAs
    <3>2. doc' \in [Proc -> Documents] /\ \A q \in Proc \ {p} : doc'[q] = doc[q]
      BY <1>1, <2>1, <3>1 DEF TypesOK, Documents
    <3>3. Step
      BY <1>1, <3>1, <3>2, GotoRight DEF OnlyOf, Stages, Checking, Holding, BackedUp
    <3> QED  BY <1>1, <3>3, QuietRight DEF Follows, StageOK, Holding
  <2> QED  BY <2>2, <2>3
<1>9. CASE Close(p)
  <2>1. Goto(p, "closed") /\ doc' = [doc EXCEPT ![p] = Untitled]
    BY <1>9 DEF Close
  <2>2. Step
    BY <1>1, <2>1, GotoRight, UntitledRight DEF TypesOK, OnlyOf, Stages, Holding, BackedUp
  <2> QED  BY <1>1, <2>2, QuietRight DEF Follows, StageOK, Holding
<1> QED
  BY <1>2, <1>3, <1>4, <1>5, <1>6, <1>7, <1>8, <1>9 DEF Notepad

-----------------------------------------------------------------------------
(***************************************************************************)
(* Steps of a save that change no file.                                    *)
(***************************************************************************)
Looks(p) ==
  FirstCheck(p) \/ SecondCheck(p) \/ Fails(p) \/ LookUp(p) \/ InstallFails(p) \/ ReadBack(p)

\* A look at the file, and a call that fails, keep the invariant.
LEMMA LooksRight ==
  ASSUME AInv, NEW p \in Proc, Looks(p)
  PROVE  AInv'
<1> USE DEF At
<1>1. TypesOK /\ call[p] \in Calls /\ doc[p] \in Documents
  BY DEF AInv, TypesOK
<1> DEFINE Going(from, to) ==
             /\ call[p].stage = from /\ Goto(p, to)
             /\ UNCHANGED <<inode, names, doc, env>>
<1>2. ASSUME NEW from \in {"check", "recheck", "replace", "install"},
             NEW to \in {"create", "replace", "move", "restore"},
             Going(from, to), to \in Holding => from \in {"recheck", "replace"},
             to = "move" => adapter \in {"portable", "djgpp"},
             to = "restore" => from = "install"
      PROVE  AInv'
  <2>1. /\ UNCHANGED <<inode, target, onDisk, backups, adapter>> /\ doc' = doc
        /\ Goto(p, to) /\ to \in Stages
    BY <1>2 DEF names, env, Stages, Checking, Replacing
  <2>2. /\ call' \in [Proc -> Calls] /\ call'[p].stage = to
        /\ call'[p].temp = call[p].temp /\ call'[p].backup = call[p].backup
        /\ \A q \in Proc \ {p} : call'[q] = call[q]
    BY <1>1, <2>1, GotoRight
  <2>3. OnlyOf(p) /\ doc' \in [Proc -> Documents]
    BY <1>1, <2>1, <2>2 DEF OnlyOf, TypesOK
  <2>4. Follows(p) /\ StageOK(p)'
    BY <1>2, <2>1, <2>2 DEF Follows, StageOK, Holding, BackedUp
  <2> QED  BY <2>1, <2>2, <2>3, <2>4, QuietRight
<1>3. CASE FirstCheck(p)
  <2>1. Going("check", "create") \/ Abandon(p)
    BY <1>3 DEF FirstCheck
  <2> QED  BY <1>2, <2>1, AbandonRight DEF Holding
<1>4. CASE SecondCheck(p)
  <2>1. Going("recheck", "replace") \/ Abandon(p)
    BY <1>4 DEF SecondCheck
  <2> QED  BY <1>2, <2>1, AbandonRight DEF Holding
<1>5. CASE Fails(p)
  BY <1>5, AbandonRight DEF Fails
<1>6. CASE LookUp(p)
  <2>1. \/ Going("replace", "move") /\ adapter \in {"portable", "djgpp"}
        \/ Abandon(p)
    BY <1>6 DEF LookUp
  <2> QED  BY <1>2, <2>1, AbandonRight DEF Holding
<1>7. CASE InstallFails(p)
  <2>1. Going("install", "restore")
    BY <1>7 DEF InstallFails
  <2> QED  BY <1>2, <2>1 DEF Holding
<1>8. CASE ReadBack(p)
  <2>1. PICK written \in {Ver(target), NoVersion} :
          doc' = [doc EXCEPT ![p].version = written, ![p].error = FALSE]
    BY <1>8 DEF ReadBack
  <2>2. written \in Version
    <3>1. Ver(target) \in Version
      BY <1>1, VersionRight DEF TypesOK
    <3>2. NoVersion \in Version
      BY ConstantsAssumption DEF NoVersion, Version, Absent
    <3> QED  BY <3>1, <3>2
  <2>3. doc' \in [Proc -> Documents] /\ \A q \in Proc \ {p} : doc'[q] = doc[q]
    BY <1>1, <2>1, <2>2 DEF TypesOK, Documents
  <2>4. /\ call' \in [Proc -> Calls] /\ call'[p].stage = "idle"
        /\ \A q \in Proc \ {p} : call'[q] = call[q]
        /\ UNCHANGED <<inode, target, onDisk, backups, adapter>>
    BY <1>1, <1>8, NoCallRight DEF ReadBack, Stages, names, env
  <2>5. OnlyOf(p) /\ Follows(p) /\ StageOK(p)'
    BY <2>3, <2>4 DEF OnlyOf, Follows, StageOK, Holding, BackedUp
  <2> QED  BY <2>3, <2>4, <2>5, QuietRight
<1> QED  BY <1>3, <1>4, <1>5, <1>6, <1>7, <1>8 DEF Looks

(***************************************************************************)
(* What a step of p on its own file and on names leaves to the others.     *)
(***************************************************************************)
Mine(p) == IF call[p].stage \in Holding THEN {call[p].temp} ELSE {}

\* A step that names no file of another process leaves that one's alone.
LEMMA OtherTempsRight ==
  ASSUME AInv, NEW p \in Proc, OnlyOf(p), adapter' = adapter,
         Len(inode) <= Len(inode)', Len(inode)' \in Nat,
         \A i \in 1..Len(inode) : i \in Mine(p) \/ inode'[i] = inode[i],
         onDisk' \cup backups' \subseteq onDisk \cup backups \cup Mine(p) \cup {Absent},
         call'[p].stage \in Holding =>
           \/ call[p].stage \in Holding /\ call'[p].temp = call[p].temp
           \/ call'[p].temp \notin 1..Len(inode)
  PROVE  \A q \in Proc \ {p} : TempOK(q)'
<1> SUFFICES ASSUME NEW q \in Proc \ {p}, call'[q].stage \in Holding
             PROVE  TempOK(q)'
  BY DEF TempOK
<1> DEFINE t == call[q].temp
<1>1. /\ call'[q] = call[q] /\ doc'[q] = doc[q] /\ call[q].stage \in Holding
      /\ TempOK(q) /\ TempOK(p) /\ Len(inode) \in Nat
  BY DEF OnlyOf, AInv, TypesOK
<1>2. t \in 1..Len(inode) /\ t \notin Mine(p) /\ t \notin onDisk \cup backups
  BY <1>1 DEF TempOK, Mine
<1>3. t \in 1..Len(inode)' /\ t \notin onDisk' \cup backups' /\ inode'[t] = inode[t]
  BY <1>1, <1>2 DEF Absent
<1>4. \A r \in Proc \ {q} : call'[r].stage \in Holding => call'[r].temp # t
  <2> SUFFICES ASSUME NEW r \in Proc \ {q}, call'[r].stage \in Holding
               PROVE  call'[r].temp # t
    OBVIOUS
  <2>1. CASE r = p
    BY <1>1, <1>2, <2>1 DEF Mine
  <2>2. CASE r # p
    BY <1>1, <2>2 DEF OnlyOf, TempOK
  <2> QED  BY <2>1, <2>2
<1> QED  BY <1>1, <1>3, <1>4 DEF TempOK

\* And what is known from its stage.
LEMMA OtherStagesRight ==
  ASSUME AInv, NEW p \in Proc, OnlyOf(p), adapter' = adapter,
         Len(inode) <= Len(inode)', Len(inode)' \in Nat, StageOK(p)'
  PROVE  \A q \in Proc : StageOK(q)'
<1>1. Len(inode) \in Nat
  BY DEF AInv, TypesOK
<1> QED  BY <1>1 DEF AInv, StageOK, OnlyOf

-----------------------------------------------------------------------------
(***************************************************************************)
(* Making, writing and syncing the temporary file.                         *)
(***************************************************************************)
LEMMA AppendRight ==
  ASSUME TypesOK, NEW f \in Files, Len(inode) < MaxInode, inode' = Append(inode, f)
  PROVE  /\ inode' \in Seq(Files) /\ Len(inode)' = Len(inode) + 1 /\ Len(inode)' <= MaxInode
         /\ inode'[Len(inode)'] = f
         /\ \A i \in 1..Len(inode) : inode'[i] = inode[i]
  BY ConstantsAssumption DEF TypesOK

\* What a change of one file makes of the others.
LEMMA ChangeRight ==
  ASSUME TypesOK, NEW t \in 1..Len(inode), NEW f \in Files, inode' = [inode EXCEPT ![t] = f]
  PROVE  /\ inode' \in Seq(Files) /\ Len(inode)' = Len(inode) /\ inode'[t] = f
         /\ \A i \in 1..Len(inode) \ {t} : inode'[i] = inode[i]
  BY DEF TypesOK

\* A step that changes at most the process's own file keeps the invariant.
LEMMA SameNamesRight ==
  ASSUME AInv, NEW p \in Proc, OnlyOf(p), doc' = doc,
         UNCHANGED <<target, onDisk, backups, adapter>>,
         inode' \in Seq(Files), Len(inode) <= Len(inode)', Len(inode)' <= MaxInode,
         call' \in [Proc -> Calls], call'[p].stage \notin BackedUp, StageOK(p)', TempOK(p)',
         \A i \in 1..Len(inode) : i \in Mine(p) \/ inode'[i] = inode[i],
         call'[p].stage \in Holding =>
           \/ call[p].stage \in Holding /\ call'[p].temp = call[p].temp
           \/ call'[p].temp \notin 1..Len(inode)
  PROVE  AInv'
<1>1. TypesOK'
  BY DEF AInv, TypesOK
<1>2. Mine(p) \cap (onDisk \cup backups) = {}
  BY DEF AInv, TempOK, Mine
<1>3. NamedOK'
  <2>1. target' \in onDisk'
    BY DEF AInv, NamedOK
  <2>2. ASSUME NEW i \in (onDisk' \cup backups') \ {Absent} PROVE Durable(i)'
    <3>1. i \in 1..Len(inode) /\ Durable(i) /\ i \notin Mine(p)
      BY <1>2 DEF AInv, NamedOK, TypesOK, Absent
    <3> QED  BY <3>1 DEF Durable
  <2> QED  BY <2>1, <2>2 DEF NamedOK
<1>4. \A q \in Proc : TempOK(q)'
  <2>1. Len(inode)' \in Nat
    OBVIOUS
  <2> QED  BY <2>1, OtherTempsRight
<1>5. \A q \in Proc : StageOK(q)'
  <2>1. Len(inode)' \in Nat
    OBVIOUS
  <2> QED  BY <2>1, OtherStagesRight
<1>6. \A q \in Proc : BackupOK(q)'
  BY DEF AInv, BackupOK, OnlyOf
<1>7. Discarded' \subseteq Discarded
  BY DEF Discarded, OnlyOf, BackedUp
<1>8. CopyOK'
  BY <1>7 DEF AInv, CopyOK
<1> QED  BY <1>1, <1>3, <1>4, <1>5, <1>6, <1>8 DEF AInv

\* A new temporary file has no other name.
LEMMA CreateRight ==
  ASSUME AInv, NEW p \in Proc, CreateTemporary(p)
  PROVE  AInv'
<1> DEFINE new == [text |-> Partial, stamp |-> 0, synced |-> FALSE]
           t   == Len(inode)'
<1>1. new \in Files /\ new.text = Partial
  BY ConstantsAssumption DEF Files
<1>2. inode' = Append(inode, new) /\ Len(inode) < MaxInode
  BY DEF CreateTemporary
<1> HIDE DEF new
<1>3. TypesOK /\ call[p] \in Calls /\ call[p].stage = "create" /\ Len(inode) \in Nat
  BY DEF AInv, TypesOK, CreateTemporary, At
<1>4. /\ inode' \in Seq(Files) /\ t = Len(inode) + 1 /\ t <= MaxInode
      /\ inode'[t] = new /\ \A i \in 1..Len(inode) : inode'[i] = inode[i]
  BY <1>1, <1>2, <1>3, AppendRight
<1>5. /\ call' = [call EXCEPT ![p].stage = "write", ![p].temp = t]
      /\ doc' = doc /\ UNCHANGED <<target, onDisk, backups, adapter>>
  BY DEF CreateTemporary, env
<1>6. t \in 0..MaxInode
  BY <1>3, <1>4, ConstantsAssumption
<1> HIDE DEF t
<1>7. /\ call' \in [Proc -> Calls] /\ call'[p].stage = "write" /\ call'[p].temp = t
      /\ \A q \in Proc \ {p} : call'[q] = call[q]
  BY <1>3, <1>5, <1>6 DEF TypesOK, Calls, Stages, Checking
<1>8. OnlyOf(p)
  BY <1>5, <1>7 DEF OnlyOf
<1>9. t \notin onDisk \cup backups /\ t \notin 1..Len(inode)
  BY <1>3, <1>4 DEF TypesOK
<1>10. \A q \in Proc \ {p} : call'[q].stage \in Holding => call'[q].temp # t
  BY <1>7, <1>9 DEF AInv, TempOK
<1>11. TempOK(p)'
  <2>1. t \in 1..Len(inode)'
    BY <1>3, <1>4 DEF t
  <2> QED  BY <1>5, <1>7, <1>9, <1>10, <2>1 DEF TempOK
<1>12. StageOK(p)' /\ call'[p].stage \notin BackedUp
  BY <1>7 DEF StageOK, BackedUp
<1>13. Len(inode) <= Len(inode)' /\ Len(inode)' <= MaxInode
  BY <1>3, <1>4 DEF t
<1> QED  BY <1>4, <1>5, <1>7, <1>8, <1>9, <1>11, <1>12, <1>13, SameNamesRight

\* A file with a new text is a file.
LEMMA WrittenRight ==
  ASSUME NEW r \in Files, NEW x \in Text
  PROVE  LET f == [r EXCEPT !.text = x, !.stamp = 1]
         IN  f \in Files /\ f.text = x /\ f.stamp > 0
<1>1. 1 \in 0..MaxStamp
  BY ConstantsAssumption
<1> DEFINE f == [r EXCEPT !.text = x, !.stamp = 1]
<1>2. f \in Files
  BY <1>1 DEF Files
<1>3. f.text = x /\ f.stamp = 1
  BY DEF Files
<1> HIDE DEF f
<1>4. f \in Files /\ f.text = x /\ f.stamp > 0
  BY <1>2, <1>3
<1> QED  BY <1>4 DEF f

\* So is a synced one.
LEMMA SyncedRight ==
  ASSUME NEW r \in Files
  PROVE  LET f == [r EXCEPT !.synced = TRUE]
         IN  f \in Files /\ f.text = r.text /\ f.stamp = r.stamp /\ f.synced
<1>1. [r EXCEPT !.synced = TRUE] \in Files
  BY DEF Files
<1> QED  BY <1>1 DEF Files

\* The temporary file is written, and then synced.
LEMMA WriteRight ==
  ASSUME AInv, NEW p \in Proc, WriteTemporary(p) \/ SyncTemporary(p)
  PROVE  AInv'
<1> DEFINE t == call[p].temp
           f == inode'[t]
<1>1. /\ TypesOK /\ call[p] \in Calls /\ call[p].stage \in {"write", "sync"}
      /\ TempOK(p) /\ doc[p].text \in Text
  BY DEF AInv, TypesOK, WriteTemporary, SyncTemporary, At, Documents
<1>2. t \in 1..Len(inode) /\ t \notin onDisk \cup backups
  BY <1>1 DEF TempOK, Holding
<1>3. inode[t] \in Files
  BY <1>1, <1>2 DEF TypesOK
<1>4. doc' = doc /\ UNCHANGED <<target, onDisk, backups, adapter>>
  BY DEF WriteTemporary, SyncTemporary, names, env
<1>5. /\ inode' \in Seq(Files) /\ Len(inode)' = Len(inode)
      /\ \A i \in 1..Len(inode) \ {t} : inode'[i] = inode[i]
      /\ f.text = doc[p].text /\ f.stamp > 0
      /\ call[p].stage = "sync" => f.synced \/ adapter = "djgpp"
  <2>1. CASE WriteTemporary(p)
    <3> DEFINE g == [inode[t] EXCEPT !.text = doc[p].text, !.stamp = 1]
    <3>1. inode' = [inode EXCEPT ![t] = g] /\ call[p].stage = "write"
      BY <1>2, <2>1 DEF WriteTemporary, At
    <3>2. g \in Files /\ g.text = doc[p].text /\ g.stamp > 0
      BY <1>1, <1>3, WrittenRight
    <3> HIDE DEF g
    <3>3. /\ inode' \in Seq(Files) /\ Len(inode)' = Len(inode) /\ inode'[t] = g
          /\ \A i \in 1..Len(inode) \ {t} : inode'[i] = inode[i]
      BY <1>1, <1>2, <3>1, <3>2, ChangeRight
    <3> QED  BY <3>1, <3>2, <3>3
  <2>2. CASE SyncTemporary(p)
    <3> DEFINE g == [inode[t] EXCEPT !.synced = TRUE]
    <3>1. /\ call[p].stage = "sync"
          /\ \/ inode' = [inode EXCEPT ![t] = g]
             \/ adapter = "djgpp" /\ inode' = inode
      BY <1>2, <2>2 DEF SyncTemporary, SyncsNothing, At
    <3>2. inode[t].text = doc[p].text /\ inode[t].stamp > 0
      BY <1>1, <3>1 DEF TempOK, Holding
    <3>3. g \in Files /\ g.text = doc[p].text /\ g.stamp > 0 /\ g.synced
      BY <1>3, <3>2, SyncedRight
    <3> HIDE DEF g
    <3>4. CASE inode' = [inode EXCEPT ![t] = g]
      <4>1. /\ inode' \in Seq(Files) /\ Len(inode)' = Len(inode) /\ inode'[t] = g
            /\ \A i \in 1..Len(inode) \ {t} : inode'[i] = inode[i]
        BY <1>1, <1>2, <3>3, <3>4, ChangeRight
      <4> QED  BY <3>3, <4>1
    <3>5. CASE adapter = "djgpp" /\ inode' = inode
      BY <1>1, <3>2, <3>5 DEF TypesOK
    <3> QED  BY <3>1, <3>4, <3>5
  <2> QED  BY <2>1, <2>2
<1>6. PICK to \in {"sync", "recheck"} :
        Goto(p, to) /\ (to = "recheck" <=> call[p].stage = "sync")
  BY DEF WriteTemporary, SyncTemporary, At
<1>7. /\ call' \in [Proc -> Calls] /\ call'[p].stage = to /\ call'[p].temp = t
      /\ \A q \in Proc \ {p} : call'[q] = call[q]
  BY <1>1, <1>6, GotoRight DEF Stages, Checking
<1>8. OnlyOf(p)
  BY <1>4, <1>7 DEF OnlyOf
<1>9. TempOK(p)'
  BY <1>1, <1>2, <1>4, <1>5, <1>6, <1>7 DEF TempOK, Holding
<1>10. StageOK(p)' /\ call'[p].stage \notin BackedUp /\ Mine(p) = {t}
  BY <1>1, <1>7 DEF StageOK, BackedUp, Mine, Holding
<1>11. Len(inode) <= Len(inode)' /\ Len(inode)' <= MaxInode
  BY <1>1, <1>5 DEF TypesOK
<1> QED
  BY <1>1, <1>4, <1>5, <1>7, <1>8, <1>9, <1>10, <1>11, SameNamesRight DEF Holding

-----------------------------------------------------------------------------
(***************************************************************************)
(* Steps that change which files have a name.                              *)
(***************************************************************************)
LEMMA NamesRight ==
  ASSUME AInv, NEW p \in Proc, OnlyOf(p), UNCHANGED <<inode, adapter>>,
         doc' \in [Proc -> Documents], call' \in [Proc -> Calls],
         target' \in onDisk', Absent \notin backups',
         onDisk' \cup backups' \subseteq onDisk \cup backups \cup Mine(p) \cup {Absent},
         \A i \in Mine(p) : i \in onDisk' \cup backups' => Durable(i),
         call'[p].stage \in Holding => call[p].stage \in Holding /\ call'[p].temp = call[p].temp,
         StageOK(p)', TempOK(p)', \A q \in Proc : BackupOK(q)', CopyOK'
  PROVE  AInv'
<1>1. /\ TypesOK /\ Len(inode) \in Nat /\ Len(inode)' = Len(inode)
      /\ Mine(p) \subseteq 1..Len(inode)
  BY DEF AInv, TypesOK, TempOK, Mine, Calls
<1>2. onDisk' \subseteq 0..Len(inode) /\ backups' \subseteq 1..Len(inode)
  <2> DEFINE n == Len(inode)
  <2>3. onDisk \subseteq 0..n /\ backups \subseteq 1..n
    BY <1>1 DEF TypesOK
  <2>1. onDisk \cup backups \cup Mine(p) \cup {Absent} \subseteq 0..n
    <3>1. Mine(p) \subseteq 1..n /\ n \in Nat
      BY <1>1
    <3> HIDE DEF n
    <3>2. 1..n \subseteq 0..n /\ Absent \in 0..n
      BY <3>1 DEF Absent
    <3> QED  BY <2>3, <3>1, <3>2
  <2>2. \A i \in 0..Len(inode) : i # Absent => i \in 1..Len(inode)
    BY <1>1 DEF Absent
  <2> QED  BY <2>1, <2>2
<1>3. TypesOK'
  BY <1>1, <1>2 DEF TypesOK
<1>4. NamedOK'
  BY <1>1 DEF AInv, NamedOK, Durable
<1>5. \A q \in Proc : TempOK(q)'
  BY <1>1, OtherTempsRight
<1>6. \A q \in Proc : StageOK(q)'
  BY <1>1, OtherStagesRight
<1> QED  BY <1>3, <1>4, <1>5, <1>6 DEF AInv

\* Nobody comes to discard a backup but by installing.
LEMMA DiscardedRight ==
  ASSUME NEW p \in Proc, OnlyOf(p), call'[p].stage # "discard"
  PROVE  Discarded' \subseteq Discarded
  BY DEF OnlyOf, Discarded

\* What gets the name was written whole, and synced where the system can, and
\* was the process's own.
LEMMA InstallRight ==
  ASSUME AInv, NEW p \in Proc, NEW next \in {"flush", "stat", "discard"}, Install(p, next),
         call[p].stage \in {"replace", "move", "install"},
         next = "discard" => call[p].stage = "install"
  PROVE  AInv' /\ target' = call[p].temp /\ target' \in 1..Len(inode)
<1> DEFINE t == call[p].temp
<1>1. /\ TypesOK /\ TempOK(p) /\ BackupOK(p) /\ call[p] \in Calls /\ doc' = doc
      /\ UNCHANGED <<inode, backups, adapter>> /\ target' = t
  BY DEF AInv, TypesOK, Install, env
<1>2. t \in 1..Len(inode) /\ t \notin onDisk \cup backups /\ Mine(p) = {t} /\ Durable(t)
  <2>1. doc[p].text \in Text
    BY <1>1 DEF TypesOK, Documents
  <2>2. inode[t].text = doc[p].text /\ inode[t].stamp > 0 /\ (inode[t].synced \/ adapter = "djgpp")
    BY <1>1 DEF TempOK, Holding
  <2> QED  BY <1>1, <2>1, <2>2 DEF TempOK, Holding, Mine, Durable
<1>3. t \in onDisk' /\ onDisk' \subseteq onDisk \cup {t}
  BY <1>1 DEF Install, Since
<1>4. /\ call' \in [Proc -> Calls] /\ call'[p].stage = next
      /\ call'[p].temp = t /\ call'[p].backup = call[p].backup
      /\ \A q \in Proc \ {p} : call'[q] = call[q]
  BY <1>1, GotoRight DEF Install, Stages, Installed
<1>5. OnlyOf(p) /\ doc' \in [Proc -> Documents]
  BY <1>1, <1>4 DEF OnlyOf, TypesOK
<1>6. TempOK(p)' /\ StageOK(p)' /\ call'[p].stage \notin Holding
  BY <1>4 DEF TempOK, StageOK, Holding
<1>7. \A q \in Proc : BackupOK(q)'
  <2>1. call'[p].stage \in BackedUp =>
          call[p].stage \in BackedUp /\ call'[p].backup = call[p].backup
    BY <1>4 DEF BackedUp
  <2> QED  BY <1>1, <1>2, <1>4, <2>1 DEF AInv, BackupOK
<1>8. CopyOK'
  BY <1>1, <1>2 DEF CopyOK, Absent
<1>9. Absent \notin backups'
  BY <1>1 DEF TypesOK, Absent
<1> QED
  BY <1>1, <1>2, <1>3, <1>4, <1>5, <1>6, <1>7, <1>8, <1>9, NamesRight

\* The backup is one that nobody else has.
LEMMA BackUpRight ==
  ASSUME AInv, NEW p \in Proc, BackUp(p)
  PROVE  AInv'
<1>1. /\ TypesOK /\ TempOK(p) /\ call[p] \in Calls /\ doc' = doc /\ call[p].stage = "replace"
      /\ UNCHANGED <<inode, adapter>> /\ adapter = "djgpp"
      /\ target # Absent /\ target' = Absent /\ backups' = backups \cup {target}
      /\ call' = [call EXCEPT ![p].stage = "install", ![p].backup = target]
  BY DEF AInv, TypesOK, BackUp, At, env
<1>2. target \in 1..Len(inode) /\ target \in onDisk /\ target \in 0..MaxInode
  BY <1>1, ConstantsAssumption DEF TypesOK, Absent, AInv, NamedOK
<1>3. target' \in onDisk' /\ onDisk' \subseteq onDisk \cup {Absent}
  BY <1>1 DEF BackUp, Since
<1>4. /\ call' \in [Proc -> Calls] /\ call'[p].stage = "install"
      /\ call'[p].temp = call[p].temp /\ call'[p].backup = target
      /\ \A q \in Proc \ {p} : call'[q] = call[q]
  BY <1>1, <1>2 DEF TypesOK, Calls, Stages, Replacing
<1>5. OnlyOf(p) /\ doc' \in [Proc -> Documents]
  BY <1>1, <1>4 DEF OnlyOf, TypesOK
<1>6. Mine(p) = {call[p].temp} /\ call[p].temp \notin onDisk' \cup backups'
  BY <1>1, <1>2, <1>3 DEF Mine, TempOK, Holding, Absent
<1>7. TempOK(p)' /\ StageOK(p)'
  BY <1>1, <1>4, <1>5, <1>6 DEF TempOK, StageOK, Holding, OnlyOf
<1>8. \A q \in Proc : BackupOK(q)'
  <2>1. \A q \in Proc \ {p} : call[q].stage \in BackedUp => call[q].backup # target
    BY DEF AInv, BackupOK
  <2>2. BackupOK(p)'
    BY <1>1, <1>4, <2>1 DEF BackupOK, BackedUp
  <2>3. ASSUME NEW q \in Proc \ {p} PROVE BackupOK(q)'
    <3> SUFFICES ASSUME call[q].stage \in BackedUp PROVE BackupOK(q)'
      BY <1>4 DEF BackupOK
    <3>1. BackupOK(q) /\ call[q].backup # Absent /\ call'[q] = call[q]
      BY <1>1, <1>4 DEF AInv, BackupOK, TypesOK, Absent
    <3> QED  BY <1>1, <1>4, <2>1, <3>1 DEF BackupOK
  <2> QED  BY <2>2, <2>3
<1>9. CopyOK'
  <2>1. target \notin Discarded
    BY DEF AInv, BackupOK, Discarded, BackedUp
  <2>2. Discarded' \subseteq Discarded
    BY <1>4, <1>5, DiscardedRight
  <2> QED  BY <1>1, <2>1, <2>2 DEF CopyOK
<1>10. Absent \notin backups'
  BY <1>1 DEF TypesOK, Absent
<1> QED
  BY <1>1, <1>2, <1>3, <1>4, <1>5, <1>6, <1>7, <1>8, <1>9, <1>10, NamesRight DEF Holding

\* ReplaceFileW that stops half way, and the directory's fsync.
LEMMA LosesRight ==
  ASSUME AInv, NEW p \in Proc, ReplaceFileLoses(p) \/ SyncDirectory(p)
  PROVE  AInv'
<1>1. /\ TypesOK /\ BackupOK(p) /\ call[p] \in Calls
      /\ UNCHANGED <<inode, adapter, backups>> /\ target \in onDisk
  BY DEF AInv, TypesOK, NamedOK, ReplaceFileLoses, SyncDirectory, env
<1>2. /\ doc' \in [Proc -> Documents] /\ call' \in [Proc -> Calls] /\ OnlyOf(p)
      /\ call'[p].stage \in {"idle", "stat"}
  <2>1. CASE ReplaceFileLoses(p)
    BY <1>1, <2>1, ReturnRight DEF ReplaceFileLoses
  <2>2. CASE SyncDirectory(p)
    BY <1>1, <2>2, GotoRight DEF SyncDirectory, Stages, Installed, OnlyOf, TypesOK
  <2> QED  BY <2>1, <2>2
<1>3. /\ target' \in onDisk' /\ onDisk' \subseteq onDisk \cup {Absent}
      /\ target' = target \/ (target' = Absent /\ adapter = "win32")
  <2>1. CASE ReplaceFileLoses(p)
    BY <2>1 DEF ReplaceFileLoses, Since
  <2>2. CASE SyncDirectory(p)
    BY <1>1, <2>2 DEF SyncDirectory
  <2> QED  BY <2>1, <2>2
<1>4. \A i \in Mine(p) : i \notin onDisk' \cup backups'
  BY <1>1, <1>3 DEF AInv, TempOK, Mine, Absent
<1>5. TempOK(p)' /\ StageOK(p)' /\ call'[p].stage \notin Holding \cup BackedUp
  BY <1>2 DEF TempOK, StageOK, Holding, BackedUp
<1>6. \A q \in Proc : BackupOK(q)'
  BY <1>1, <1>2, <1>3, <1>5 DEF AInv, BackupOK, OnlyOf
<1>7. CopyOK'
  <2>1. Discarded' \subseteq Discarded
    BY <1>2, DiscardedRight
  <2>2. adapter # "djgpp" => Discarded = {}
    BY DEF AInv, BackupOK, Discarded, BackedUp
  <2> QED  BY <1>1, <1>3, <2>1, <2>2 DEF AInv, CopyOK
<1>8. Absent \notin backups'
  BY <1>1 DEF TypesOK, Absent
<1> QED  BY <1>1, <1>2, <1>3, <1>4, <1>5, <1>6, <1>7, <1>8, NamesRight

\* A backup that is restored is nobody's backup any more.
LEMMA RestoreRight ==
  ASSUME AInv, NEW p \in Proc, Restore(p)
  PROVE  AInv'
<1> DEFINE b == call[p].backup
<1>1. /\ TypesOK /\ BackupOK(p) /\ call[p] \in Calls /\ call[p].stage = "restore"
      /\ UNCHANGED <<inode, adapter>> /\ target \in onDisk /\ Return(p)
  BY DEF AInv, TypesOK, NamedOK, Restore, At, env
<1>2. /\ doc' \in [Proc -> Documents] /\ call' \in [Proc -> Calls] /\ OnlyOf(p)
      /\ call'[p].stage = "idle"
  BY <1>1, ReturnRight
<1>3. b \in backups /\ b \in 1..Len(inode) /\ Mine(p) = {}
  BY <1>1 DEF BackupOK, BackedUp, TypesOK, Mine, Holding
<1>4. \/ target' = b /\ backups' = backups \ {b} /\ onDisk' \subseteq onDisk \cup {b} /\ b \in onDisk'
      \/ target' = target /\ backups' = backups /\ onDisk' = onDisk
  BY DEF Restore, Since
<1>5. TempOK(p)' /\ StageOK(p)' /\ call'[p].stage \notin Holding \cup BackedUp
  BY <1>2 DEF TempOK, StageOK, Holding, BackedUp
<1>6. \A q \in Proc : BackupOK(q)'
  <2> SUFFICES ASSUME NEW q \in Proc, call'[q].stage \in BackedUp PROVE BackupOK(q)'
    BY DEF BackupOK
  <2>1. q # p /\ call'[q] = call[q] /\ BackupOK(q) /\ call[q].stage \in BackedUp
    BY <1>2, <1>5 DEF OnlyOf, AInv
  <2>2. call[q].backup # b
    BY <1>1, <2>1 DEF BackupOK, BackedUp
  <2>3. call[q].backup \in backups' /\ call[q].backup # target'
    BY <1>4, <2>1, <2>2 DEF BackupOK
  <2>4. \A r \in Proc \ {q} : call'[r].stage \in BackedUp => call'[r].backup # call[q].backup
    BY <1>2, <1>5, <2>1 DEF OnlyOf, BackupOK
  <2> QED  BY <1>1, <2>1, <2>3, <2>4 DEF BackupOK
<1>7. CopyOK'
  <2>1. Discarded' \subseteq Discarded
    BY <1>2, DiscardedRight
  <2>2. b # Absent
    BY <1>3 DEF Absent
  <2> QED  BY <1>4, <2>1, <2>2 DEF AInv, CopyOK
<1>8. Absent \notin backups'
  BY <1>1, <1>4 DEF TypesOK, Absent
<1> QED  BY <1>1, <1>2, <1>3, <1>4, <1>5, <1>6, <1>7, <1>8, NamesRight

\* A backup that is discarded is not the last copy.
LEMMA DiscardRight ==
  ASSUME AInv, NEW p \in Proc, DiscardBackup(p)
  PROVE  AInv' /\ (HasCopy => HasCopy')
<1> DEFINE b == call[p].backup
<1>1. /\ TypesOK /\ call[p] \in Calls /\ call[p].stage = "discard" /\ doc' = doc
      /\ UNCHANGED <<inode, adapter, target, onDisk>> /\ target \in onDisk
      /\ backups' = backups \ {b} /\ Goto(p, "stat")
  BY DEF AInv, TypesOK, NamedOK, DiscardBackup, At, env
<1>2. /\ doc' \in [Proc -> Documents] /\ call' \in [Proc -> Calls] /\ OnlyOf(p)
      /\ call'[p].stage = "stat"
  BY <1>1, GotoRight DEF Stages, Installed, OnlyOf, TypesOK
<1>3. TempOK(p)' /\ StageOK(p)' /\ call'[p].stage \notin Holding \cup BackedUp
  BY <1>2 DEF TempOK, StageOK, Holding, BackedUp
<1>4. Mine(p) = {} /\ b \in Discarded
  BY <1>1 DEF Mine, Holding, Discarded
<1>5. \A q \in Proc : BackupOK(q)'
  <2> SUFFICES ASSUME NEW q \in Proc, call'[q].stage \in BackedUp PROVE BackupOK(q)'
    BY DEF BackupOK
  <2>1. q # p /\ call'[q] = call[q] /\ BackupOK(q) /\ call[q].stage \in BackedUp
    BY <1>2, <1>3 DEF OnlyOf, AInv
  <2>2. call[q].backup # b
    BY <1>1, <2>1 DEF BackupOK, BackedUp
  <2>3. \A r \in Proc \ {q} : call'[r].stage \in BackedUp => call'[r].backup # call[q].backup
    BY <1>2, <1>3, <2>1 DEF OnlyOf, BackupOK
  <2> QED  BY <1>1, <2>1, <2>2, <2>3 DEF BackupOK
<1>6. Discarded' \subseteq Discarded
  BY <1>2, DiscardedRight
<1>7. target # Absent \/ \E c \in backups' : c \notin Discarded
  BY <1>1, <1>4 DEF AInv, CopyOK
<1>8. CopyOK' /\ HasCopy'
  BY <1>1, <1>6, <1>7 DEF CopyOK, HasCopy
<1>9. Absent \notin backups'
  BY <1>1 DEF TypesOK, Absent
<1> QED  BY <1>1, <1>2, <1>3, <1>4, <1>5, <1>8, <1>9, NamesRight

(***************************************************************************)
(* A step of a save.                                                       *)
(***************************************************************************)
Installing(p) ==
  \E next \in {"flush", "stat", "discard"} :
    /\ Install(p, next) /\ call[p].stage \in {"replace", "move", "install"}
    /\ next = "discard" => call[p].stage = "install"

\* What the steps of a save have in common.
LEMMA StorageSteps ==
  ASSUME NEW p \in Proc, Storage(p)
  PROVE  \/ Looks(p) \/ CreateTemporary(p) \/ WriteTemporary(p) \/ SyncTemporary(p)
         \/ Installing(p) \/ ReplaceFileLoses(p) \/ SyncDirectory(p)
         \/ BackUp(p) \/ Restore(p) \/ DiscardBackup(p)
<1>1. RenameOver(p) \/ ReplaceFile(p) \/ RenameNew(p) \/ Move(p) \/ InstallBackedUp(p) => Installing(p)
  BY DEF RenameOver, ReplaceFile, RenameNew, Move, InstallBackedUp, Installing, At
<1> QED  BY <1>1 DEF Storage, Looks

\* Every step of a save keeps the invariant.
LEMMA StorageRight ==
  ASSUME AInv, NEW p \in Proc, Storage(p)
  PROVE  AInv'
<1>1. CASE Installing(p)
  BY <1>1, InstallRight DEF Installing
<1> QED
  BY <1>1, StorageSteps, LooksRight, CreateRight, WriteRight, LosesRight, BackUpRight,
     RestoreRight, DiscardRight

-----------------------------------------------------------------------------
(***************************************************************************)
(* Other programs, and failures.                                           *)
(***************************************************************************)
LEMMA OutsideRight ==
  ASSUME AInv, UNCHANGED <<backups, doc, call, adapter>>,
         inode' \in Seq(Files), Len(inode) <= Len(inode)', Len(inode)' <= MaxInode,
         \A i \in (1..Len(inode)) \ onDisk : inode'[i] = inode[i],
         \A i \in (onDisk' \cup backups) \ {Absent} : Durable(i)',
         target' \in onDisk', onDisk' \subseteq onDisk \cup {target'},
         target' \in 0..Len(inode)',
         target' \in {target, Absent} \/ target' \notin 1..Len(inode),
         target' # Absent \/ Discarded = {}
  PROVE  AInv'
<1>1. TypesOK /\ Len(inode) \in Nat /\ Len(inode)' \in Nat
  BY DEF AInv, TypesOK
<1>2. onDisk' \subseteq 0..Len(inode)' /\ backups' \subseteq 1..Len(inode)'
  <2> DEFINE m == Len(inode)'
             n == Len(inode)
  <2>1. onDisk \subseteq 0..n /\ backups \subseteq 1..n /\ n <= m /\ n \in Nat /\ m \in Nat
    BY <1>1 DEF TypesOK
  <2>2. onDisk' \subseteq onDisk \cup {target'} /\ target' \in 0..m /\ backups' = backups
    OBVIOUS
  <2> HIDE DEF m, n
  <2>3. 0..n \subseteq 0..m /\ 1..n \subseteq 1..m
    BY <2>1
  <2>4. onDisk' \subseteq 0..m /\ backups' \subseteq 1..m
    BY <2>1, <2>2, <2>3
  <2> QED  BY <2>4 DEF m
<1>3. TypesOK' /\ NamedOK'
  BY <1>1, <1>2 DEF TypesOK, NamedOK
<1>4. ASSUME NEW q \in Proc PROVE TempOK(q)'
  <2> DEFINE t == call[q].temp
  <2> SUFFICES ASSUME call[q].stage \in Holding PROVE TempOK(q)'
    BY DEF TempOK
  <2>1. TempOK(q) /\ t \in 1..Len(inode) /\ t \notin onDisk \cup backups
    BY DEF AInv, TempOK
  <2>2. inode'[t] = inode[t] /\ t \in 1..Len(inode)'
    BY <1>1, <2>1
  <2>3. t \notin onDisk' \cup backups'
    BY <1>1, <2>1 DEF AInv, NamedOK, Absent
  <2> QED  BY <2>1, <2>2, <2>3 DEF TempOK
<1>5. ASSUME NEW q \in Proc PROVE BackupOK(q)'
  BY <1>1 DEF AInv, BackupOK, TypesOK, Absent
<1>6. ASSUME NEW q \in Proc PROVE StageOK(q)'
  BY <1>1 DEF AInv, StageOK
<1>7. CopyOK'
  BY DEF AInv, CopyOK, Discarded
<1> QED  BY <1>3, <1>4, <1>5, <1>6, <1>7 DEF AInv

\* A new file under the name is whole, and nobody's temporary file.
LEMMA OtherReplacesRight ==
  ASSUME AInv, OtherReplaces
  PROVE  AInv' /\ target' # Absent
<1>1. PICK text \in Text :
        inode' = Append(inode, [text |-> text, stamp |-> 1, synced |-> TRUE])
  BY DEF OtherReplaces
<1> DEFINE f == [text |-> text, stamp |-> 1, synced |-> TRUE]
           n == Len(inode)
<1>2. f \in Files /\ f.text \in Text /\ f.stamp > 0 /\ f.synced
  BY ConstantsAssumption DEF Files
<1>3. inode' = Append(inode, f)
  BY <1>1
<1> HIDE DEF f
<1>4. /\ TypesOK /\ n \in Nat /\ n < MaxInode
      /\ UNCHANGED <<backups, doc, call, adapter>>
      /\ target' = Len(inode') /\ onDisk' = Since(target')
  BY DEF AInv, TypesOK, OtherReplaces, env
<1>5. /\ inode' \in Seq(Files) /\ Len(inode') = n + 1 /\ Len(inode') <= MaxInode
      /\ inode'[n + 1] = f /\ \A i \in 1..n : inode'[i] = inode[i]
  BY <1>2, <1>3, <1>4, AppendRight
<1>6. target' = n + 1 /\ target' \notin 1..n /\ target' # Absent /\ target' \in 0..Len(inode')
  BY <1>4, <1>5 DEF Absent
<1>7. target' \in onDisk' /\ onDisk' \subseteq onDisk \cup {target'}
  BY <1>4 DEF Since
<1>8. ASSUME NEW i \in (onDisk' \cup backups) \ {Absent} PROVE Durable(i)'
  <2>1. CASE i = n + 1
    BY <1>2, <1>5, <2>1 DEF Durable
  <2>2. CASE i # n + 1
    <3>1. i \in onDisk \cup backups /\ i # Absent
      BY <1>6, <1>7, <2>2
    <3>2. Durable(i)
      BY <3>1 DEF AInv, NamedOK
    <3>3. i \in 1..n
      <4>1. onDisk \cup backups \subseteq 0..n
        BY <1>4 DEF TypesOK
      <4> HIDE DEF n
      <4> QED  BY <1>4, <3>1, <4>1 DEF Absent
    <3> QED  BY <1>4, <1>5, <3>2, <3>3 DEF Durable
  <2> QED  BY <2>1, <2>2
<1>9. AInv'
  BY <1>4, <1>5, <1>6, <1>7, <1>8, OutsideRight
<1> QED  BY <1>6, <1>9

\* A file edited in place is no temporary file, and stays durable.
LEMMA OtherEditsRight ==
  ASSUME AInv, OtherEdits
  PROVE  AInv' /\ target' = target
<1>1. PICK text \in Text :
        inode' = [inode EXCEPT ![target].text = text, ![target].stamp = @ + 1]
  BY DEF OtherEdits
<1> DEFINE f == [inode[target] EXCEPT !.text = text, !.stamp = @ + 1]
<1>2. /\ TypesOK /\ target \in 1..Len(inode) /\ target # Absent
      /\ UNCHANGED <<target, onDisk, backups, doc, call, adapter>>
      /\ inode[target].stamp < MaxStamp /\ target \in onDisk /\ Durable(target)
  BY DEF AInv, TypesOK, NamedOK, OtherEdits, names, env, Absent
<1>3. inode[target] \in Files
  BY <1>2 DEF TypesOK
<1>4. f \in Files /\ f.text = text /\ f.stamp > 0 /\ f.synced = inode[target].synced
  <2>1. inode[target].stamp + 1 \in 0..MaxStamp /\ inode[target].stamp + 1 > 0
    BY <1>2, <1>3, ConstantsAssumption DEF Files
  <2> QED  BY <1>3, <2>1 DEF Files
<1>5. inode' = [inode EXCEPT ![target] = f]
  BY <1>1, <1>2
<1> HIDE DEF f
<1>6. /\ inode' \in Seq(Files) /\ Len(inode)' = Len(inode) /\ inode'[target] = f
      /\ \A i \in 1..Len(inode) \ {target} : inode'[i] = inode[i]
  BY <1>2, <1>4, <1>5, ChangeRight
<1>7. ASSUME NEW i \in (onDisk \cup backups) \ {Absent} PROVE Durable(i)'
  <2>1. i \in 1..Len(inode) /\ Durable(i)
    BY <1>2 DEF AInv, NamedOK, TypesOK, Absent
  <2>2. CASE i = target
    BY <1>2, <1>4, <1>6, <2>2 DEF Durable
  <2>3. CASE i # target
    BY <1>2, <1>6, <2>1, <2>3 DEF Durable
  <2> QED  BY <2>2, <2>3
<1>8. Len(inode) \in Nat /\ Len(inode) <= MaxInode /\ target \in 0..Len(inode)
  BY <1>2 DEF TypesOK
<1>9. AInv'
  BY <1>2, <1>6, <1>7, <1>8, OutsideRight
<1> QED  BY <1>2, <1>9

\* On DOS nobody removes the file while a backup is discarded.
LEMMA OtherRemovesRight ==
  ASSUME AInv, OtherRemoves
  PROVE  AInv'
<1>1. /\ TypesOK /\ UNCHANGED <<inode, backups, doc, call, adapter>>
      /\ target' = Absent /\ onDisk' = Since(Absent) /\ OthersRun
  BY DEF AInv, OtherRemoves, env
<1>2. target' \in onDisk' /\ onDisk' \subseteq onDisk \cup {target'}
  BY <1>1 DEF Since
<1>3. Discarded = {}
  BY <1>1 DEF AInv, BackupOK, BackedUp, Discarded, OthersRun, Busy, At
<1>4. \A i \in (onDisk' \cup backups) \ {Absent} : Durable(i)'
  BY <1>1, <1>2 DEF AInv, NamedOK, Durable
<1>5. Len(inode) \in Nat /\ Len(inode) <= MaxInode /\ inode \in Seq(Files)
  BY <1>1 DEF TypesOK
<1>6. target' \in 0..Len(inode)'
  BY <1>1, <1>5 DEF Absent
<1> QED  BY <1>1, <1>2, <1>3, <1>4, <1>5, <1>6, OutsideRight

\* A process that dies forgets its files; they stay.
LEMMA CrashRight ==
  ASSUME AInv, NEW p \in Proc, Crash(p)
  PROVE  AInv'
<1>1. /\ TypesOK /\ UNCHANGED <<inode, target, onDisk, backups, adapter>>
      /\ doc' = [doc EXCEPT ![p] = Untitled]
      /\ call' = [call EXCEPT ![p] = NoCall("closed")]
  BY DEF AInv, Crash, names
<1>2. /\ call' \in [Proc -> Calls] /\ call'[p].stage = "closed"
      /\ \A q \in Proc \ {p} : call'[q] = call[q]
  BY <1>1, NoCallRight DEF Stages
<1>3. doc' \in [Proc -> Documents] /\ OnlyOf(p)
  BY <1>1, <1>2, UntitledRight DEF TypesOK, OnlyOf
<1>4. Follows(p) /\ StageOK(p)'
  BY <1>2 DEF Follows, Holding, BackedUp, StageOK
<1> QED  BY <1>1, <1>2, <1>3, <1>4, QuietRight

\* What may have the name was synced, so a power failure leaves it whole, or
\* could not be, on DOS.
LEMMA PowerFailsRight ==
  ASSUME AInv, PowerFails
  PROVE  AInv'
<1> DEFINE n == Len(inode)
<1>1. /\ TypesOK /\ UNCHANGED <<backups, adapter>>
      /\ target' \in onDisk /\ onDisk' = {target'}
      /\ doc' = [p \in Proc |-> Untitled]
      /\ call' = [p \in Proc |-> NoCall("closed")]
      /\ n \in Nat /\ n <= MaxInode /\ DOMAIN inode = 1..n
  BY DEF AInv, TypesOK, PowerFails
<1>2. inode' = [i \in 1..n |->
                  IF inode[i].synced THEN inode[i] ELSE [inode[i] EXCEPT !.text = Partial]]
  BY <1>1 DEF PowerFails
<1>3. ASSUME NEW i \in 1..n
      PROVE  inode'[i] \in Files /\ (Durable(i) => Durable(i)')
  <2>1. inode[i] \in Files
    BY <1>1 DEF TypesOK
  <2>2. [inode[i] EXCEPT !.text = Partial] \in Files
    BY <2>1 DEF Files
  <2>3. CASE inode[i].synced
    BY <1>1, <1>2, <2>1, <2>3 DEF Durable
  <2>4. CASE ~inode[i].synced
    BY <1>1, <1>2, <2>1, <2>2, <2>4 DEF Durable, Files
  <2> QED  BY <2>3, <2>4
<1>4. inode' \in Seq(Files) /\ Len(inode)' = n
  <2>1. inode' \in [1..n -> Files]
    BY <1>2, <1>3
  <2> QED  BY <1>1, <2>1
<1>5. doc' \in [Proc -> Documents]
  BY <1>1, UntitledRight
<1>6. NoCall("closed") \in Calls /\ NoCall("closed").stage = "closed"
  BY ConstantsAssumption DEF NoCall, Calls, NoVersion, Version, Absent, Stages
<1>7. call' \in [Proc -> Calls] /\ \A p \in Proc : call'[p].stage = "closed"
  BY <1>1, <1>6
<1>8. TypesOK'
  BY <1>1, <1>4, <1>5, <1>7 DEF TypesOK
<1>9. NamedOK'
  <2> SUFFICES ASSUME NEW i \in (onDisk' \cup backups') \ {Absent} PROVE Durable(i)'
    BY <1>1 DEF NamedOK
  <2>1. i \in 1..n /\ Durable(i)
    BY <1>1 DEF AInv, NamedOK, TypesOK, Absent
  <2> QED  BY <1>3, <2>1
<1>10. \A p \in Proc : TempOK(p)' /\ BackupOK(p)' /\ StageOK(p)'
  BY <1>7 DEF TempOK, BackupOK, StageOK, Holding, BackedUp
<1>11. CopyOK'
  BY <1>7 DEF CopyOK, Discarded
<1> QED  BY <1>8, <1>9, <1>10, <1>11 DEF AInv

-----------------------------------------------------------------------------
\* The invariant holds at first.
LEMMA InitRight == Init => AInv
<1> SUFFICES ASSUME Init PROVE AInv
  OBVIOUS
<1>1. inode \in Seq(Files) /\ Len(inode) <= MaxInode /\ target \in 0..Len(inode)
      /\ (target # Absent => Durable(target))
  <2>1. CASE inode = <<>> /\ target = Absent
    BY <2>1, ConstantsAssumption DEF Absent
  <2>2. CASE inode = <<[text |-> Blank, stamp |-> 1, synced |-> TRUE]>> /\ target = 1
    <3>1. [text |-> Blank, stamp |-> 1, synced |-> TRUE] \in Files
      BY ConstantsAssumption DEF Files
    <3> QED  BY <2>2, <3>1, ConstantsAssumption DEF Durable
  <2> QED  BY <2>1, <2>2 DEF Init
<1>2. NoCall("closed") \in Calls /\ NoCall("closed").stage = "closed"
  BY ConstantsAssumption DEF NoCall, Calls, NoVersion, Version, Absent, Stages
<1>3. call \in [Proc -> Calls] /\ \A p \in Proc : call[p].stage = "closed"
  BY <1>2 DEF Init
<1>4. doc \in [Proc -> Documents]
  BY UntitledRight DEF Init
<1>5. TypesOK /\ NamedOK
  BY <1>1, <1>3, <1>4 DEF Init, TypesOK, NamedOK
<1>6. \A p \in Proc : TempOK(p) /\ BackupOK(p) /\ StageOK(p)
  BY <1>3 DEF TempOK, BackupOK, StageOK, Holding, BackedUp
<1>7. CopyOK
  BY <1>3 DEF CopyOK, Discarded
<1> QED  BY <1>5, <1>6, <1>7 DEF AInv

\* The invariant is inductive.
LEMMA NextRight ==
  ASSUME AInv, [Next]_vars
  PROVE  AInv'
<1>1. CASE UNCHANGED vars
  <2>1. UNCHANGED <<inode, target, onDisk, backups, doc, call, adapter>>
    BY <1>1 DEF vars, names, env
  <2>2. TypesOK'
    BY <2>1 DEF AInv, TypesOK
  <2>3. NamedOK'
    BY <2>1 DEF AInv, NamedOK, Durable
  <2>4. CopyOK'
    BY <2>1 DEF AInv, CopyOK, Discarded
  <2>5. ASSUME NEW p \in Proc PROVE (TempOK(p) /\ BackupOK(p) /\ StageOK(p))'
    <3>1. TempOK(p)'
      BY <2>1 DEF AInv, TempOK
    <3>2. BackupOK(p)'
      BY <2>1 DEF AInv, BackupOK
    <3>3. StageOK(p)'
      BY <2>1 DEF AInv, StageOK
    <3> QED  BY <3>1, <3>2, <3>3
  <2> QED  BY <2>2, <2>3, <2>4, <2>5 DEF AInv
<1>2. CASE Next
  BY <1>2, NotepadRight, StorageRight, CrashRight, OtherReplacesRight, OtherEditsRight,
     OtherRemovesRight, PowerFailsRight DEF Next
<1> QED  BY <1>1, <1>2

\* Whatever the processes, the other programs and the failures do: the
\* inductive invariant of the saves.
THEOREM SavesInductive == Spec => []AInv
<1>1. AInv /\ [Next]_vars => AInv'
  BY NextRight
<1> QED  BY <1>1, InitRight, PTL DEF Spec

\* The file is never seen with part of a text, during or after any failure:
\* what has its name, or may have it after a power failure, was written whole
\* and synced.  The one exception is a DOS that cannot sync it and loses power.
THEOREM FileWhole == Spec => []TargetWhole
<1>1. AInv => TargetWhole
  BY DEF AInv, NamedOK, TargetWhole, Durable
<1> QED  BY <1>1, SavesInductive, PTL

-----------------------------------------------------------------------------
(***************************************************************************)
(* What a step may never do.                                               *)
(***************************************************************************)
LEMMA OthersWait ==
  ASSUME NEW p \in Proc, Notepad(p) \/ Storage(p) \/ Crash(p), NEW q \in Proc \ {p}, TypesOK
  PROVE  call'[q] = call[q]
<1> USE DEF TypesOK, Goto
<1>1. CASE Notepad(p)
  BY <1>1 DEF Notepad, New, Open, Read, ReadFails, Edit, Save, SaveAs, Close
<1>2. CASE Storage(p)
  <2> USE DEF Abandon, Return, Install
  <2>1. CASE \/ FirstCheck(p) \/ CreateTemporary(p) \/ WriteTemporary(p) \/ SyncTemporary(p)
             \/ SecondCheck(p) \/ Fails(p) \/ RenameOver(p) \/ ReplaceFile(p)
             \/ ReplaceFileLoses(p) \/ RenameNew(p)
    BY <2>1 DEF FirstCheck, CreateTemporary, WriteTemporary, SyncTemporary, SecondCheck, Fails,
                RenameOver, ReplaceFile, ReplaceFileLoses, RenameNew
  <2>2. CASE \/ LookUp(p) \/ Move(p) \/ BackUp(p) \/ InstallBackedUp(p) \/ InstallFails(p)
             \/ Restore(p) \/ DiscardBackup(p) \/ SyncDirectory(p) \/ ReadBack(p)
    BY <2>2 DEF LookUp, Move, BackUp, InstallBackedUp, InstallFails, Restore, DiscardBackup,
                SyncDirectory, ReadBack
  <2> QED  BY <1>2, <2>1, <2>2 DEF Storage
<1>3. CASE Crash(p)
  BY <1>3 DEF Crash
<1> QED  BY <1>1, <1>2, <1>3

\* A save that has not replaced the file yet has done so after a step only if
\* the step was a rename.
LEMMA InstallsSteps ==
  ASSUME AInv, NEW p \in Proc, Next, Installs(p)
  PROVE  RenameOver(p) \/ ReplaceFile(p) \/ RenameNew(p) \/ Move(p) \/ InstallBackedUp(p)
<1> USE DEF Installs, Replacing, Installed, Checking
<1>1. TypesOK /\ call \in [Proc -> Calls]
  BY DEF AInv, TypesOK
<1>2. Notepad(p) \/ Storage(p) \/ Crash(p)
  <2>1. call' # call /\ ~PowerFails
    BY <1>1 DEF PowerFails, NoCall
  <2> QED  BY <1>1, <2>1, OthersWait DEF Next, OtherReplaces, OtherEdits, OtherRemoves
<1>3. CASE Notepad(p) \/ Crash(p)
  BY <1>1, <1>3 DEF Notepad, New, Open, Read, ReadFails, Edit, Save, SaveAs, Close, At, Goto,
                    Crash, NoCall
<1>4. CASE Storage(p)
  <2>1. ~(\/ FirstCheck(p) \/ CreateTemporary(p) \/ WriteTemporary(p) \/ SyncTemporary(p)
          \/ SecondCheck(p) \/ DiscardBackup(p) \/ SyncDirectory(p) \/ ReadBack(p))
    BY DEF FirstCheck, CreateTemporary, WriteTemporary, SyncTemporary, SecondCheck,
           DiscardBackup, SyncDirectory, ReadBack, At
  <2>2. ~Return(p)
    BY <1>1, ReturnRight DEF TypesOK
  <2>3. ~(Fails(p) \/ ReplaceFileLoses(p) \/ Restore(p))
    BY <2>2 DEF Fails, ReplaceFileLoses, Restore, Abandon
  <2>4. ~(LookUp(p) \/ BackUp(p) \/ InstallFails(p))
    <3>1. ASSUME LookUp(p) \/ InstallFails(p) PROVE FALSE
      <4>1. Goto(p, "move") \/ Goto(p, "restore")
        BY <2>2, <3>1 DEF LookUp, InstallFails, Abandon
      <4>2. call'[p].stage \in {"move", "restore"}
        BY <1>1, <4>1, GotoRight DEF Stages
      <4> QED  BY <4>2
    <3>2. ASSUME BackUp(p) PROVE FALSE
      <4>1. call'[p].stage = "install"
        BY <1>1, <3>2 DEF BackUp, Calls
      <4> QED  BY <4>1
    <3> QED  BY <3>1, <3>2
  <2> QED  BY <1>4, <2>1, <2>3, <2>4 DEF Storage
<1> QED  BY <1>2, <1>3, <1>4

\* For any number of processes that save at once: where the system can refuse
\* to replace, a save that expects no file replaces none.
THEOREM CreateCorrect == Spec => CreateNeverReplaces
<1> DEFINE Kept(p) == adapter \in {"posix", "win32"} /\ Installs(p) /\ Creates(p)
                        => target = Absent
<1>1. ASSUME AInv, Next, NEW p \in Proc PROVE Kept(p)
  <2> SUFFICES ASSUME adapter \in {"posix", "win32"}, Installs(p), Creates(p)
               PROVE  target = Absent
    OBVIOUS
  <2>1. BackupOK(p) /\ StageOK(p)
    BY <1>1 DEF AInv
  <2> QED
    BY <1>1, <2>1, InstallsSteps DEF RenameOver, ReplaceFile, RenameNew, Move, InstallBackedUp,
                                     At, BackupOK, BackedUp, StageOK
<1>2. AInv /\ [Next]_vars => [\A p \in Proc : Kept(p)]_vars
  BY <1>1
<1> QED  BY <1>2, SavesInductive, PTL DEF Spec, CreateNeverReplaces

\* A text that was once saved stays to be found, whichever step of whichever
\* save fails: DOS makes its backup before the file is replaced, and drops it
\* only when there is another copy.
THEOREM CopyCorrect == Spec => CopyKept
<1> DEFINE Kept == HasCopy => \/ HasCopy' \/ OtherRemoves
                              \/ PowerFails /\ Absent \in onDisk
                              \/ \E p \in Proc : ReplaceFileLoses(p)
<1>1. ASSUME AInv, NEW p \in Proc, Storage(p), ~ReplaceFileLoses(p), HasCopy PROVE HasCopy'
  <2>1. CASE \/ Looks(p) \/ CreateTemporary(p) \/ WriteTemporary(p) \/ SyncTemporary(p)
             \/ SyncDirectory(p)
    BY <1>1, <2>1 DEF HasCopy, Looks, FirstCheck, SecondCheck, Fails, LookUp, InstallFails,
                      ReadBack, Abandon, CreateTemporary, WriteTemporary, SyncTemporary,
                      SyncDirectory, names
  <2>2. CASE Installing(p)
    BY <1>1, <2>2, InstallRight DEF Installing, HasCopy, Absent
  <2>3. CASE BackUp(p)
    BY <2>3 DEF BackUp, HasCopy
  <2>4. CASE Restore(p)
    <3>1. call[p].backup # Absent
      BY <1>1, <2>4 DEF Restore, At, AInv, TypesOK, BackupOK, BackedUp, Absent
    <3> QED  BY <1>1, <2>4, <3>1 DEF Restore, HasCopy
  <2>5. CASE DiscardBackup(p)
    BY <1>1, <2>5, DiscardRight
  <2> QED  BY <1>1, <2>1, <2>2, <2>3, <2>4, <2>5, StorageSteps
<1>2. ASSUME NEW p \in Proc, Notepad(p) \/ Crash(p) PROVE HasCopy' = HasCopy
  BY <1>2 DEF Notepad, New, Open, Read, ReadFails, Edit, Save, SaveAs, Close, Crash, names, HasCopy
<1>3. ASSUME AInv, OtherReplaces \/ OtherEdits, HasCopy PROVE HasCopy'
  BY <1>3, OtherReplacesRight, OtherEditsRight DEF OtherReplaces, OtherEdits, names, HasCopy
<1>4. ASSUME PowerFails, HasCopy PROVE HasCopy' \/ Absent \in onDisk
  BY <1>4 DEF PowerFails, HasCopy
<1>5. AInv /\ [Next]_vars => [Kept]_vars
  BY <1>1, <1>2, <1>3, <1>4 DEF Next
<1> QED  BY <1>5, SavesInductive, PTL DEF Spec, CopyKept

\* The version and the text of a document just read belong together, however
\* the file is replaced or edited while it is read.
THEOREM ReadCorrect == Spec => ReadVersionNamesText
<1> DEFINE Right(p) == At(p, "reading") /\ At(p, "idle")' /\ Ver(target)' = doc'[p].version
                         => doc'[p].text \in ReadsAs(inode'[target'].text)
<1>1. ASSUME AInv, Next, NEW p \in Proc, At(p, "reading"), At(p, "idle")',
             Ver(target)' = doc'[p].version
      PROVE  doc'[p].text \in ReadsAs(inode'[target'].text)
  <2>1. TypesOK /\ call[p].opened.ino \in 1..Len(inode)
    BY <1>1 DEF AInv, StageOK, At
  <2>2. Notepad(p) \/ Storage(p) \/ Crash(p)
    <3>1. call' # call /\ ~PowerFails
      BY <1>1 DEF PowerFails, NoCall, At
    <3> QED
      BY <1>1, <2>1, <3>1, OthersWait DEF Next, OtherReplaces, OtherEdits, OtherRemoves, At
  <2>3. Read(p)
    BY <1>1, <2>1, <2>2 DEF Notepad, New, Open, ReadFails, Edit, Save, SaveAs, Close, Crash,
         NoCall, At, Goto, TypesOK, Storage, FirstCheck, CreateTemporary, WriteTemporary,
         SyncTemporary, SecondCheck, Fails, RenameOver, ReplaceFile, ReplaceFileLoses, RenameNew,
         LookUp, Move, BackUp, InstallBackedUp, InstallFails, Restore, DiscardBackup,
         SyncDirectory, ReadBack, Checking
  <2>4. /\ doc'[p].version = call[p].opened
        /\ doc'[p].text \in ReadsAs(inode[call[p].opened.ino].text)
        /\ UNCHANGED <<inode, target>>
    BY <2>1, <2>3 DEF Read, names, TypesOK
  <2>5. Ver(target)' = Ver(target)
    BY <2>4 DEF Ver
  <2>6. Ver(target).ino = call[p].opened.ino /\ Ver(target).ino # Absent
    BY <1>1, <2>1, <2>4, <2>5 DEF Absent, TypesOK
  <2>7. target # Absent
    BY <2>6 DEF Ver, NoVersion
  <2>8. Ver(target).ino = target
    BY <2>1, <2>7, VersionRight DEF TypesOK
  <2> QED  BY <2>4, <2>6, <2>8
<1>2. AInv /\ [Next]_vars => [\A p \in Proc : Right(p)]_vars
  BY <1>1
<1> QED  BY <1>2, SavesInductive, PTL DEF Spec, ReadVersionNamesText

-----------------------------------------------------------------------------
(***************************************************************************)
(* Temporary files.  One that no call has as its own was left by a call    *)
(* that was cut short, and each such call leaves at most one: a process    *)
(* that has returned, or has given the file its name, has none.            *)
(***************************************************************************)
KeepsTemp == Holding \cup {"restore"}
Working   == {p \in Proc : Busy(p)}

CallOK(p) ==
  /\ {call[p].temp, call[p].backup} \subseteq 0..Len(inode)
  /\ call[p].backup \notin temps
  /\ call[p].stage \notin KeepsTemp => call[p].temp \notin temps

LitterInv ==
  /\ temps \subseteq 1..Len(inode) /\ temps \cap onDisk = {}
  /\ \A p \in Proc : CallOK(p)
  /\ IsFiniteSet(Working) /\ crashes \in Nat
  /\ NoLitter

\* The temporary files are finitely many, and so are those left.
LEMMA TempsFinite ==
  ASSUME TypesOK, temps \subseteq 1..Len(inode)
  PROVE  IsFiniteSet(temps \ Owned)
<1>1. Len(inode) \in Int /\ 1 \in Int
  BY DEF TypesOK
<1>2. IsFiniteSet(1..Len(inode))
  BY <1>1, FS_Interval
<1> QED  BY <1>2, FS_Subset

\* Where no file is added to those left, the bound holds on.
LEMMA NoneLeft ==
  ASSUME TypesOK, LitterInv, temps' \ Owned' \subseteq temps \ Owned,
         crashes' = crashes, (adapter # "djgpp" => backups = {})'
  PROVE  NoLitter'
<1>1. IsFiniteSet(temps \ Owned)
  BY TempsFinite DEF LitterInv
<1>2. /\ Cardinality(temps' \ Owned') <= Cardinality(temps \ Owned)
      /\ Cardinality(temps' \ Owned') \in Nat /\ Cardinality(temps \ Owned) \in Nat
  BY <1>1, FS_Subset, FS_CardinalityType
<1> QED  BY <1>2 DEF LitterInv, NoLitter

(***************************************************************************)
(* A step of one process: a name it adds is of its own new file, and one   *)
(* that it had and that stays is still its own.                            *)
(***************************************************************************)
LEMMA StepLitter ==
  ASSUME TypesOK, TypesOK', LitterInv, NEW p \in Proc,
         \A q \in Proc \ {p} : call'[q] = call[q],
         crashes' = crashes, Len(inode) <= Len(inode)',
         temps' \subseteq 1..Len(inode)', temps' \cap onDisk' = {},
         \A i \in temps' \ temps : i = call'[p].temp /\ i \notin 0..Len(inode),
         call[p].temp \in temps' => call'[p].temp = call[p].temp,
         CallOK(p)', (adapter # "djgpp" => backups = {})'
  PROVE  LitterInv'
<1>1. Len(inode) \in Nat /\ Len(inode)' \in Nat
  BY DEF TypesOK
<1>2. ASSUME NEW q \in Proc PROVE CallOK(q)'
  <2>1. CASE q = p
    BY <2>1
  <2>2. CASE q # p
    <3>1. CallOK(q) /\ call'[q] = call[q]
      BY <2>2 DEF LitterInv
    <3>2. 0..Len(inode) \subseteq 0..Len(inode)'
      BY <1>1
    <3> QED  BY <3>1, <3>2 DEF CallOK
  <2> QED  BY <2>1, <2>2
<1>3. temps' \ Owned' \subseteq temps \ Owned
  <2> SUFFICES ASSUME NEW i \in temps', i \notin Owned'
               PROVE  i \in temps /\ i \notin Owned
    OBVIOUS
  <2>1. \A q \in Proc : i # call'[q].temp
    BY DEF Owned
  <2>2. i \in temps
    BY <2>1
  <2>3. ASSUME NEW q \in Proc PROVE i # call[q].temp /\ i # call[q].backup
    <3>1. i # call[q].backup
      BY <2>2 DEF LitterInv, CallOK
    <3>2. i # call[q].temp
      BY <2>1
    <3> QED  BY <3>1, <3>2
  <2> QED  BY <2>2, <2>3 DEF Owned
<1>4. NoLitter'
  BY <1>3, NoneLeft
<1>5. IsFiniteSet(Working)'
  <2>1. IsFiniteSet(Working \cup {p})
    BY FS_AddElement DEF LitterInv
  <2>2. Working' \subseteq Working \cup {p}
    BY DEF Working, Busy, At
  <2> QED  BY <2>1, <2>2, FS_Subset
<1> QED  BY <1>2, <1>4, <1>5 DEF LitterInv

\* The step may leave the names alone, and the call its own two files.
LEMMA SameTemps ==
  ASSUME TypesOK, TypesOK', LitterInv, NEW p \in Proc,
         \A q \in Proc \ {p} : call'[q] = call[q],
         Len(inode)' = Len(inode), UNCHANGED <<temps, adapter, crashes>>,
         onDisk' \subseteq onDisk \cup {Absent}, backups' \subseteq backups,
         call'[p].temp = call[p].temp, call'[p].backup = call[p].backup,
         call[p].stage \in KeepsTemp => call'[p].stage \in KeepsTemp
  PROVE  LitterInv'
<1>1. Len(inode) \in Nat
  BY DEF TypesOK
<1>2. CallOK(p)'
  BY DEF LitterInv, CallOK
<1>3. temps' \cap onDisk' = {}
  BY <1>1 DEF LitterInv, Absent
<1>4. (adapter # "djgpp" => backups = {})'
  BY DEF LitterInv, NoLitter
<1>5. Len(inode) <= Len(inode)' /\ temps' \subseteq 1..Len(inode)'
  BY <1>1 DEF LitterInv
<1> QED  BY <1>2, <1>3, <1>4, <1>5, StepLitter

\* Or the call returns, and its temporary file is gone.
LEMMA ReturnLitter ==
  ASSUME TypesOK, TypesOK', LitterInv, NEW p \in Proc, NEW s \in Stages,
         call' = [call EXCEPT ![p] = NoCall(s)],
         UNCHANGED <<inode, adapter, crashes>>, temps' = temps \ {call[p].temp},
         onDisk' \cap temps' = {}, adapter # "djgpp" => backups' = {}
  PROVE  LitterInv'
<1>1. Len(inode) \in Nat
  BY DEF TypesOK
<1>2. \A q \in Proc \ {p} : call'[q] = call[q]
  BY DEF TypesOK
<1>3. call'[p].temp = 0 /\ call'[p].backup = 0
  BY DEF TypesOK, NoCall, Absent
<1>4. temps' \subseteq 1..Len(inode)' /\ 0 \in 0..Len(inode)' /\ Len(inode) <= Len(inode)'
  <2>1. temps \subseteq 1..Len(inode)
    BY DEF LitterInv
  <2>2. Len(inode)' = Len(inode) /\ temps' \subseteq temps
    OBVIOUS
  <2>3. 0 \in 0..Len(inode) /\ Len(inode) <= Len(inode)
    BY <1>1
  <2>4. temps' \subseteq 1..Len(inode)'
    <3>1. 1..Len(inode)' = 1..Len(inode)
      BY <2>2
    <3> QED  BY <2>1, <2>2, <3>1, Zenon
  <2> QED  BY <2>2, <2>3, <2>4
<1>5. CallOK(p)'
  BY <1>3, <1>4 DEF CallOK
<1>6. temps' \ temps = {} /\ call[p].temp \notin temps'
  OBVIOUS
<1>7. (adapter # "djgpp" => backups = {})'
  OBVIOUS
<1> QED  BY <1>2, <1>4, <1>5, <1>6, <1>7, StepLitter

\* A call that holds no temporary file has none to remove.
LEMMA NoTemp ==
  ASSUME LitterInv, NEW p \in Proc, call[p].stage \notin KeepsTemp
  PROVE  temps = temps \ {call[p].temp}
  BY DEF LitterInv, CallOK

\* Steps of Notepad are of calls that hold no temporary file.
LEMMA NotepadLitter ==
  ASSUME AInv, AInv', LitterInv, NEW p \in Proc, Notepad(p)
  PROVE  LitterInv'
<1> USE DEF At, KeepsTemp, Holding, Checking
<1>1. /\ TypesOK /\ TypesOK' /\ call \in [Proc -> Calls]
      /\ UNCHANGED <<inode, target, onDisk, temps, backups, adapter, crashes>>
  BY DEF AInv, TypesOK, Notepad, New, Open, Read, ReadFails, Edit, Save, SaveAs, Close, names, env
<1>2. CASE Read(p) \/ ReadFails(p)
  <2>1. PICK s \in {"idle", "closed"} : call' = [call EXCEPT ![p] = NoCall(s)]
    BY <1>2 DEF Read, ReadFails
  <2>2. s \in Stages /\ call[p].stage \notin KeepsTemp
    BY <1>2 DEF Read, ReadFails, Stages
  <2>3. temps' = temps \ {call[p].temp} /\ onDisk' \cap temps' = {}
        /\ (adapter # "djgpp" => backups' = {})
    BY <1>1, <2>2, NoTemp DEF LitterInv, NoLitter
  <2> QED  BY <1>1, <2>1, <2>2, <2>3, ReturnLitter
<1>3. CASE ~(Read(p) \/ ReadFails(p))
  <2>1. /\ call[p].stage \notin KeepsTemp
        /\ call'[p].temp = call[p].temp /\ call'[p].backup = call[p].backup
        /\ \A q \in Proc \ {p} : call'[q] = call[q]
    <3>1. CASE Open(p) \/ Edit(p) \/ SaveAs(p)
      BY <1>1, <3>1 DEF Open, Edit, SaveAs, Goto, Calls
    <3>2. CASE New(p) \/ Save(p) \/ Close(p)
      BY <1>1, <3>2 DEF New, Save, Close, Goto, Calls
    <3> QED  BY <1>3, <3>1, <3>2 DEF Notepad
  <2>2. Len(inode)' = Len(inode) /\ onDisk' \subseteq onDisk \cup {Absent} /\ backups' \subseteq backups
    BY <1>1
  <2> QED  BY <1>1, <2>1, <2>2, SameTemps
<1> QED  BY <1>2, <1>3

\* A call that fails or ends has removed its temporary file.
LEMMA AbandonLitter ==
  ASSUME AInv, AInv', LitterInv, NEW p \in Proc,
         Return(p), UNCHANGED <<inode, adapter, crashes>>,
         onDisk' \cap temps = {}, adapter # "djgpp" => backups' = {}
  PROVE  LitterInv'
<1>1. TypesOK /\ TypesOK' /\ "idle" \in Stages
  BY DEF AInv, Stages
<1>2. /\ call' = [call EXCEPT ![p] = NoCall("idle")]
      /\ temps' = temps \ {call[p].temp} /\ onDisk' \cap temps' = {}
  BY DEF Return
<1> QED  BY <1>1, <1>2, ReturnLitter

\* The steps of a save that make, remove or name no file.
Steady(p) ==
  \/ FirstCheck(p) \/ WriteTemporary(p) \/ SyncTemporary(p) \/ SecondCheck(p) \/ Fails(p)
  \/ LookUp(p) \/ InstallFails(p) \/ DiscardBackup(p) \/ SyncDirectory(p)

LEMMA SteadyLitter ==
  ASSUME AInv, AInv', LitterInv, NEW p \in Proc, Steady(p)
  PROVE  LitterInv'
<1> USE DEF At, KeepsTemp, Holding
<1>1. /\ TypesOK /\ TypesOK' /\ call \in [Proc -> Calls] /\ target \in onDisk
      /\ temps \cap onDisk = {} /\ (adapter # "djgpp" => backups = {})
  BY DEF AInv, TypesOK, NamedOK, LitterInv, NoLitter
<1>2. CASE Abandon(p)
  <2>1. Return(p) /\ UNCHANGED <<inode, onDisk, backups, adapter, crashes>>
    BY <1>2 DEF Abandon, env
  <2> QED  BY <1>1, <2>1, AbandonLitter
<1>3. CASE ~Abandon(p)
  <2>1. PICK to \in Stages :
          Goto(p, to) /\ (call[p].stage \in KeepsTemp => to \in KeepsTemp)
    BY <1>3 DEF Steady, FirstCheck, WriteTemporary, SyncTemporary, SecondCheck, Fails, LookUp,
                InstallFails, DiscardBackup, SyncDirectory, Stages, Checking, Replacing, Installed
  <2>2. /\ call'[p].stage = to /\ call'[p].temp = call[p].temp
        /\ call'[p].backup = call[p].backup
        /\ \A q \in Proc \ {p} : call'[q] = call[q]
    BY <1>1, <2>1, GotoRight
  <2>3. /\ UNCHANGED <<temps, adapter, crashes>>
        /\ onDisk' \subseteq onDisk \cup {Absent} /\ backups' \subseteq backups
    BY <1>1, <1>3 DEF Steady, FirstCheck, WriteTemporary, SyncTemporary, SecondCheck, Fails, LookUp,
                InstallFails, DiscardBackup, SyncDirectory, names, env
  <2>4. DOMAIN inode' = DOMAIN inode
    BY <1>1, <1>3 DEF TypesOK, Steady, FirstCheck, WriteTemporary, SyncTemporary, SecondCheck,
                Fails, LookUp, InstallFails, DiscardBackup, SyncDirectory
  <2>5. Len(inode)' = Len(inode)
    BY <1>1, <2>4 DEF TypesOK
  <2> QED  BY <1>1, <2>1, <2>2, <2>3, <2>5, SameTemps
<1> QED  BY <1>2, <1>3

\* A new temporary file is its maker's own.
LEMMA CreateLitter ==
  ASSUME AInv, AInv', LitterInv, NEW p \in Proc, CreateTemporary(p)
  PROVE  LitterInv'
<1> DEFINE n == Len(inode)
           t == Len(inode)'
<1>1. /\ TypesOK /\ TypesOK' /\ call \in [Proc -> Calls] /\ n \in Nat /\ onDisk \subseteq 0..n
      /\ temps \subseteq 1..n /\ temps \cap onDisk = {} /\ (adapter # "djgpp" => backups = {})
      /\ CallOK(p)
  BY DEF AInv, TypesOK, LitterInv, NoLitter
<1>2. t = n + 1
  BY <1>1 DEF CreateTemporary, TypesOK
<1>3. /\ temps' = temps \cup {t} /\ UNCHANGED <<onDisk, backups, adapter, crashes>>
      /\ call' = [call EXCEPT ![p].stage = "write", ![p].temp = t]
      /\ call[p].stage = "create"
  BY DEF CreateTemporary, env, At
<1> HIDE DEF n, t
<1>4. /\ call'[p].stage = "write" /\ call'[p].temp = t /\ call'[p].backup = call[p].backup
      /\ \A q \in Proc \ {p} : call'[q] = call[q]
  BY <1>1, <1>3 DEF Calls
<1>5. t \notin 0..n /\ n <= t /\ t \in 0..t /\ t \in 1..t /\ 0..n \subseteq 0..t /\ 1..n \subseteq 1..t
  BY <1>1, <1>2
<1>6. call[p].backup \in 0..n /\ call[p].backup \notin temps /\ call[p].temp \in 0..n
      /\ call[p].temp \notin temps
  BY <1>1, <1>3 DEF CallOK, KeepsTemp, Holding, n
<1>7. CallOK(p)'
  <2>1. {t, call[p].backup} \subseteq 0..t /\ call[p].backup \notin temps \cup {t}
    BY <1>5, <1>6
  <2> QED  BY <1>3, <1>4, <2>1 DEF CallOK, KeepsTemp, Holding, t
<1>8. /\ temps' \subseteq 1..t /\ temps' \cap onDisk' = {}
      /\ call[p].temp \notin temps'
      /\ \A i \in temps' \ temps : i = call'[p].temp /\ i \notin 0..n
  BY <1>1, <1>3, <1>4, <1>5, <1>6
<1>9. (adapter # "djgpp" => backups = {})' /\ crashes' = crashes
  BY <1>1, <1>3
<1> QED
  BY <1>1, <1>4, <1>5, <1>7, <1>8, <1>9, StepLitter DEF n, t

\* The name of a temporary file is gone once the file has its own.
LEMMA InstallLitter ==
  ASSUME AInv, AInv', LitterInv, NEW p \in Proc, Installing(p)
  PROVE  LitterInv'
<1> DEFINE t == call[p].temp
<1>1. /\ TypesOK /\ TypesOK' /\ call \in [Proc -> Calls] /\ Len(inode) \in Nat
      /\ temps \subseteq 1..Len(inode) /\ temps \cap onDisk = {}
      /\ (adapter # "djgpp" => backups = {}) /\ CallOK(p)
  BY DEF AInv, TypesOK, LitterInv, NoLitter
<1>2. PICK next \in {"flush", "stat", "discard"} : Install(p, next)
  BY DEF Installing
<1>3. /\ temps' = temps \ {t} /\ Goto(p, next) /\ onDisk' \subseteq onDisk \cup {t}
      /\ UNCHANGED <<inode, backups, adapter, crashes>> /\ next \in Stages
  BY <1>2 DEF Install, Since, env, Stages, Installed
<1>4. /\ call'[p].stage = next /\ call'[p].temp = t /\ call'[p].backup = call[p].backup
      /\ \A q \in Proc \ {p} : call'[q] = call[q]
  BY <1>1, <1>3, GotoRight
<1>5. CallOK(p)'
  BY <1>1, <1>3, <1>4 DEF CallOK
<1>6. /\ temps' \subseteq 1..Len(inode)' /\ Len(inode) <= Len(inode)'
      /\ temps' \cap onDisk' = {} /\ temps' \ temps = {} /\ t \notin temps'
      /\ (adapter # "djgpp" => backups = {})' /\ crashes' = crashes
  <2>1. Len(inode)' = Len(inode) /\ Len(inode) <= Len(inode) /\ temps' \subseteq temps
    BY <1>1, <1>3
  <2>2. temps' \subseteq 1..Len(inode)'
    BY <1>1, <2>1
  <2> QED  BY <1>1, <1>3, <2>1, <2>2
<1> QED  BY <1>1, <1>4, <1>5, <1>6, StepLitter

\* No name of a temporary file is one of the file or of a backup.
LEMMA BackUpLitter ==
  ASSUME AInv, AInv', LitterInv, NEW p \in Proc, BackUp(p)
  PROVE  LitterInv'
<1>1. /\ TypesOK /\ TypesOK' /\ call \in [Proc -> Calls] /\ Len(inode) \in Nat
      /\ temps \subseteq 1..Len(inode) /\ temps \cap onDisk = {}
      /\ target \in onDisk /\ target \in 0..Len(inode) /\ CallOK(p)
  BY DEF AInv, TypesOK, NamedOK, LitterInv
<1>2. /\ UNCHANGED <<inode, temps, adapter, crashes>> /\ adapter = "djgpp"
      /\ onDisk' \subseteq onDisk \cup {Absent}
      /\ call' = [call EXCEPT ![p].stage = "install", ![p].backup = target]
  BY DEF BackUp, Since, env
<1>3. /\ call'[p].stage = "install" /\ call'[p].temp = call[p].temp /\ call'[p].backup = target
      /\ \A q \in Proc \ {p} : call'[q] = call[q]
  BY <1>1, <1>2 DEF Calls
<1>4. CallOK(p)'
  <2>1. target \notin temps /\ call[p].temp \in 0..Len(inode)
    BY <1>1 DEF CallOK
  <2> QED  BY <1>1, <1>2, <1>3, <2>1 DEF CallOK, KeepsTemp, Holding
<1>5. Absent \notin temps
  BY <1>1 DEF Absent
<1>6. /\ Len(inode) <= Len(inode)' /\ temps' \subseteq 1..Len(inode)'
      /\ temps' \cap onDisk' = {} /\ temps' \ temps = {}
  BY <1>1, <1>2, <1>5
<1> QED  BY <1>1, <1>2, <1>3, <1>4, <1>6, StepLitter

\* Nor is what a save restores or has lost.
LEMMA EndLitter ==
  ASSUME AInv, AInv', LitterInv, NEW p \in Proc, ReplaceFileLoses(p) \/ Restore(p) \/ ReadBack(p)
  PROVE  LitterInv'
<1>1. /\ TypesOK /\ TypesOK' /\ temps \subseteq 1..Len(inode) /\ temps \cap onDisk = {}
      /\ (adapter # "djgpp" => backups = {}) /\ CallOK(p) /\ BackupOK(p) /\ Len(inode) \in Nat
  BY DEF AInv, LitterInv, NoLitter, TypesOK
<1>2. UNCHANGED <<inode, adapter, crashes>>
  BY DEF ReplaceFileLoses, Restore, ReadBack, env
<1>3. Absent \notin temps
  BY <1>1 DEF Absent
<1>4. CASE ReplaceFileLoses(p)
  <2>1. Return(p) /\ onDisk' \subseteq onDisk \cup {Absent} /\ backups' = backups
    BY <1>4 DEF ReplaceFileLoses, Since
  <2> QED  BY <1>1, <1>2, <1>3, <2>1, AbandonLitter
<1>5. CASE Restore(p)
  <2>1. /\ Return(p) /\ call[p].stage = "restore"
        /\ onDisk' \subseteq onDisk \cup {call[p].backup}
    BY <1>5 DEF Restore, Since, At
  <2>2. adapter = "djgpp" /\ call[p].backup \notin temps
    BY <1>1, <2>1 DEF BackupOK, BackedUp, CallOK
  <2> QED  BY <1>1, <1>2, <2>1, <2>2, AbandonLitter
<1>6. CASE ReadBack(p)
  <2>1. /\ call' = [call EXCEPT ![p] = NoCall("idle")] /\ UNCHANGED names
        /\ call[p].stage \notin KeepsTemp /\ "idle" \in Stages
    BY <1>6 DEF ReadBack, At, KeepsTemp, Holding, Stages
  <2>2. /\ temps' = temps \ {call[p].temp} /\ onDisk' \cap temps' = {}
        /\ (adapter # "djgpp" => backups' = {})
    BY <1>1, <2>1, NoTemp DEF names
  <2> QED  BY <1>1, <1>2, <2>1, <2>2, ReturnLitter
<1> QED  BY <1>4, <1>5, <1>6

\* So no step of a save adds to the files left.
LEMMA StorageLitter ==
  ASSUME AInv, AInv', LitterInv, NEW p \in Proc, Storage(p)
  PROVE  LitterInv'
<1>1. Steady(p) => LitterInv'
  BY SteadyLitter
<1>2. Installing(p) => LitterInv'
  BY InstallLitter
<1>3. CreateTemporary(p) \/ BackUp(p) => LitterInv'
  BY CreateLitter, BackUpLitter
<1>4. ReplaceFileLoses(p) \/ Restore(p) \/ ReadBack(p) => LitterInv'
  BY EndLitter
<1> QED  BY <1>1, <1>2, <1>3, <1>4, StorageSteps DEF Looks, Steady

\* Other programs leave the temporary files alone.
LEMMA OutsideLitter ==
  ASSUME AInv, AInv', LitterInv, OtherReplaces \/ OtherEdits \/ OtherRemoves
  PROVE  LitterInv'
<1>1. /\ TypesOK /\ TypesOK' /\ Len(inode) \in Nat /\ Len(inode)' \in Nat
      /\ temps \subseteq 1..Len(inode) /\ temps \cap onDisk = {} /\ IsFiniteSet(Working)
      /\ crashes \in Nat /\ (adapter # "djgpp" => backups = {})
  BY DEF AInv, TypesOK, LitterInv, NoLitter
<1>2. UNCHANGED <<temps, backups, adapter, crashes, call>>
  BY DEF OtherReplaces, OtherEdits, OtherRemoves, names, env
<1>3. Len(inode) <= Len(inode)'
  <2>1. CASE OtherReplaces
    BY <1>1, <2>1 DEF OtherReplaces, TypesOK
  <2>2. CASE OtherEdits
    <3>1. DOMAIN inode' = DOMAIN inode
      BY <2>2 DEF OtherEdits
    <3> QED  BY <1>1, <3>1 DEF TypesOK
  <2>3. CASE OtherRemoves
    BY <1>1, <2>3 DEF OtherRemoves
  <2> QED  BY <2>1, <2>2, <2>3
<1>4. temps \cap onDisk' = {}
  <2>1. CASE OtherReplaces
    <3>1. Len(inode)' \notin temps
      BY <1>1, <2>1 DEF OtherReplaces, TypesOK
    <3> QED  BY <1>1, <2>1, <3>1 DEF OtherReplaces, Since
  <2>2. CASE OtherEdits
    BY <1>1, <2>2 DEF OtherEdits, names
  <2>3. CASE OtherRemoves
    <3>1. Absent \notin temps
      BY <1>1 DEF Absent
    <3> QED  BY <1>1, <2>3, <3>1 DEF OtherRemoves, Since
  <2> QED  BY <2>1, <2>2, <2>3
<1>5. 0..Len(inode) \subseteq 0..Len(inode)' /\ 1..Len(inode) \subseteq 1..Len(inode)'
  BY <1>1, <1>3
<1>6. \A p \in Proc : CallOK(p)'
  BY <1>2, <1>5 DEF LitterInv, CallOK
<1>7. Owned' = Owned /\ Working' = Working
  BY <1>2 DEF Owned, Working, Busy, At
<1>8. NoLitter'
  BY <1>1, <1>2, <1>7, NoneLeft
<1> QED  BY <1>1, <1>2, <1>4, <1>5, <1>6, <1>7, <1>8 DEF LitterInv

\* A process that dies leaves its temporary file, if it has one.
LEMMA CrashLitter ==
  ASSUME AInv, AInv', LitterInv, NEW p \in Proc, Crash(p)
  PROVE  LitterInv'
<1> DEFINE t == call[p].temp
<1>1. /\ TypesOK /\ TypesOK' /\ call \in [Proc -> Calls] /\ Len(inode) \in Nat
      /\ temps \subseteq 1..Len(inode) /\ temps \cap onDisk = {} /\ IsFiniteSet(Working)
      /\ crashes \in Nat /\ NoLitter /\ \A q \in Proc : CallOK(q)
  BY DEF AInv, TypesOK, LitterInv
<1>2. /\ UNCHANGED <<inode, onDisk, temps, backups, adapter>> /\ crashes' = crashes + 1
      /\ call' = [call EXCEPT ![p] = NoCall("closed")]
  BY DEF Crash, names
<1>3. /\ call'[p].stage = "closed" /\ call'[p].temp = 0 /\ call'[p].backup = 0
      /\ \A q \in Proc \ {p} : call'[q] = call[q]
  BY <1>1, <1>2 DEF NoCall, Absent
<1>4. temps' \ Owned' \subseteq (temps \ Owned) \cup {t}
  <2> SUFFICES ASSUME NEW i \in temps, i \notin Owned', i # t PROVE i \notin Owned
    BY <1>2
  <2>1. ASSUME NEW q \in Proc PROVE i # call[q].temp /\ i # call[q].backup
    <3>1. i # call[q].backup
      BY <1>1 DEF CallOK
    <3>2. i # call[q].temp
      BY <1>3 DEF Owned
    <3> QED  BY <3>1, <3>2
  <2> QED  BY <2>1 DEF Owned
<1>5. Cardinality(temps' \ Owned') <= crashes'
  <2>1. IsFiniteSet(temps \ Owned)
    BY <1>1, TempsFinite
  <2>2. /\ IsFiniteSet((temps \ Owned) \cup {t})
        /\ Cardinality((temps \ Owned) \cup {t}) <= Cardinality(temps \ Owned) + 1
        /\ Cardinality(temps \ Owned) \in Nat /\ Cardinality((temps \ Owned) \cup {t}) \in Nat
    <3> DEFINE Had == temps \ Owned
    <3>1. IsFiniteSet(Had)
      BY <2>1
    <3> HIDE DEF Had, t
    <3>2. /\ IsFiniteSet(Had \cup {t})
          /\ Cardinality(Had \cup {t})
               = IF t \in Had THEN Cardinality(Had) ELSE Cardinality(Had) + 1
      BY <3>1, FS_AddElement
    <3>3. Cardinality(Had) \in Nat /\ Cardinality(Had \cup {t}) \in Nat
      BY <3>1, <3>2, FS_CardinalityType
    <3>4. Cardinality(Had \cup {t}) <= Cardinality(Had) + 1
      BY <3>2, <3>3
    <3> QED  BY <3>2, <3>3, <3>4 DEF Had
  <2>3. /\ Cardinality(temps' \ Owned') <= Cardinality((temps \ Owned) \cup {t})
        /\ Cardinality(temps' \ Owned') \in Nat
    BY <1>4, <2>2, FS_Subset, FS_CardinalityType
  <2>4. Cardinality(temps \ Owned) <= crashes
    BY <1>1 DEF NoLitter
  <2> QED  BY <1>1, <1>2, <2>2, <2>3, <2>4
<1>6. NoLitter'
  BY <1>1, <1>2, <1>5 DEF NoLitter
<1>7. \A q \in Proc : CallOK(q)'
  <2>1. 0 \notin temps /\ 0 \in 0..Len(inode)
    BY <1>1
  <2> QED  BY <1>1, <1>2, <1>3, <2>1 DEF CallOK
<1>8. IsFiniteSet(Working)'
  <2>1. Working' \subseteq Working
    BY <1>3 DEF Working, Busy, At
  <2> QED  BY <1>1, <2>1, FS_Subset
<1> QED  BY <1>1, <1>2, <1>6, <1>7, <1>8 DEF LitterInv

\* A power failure leaves one for each call at work.
LEMMA PowerLitter ==
  ASSUME AInv, AInv', LitterInv, PowerFails
  PROVE  LitterInv'
<1> DEFINE Left == {call[p].temp : p \in Working}
<1>1. /\ TypesOK /\ TypesOK' /\ call \in [Proc -> Calls] /\ Len(inode) \in Nat
      /\ temps \subseteq 1..Len(inode) /\ temps \cap onDisk = {} /\ IsFiniteSet(Working)
      /\ crashes \in Nat /\ NoLitter /\ \A q \in Proc : CallOK(q)
  BY DEF AInv, TypesOK, LitterInv
<1>2. /\ UNCHANGED <<temps, backups, adapter>>
      /\ crashes' = crashes + Cardinality(Working)
      /\ target' \in onDisk /\ onDisk' = {target'} /\ DOMAIN inode' = DOMAIN inode
      /\ call' = [p \in Proc |-> NoCall("closed")]
  BY DEF PowerFails, Interrupted, Working
<1>3. Len(inode)' = Len(inode)
  BY <1>1, <1>2 DEF TypesOK
<1>4. \A p \in Proc : /\ call'[p].stage = "closed" /\ call'[p].temp = 0 /\ call'[p].backup = 0
  BY <1>2 DEF NoCall, Absent
<1>5. temps' \ Owned' \subseteq (temps \ Owned) \cup Left
  <2> SUFFICES ASSUME NEW i \in temps, i \in Owned PROVE i \in Left
    BY <1>2
  <2>1. PICK p \in Proc : i = call[p].temp \/ i = call[p].backup
    BY DEF Owned
  <2>2. i = call[p].temp /\ call[p].stage \in KeepsTemp
    BY <1>1, <2>1 DEF CallOK
  <2>3. p \in Working
    BY <2>2 DEF Working, Busy, At, KeepsTemp, Holding
  <2> QED  BY <2>2, <2>3
<1>6. IsFiniteSet(Left) /\ Cardinality(Left) <= Cardinality(Working)
  <2> DEFINE f == [p \in Working |-> call[p].temp]
  <2>1. f \in Surjection(Working, Left)
    BY DEF Surjection
  <2> HIDE DEF f, Left
  <2> QED  BY <1>1, <2>1, FS_Surjection
<1> HIDE DEF Left
<1>7. Cardinality(temps' \ Owned') <= crashes'
  <2>1. IsFiniteSet(temps \ Owned)
    BY <1>1, TempsFinite
  <2>2. /\ IsFiniteSet((temps \ Owned) \cup Left)
        /\ Cardinality((temps \ Owned) \cup Left)
             = Cardinality(temps \ Owned) + Cardinality(Left)
               - Cardinality((temps \ Owned) \cap Left)
    BY <1>6, <2>1, FS_Union
  <2>3. /\ Cardinality(temps \ Owned) \in Nat /\ Cardinality(Left) \in Nat
        /\ Cardinality((temps \ Owned) \cap Left) \in Nat
        /\ Cardinality((temps \ Owned) \cup Left) \in Nat /\ Cardinality(Working) \in Nat
    BY <1>1, <1>6, <2>1, <2>2, FS_CardinalityType, FS_Intersection
  <2>4. /\ Cardinality(temps' \ Owned') <= Cardinality((temps \ Owned) \cup Left)
        /\ Cardinality(temps' \ Owned') \in Nat
    BY <1>5, <2>2, FS_Subset, FS_CardinalityType
  <2>5. Cardinality(temps \ Owned) <= crashes
    BY <1>1 DEF NoLitter
  <2> QED  BY <1>1, <1>2, <1>6, <2>2, <2>3, <2>4, <2>5
<1>8. NoLitter'
  BY <1>1, <1>2, <1>7 DEF NoLitter
<1>9. \A q \in Proc : CallOK(q)'
  <2>1. 0 \notin temps /\ 0 \in 0..Len(inode)'
    BY <1>1, <1>3
  <2> QED  BY <1>2, <1>4, <2>1 DEF CallOK
<1>10. IsFiniteSet(Working)' /\ crashes' \in Nat
  <2>1. Working' = {}
    BY <1>4 DEF Working, Busy, At
  <2>2. Cardinality(Working) \in Nat
    BY <1>1, FS_CardinalityType
  <2> QED  BY <1>1, <1>2, <2>1, <2>2, FS_EmptySet
<1>11. temps' \subseteq 1..Len(inode)' /\ temps' \cap onDisk' = {}
  BY <1>1, <1>2, <1>3
<1> QED  BY <1>8, <1>9, <1>10, <1>11 DEF LitterInv

\* At first there are no temporary files.
LEMMA InitLitter ==
  ASSUME Init, TypesOK
  PROVE  LitterInv
<1>1. temps = {} /\ backups = {} /\ crashes = 0 /\ Len(inode) \in Nat
  BY DEF Init, TypesOK
<1>2. \A p \in Proc : call[p].stage = "closed" /\ call[p].temp = 0 /\ call[p].backup = 0
  BY DEF Init, NoCall, Absent
<1>3. \A p \in Proc : CallOK(p)
  <2>1. 0 \in 0..Len(inode)
    BY <1>1
  <2> QED  BY <1>1, <1>2, <2>1 DEF CallOK
<1>4. Working = {} /\ temps \ Owned = {}
  BY <1>1, <1>2 DEF Working, Busy, At
<1>5. IsFiniteSet(Working) /\ NoLitter
  BY <1>1, <1>4, FS_EmptySet DEF NoLitter
<1> QED  BY <1>1, <1>3, <1>5 DEF LitterInv

\* However many processes save and are cut short: there are no more temporary
\* files without an owner than calls that were, and no backups but on DOS.
THEOREM TempsRemoved == Spec => []NoLitter
<1>1. Init => LitterInv
  BY InitRight, InitLitter DEF AInv
<1>2. AInv /\ LitterInv /\ [Next]_vars => LitterInv'
  <2> SUFFICES ASSUME AInv, LitterInv, [Next]_vars PROVE LitterInv'
    OBVIOUS
  <2>1. AInv'
    BY NextRight
  <2>2. CASE UNCHANGED vars
    BY <2>2 DEF vars, names, env, LitterInv, NoLitter, Owned, Working, Busy, At, CallOK
  <2>3. CASE Next
    BY <2>1, <2>3, NotepadLitter, StorageLitter, CrashLitter, OutsideLitter, PowerLitter DEF Next
  <2> QED  BY <2>2, <2>3
<1>3. LitterInv => NoLitter
  BY DEF LitterInv
<1> QED  BY <1>1, <1>2, <1>3, SavesInductive, PTL DEF Spec

-----------------------------------------------------------------------------
(***************************************************************************)
(* The POSIX adapter keeps the promise of SavedFile, for any number of     *)
(* processes: every step of AtomicWrite is one of SavedFile's, or none, in *)
(* the state that its refinement mapping shows.                            *)
(***************************************************************************)
\* What the mapping shows.
File   == Posix(FileOf(target), NoVersion)
Recent == Posix({FileOf(i) : i \in onDisk}, {NoVersion})
Op     == [p \in Proc |-> Posix(Saving(p), [stage |-> "idle"])]
Shown  == [p \in Proc |-> Posix(Shows(p), "nothing")]
View   == <<File, Recent, Op, Shown>>

OnPosix == adapter = "posix" /\ adapter' = adapter

SaveAt(stage, d) == [stage |-> stage, expected |-> d.version, text |-> d.text]
NoSave           == [stage |-> "idle"]

-----------------------------------------------------------------------------
(***************************************************************************)
(* SavedFile's steps, said of what the mapping shows.                      *)
(***************************************************************************)
LEMMA BeginIs ==
  ASSUME NEW p \in Proc, Op[p] = NoSave,
         Op'[p] \in [stage : {"begun"}, expected : Version \cup {NoVersion}, text : Text],
         Op' = [Op EXCEPT ![p] = Op'[p]], UNCHANGED <<File, Recent, Shown>>
  PROVE  Promise!Next
<1>1. Promise!Begin(p)
  BY DEF Promise!Begin, Promise!Idle, NoSave, Op, File, Recent, Shown
<1> QED  BY <1>1 DEF Promise!Next

\* The file is found to be the expected one.
LEMMA MatchIs ==
  ASSUME NEW p \in Proc, Op[p].stage = "begun", Promise!VersionOf(File) = Op[p].expected,
         Op' = [Op EXCEPT ![p].stage = "matched"], UNCHANGED <<File, Recent, Shown>>
  PROVE  Promise!Next
<1>1. Promise!Match(p)
  BY DEF Promise!Match, Op, File, Recent, Shown
<1> QED  BY <1>1 DEF Promise!Next

\* The file is replaced.
LEMMA ReplaceIs ==
  ASSUME NEW p \in Proc, Op[p].stage = "matched",
         Op[p].expected = NoVersion => File = NoVersion,
         File' # NoVersion, File'.text = Op[p].text,
         (Promise!VersionOf(File))' # Promise!VersionOf(File),
         Recent' = Recent \cup {File'},
         Op' = [Op EXCEPT ![p].stage = "done"], UNCHANGED Shown
  PROVE  Promise!Next
<1>1. Promise!Replace(p)
  BY DEF Promise!Replace, Promise!VersionOf, Op, File, Recent, Shown
<1> QED  BY <1>1 DEF Promise!Next

\* The save reports what it did.
LEMMA EndIs ==
  ASSUME NEW p \in Proc, Op[p] # NoSave, Op' = [Op EXCEPT ![p] = NoSave],
         Shown' = [Shown EXCEPT ![p] = IF Op[p].stage = "done" THEN "document" ELSE "error"],
         UNCHANGED <<File, Recent>>
  PROVE  Promise!Next
<1>1. Promise!End(p)
  BY DEF Promise!End, Promise!Idle, NoSave, Op, File, Recent, Shown
<1> QED  BY <1>1 DEF Promise!Next

\* A name that is taken is refused.
LEMMA RefuseIs ==
  ASSUME NEW p \in Proc, Op[p] = NoSave, Shown' = [Shown EXCEPT ![p] = "error"],
         UNCHANGED <<File, Recent, Op>>
  PROVE  Promise!Next
<1>1. Promise!Refuse(p)
  BY DEF Promise!Refuse, Promise!Idle, NoSave, Op, File, Recent, Shown
<1> QED  BY <1>1 DEF Promise!Next

\* The user goes on.
LEMMA GoOnIs ==
  ASSUME NEW p \in Proc, Op[p] = NoSave, NEW view \in {"nothing", "document"},
         Shown' = [Shown EXCEPT ![p] = view], UNCHANGED <<File, Recent, Op>>
  PROVE  Promise!Next
<1>1. Promise!GoOn(p)
  BY DEF Promise!GoOn, Promise!Idle, NoSave, Op, File, Recent, Shown
<1> QED  BY <1>1 DEF Promise!Next

\* The process dies.
LEMMA DieIs ==
  ASSUME NEW p \in Proc, Op' = [Op EXCEPT ![p] = NoSave],
         Shown' = [Shown EXCEPT ![p] = "nothing"], UNCHANGED <<File, Recent>>
  PROVE  Promise!Next
<1>1. Promise!Die(p)
  BY DEF Promise!Die, Promise!Idle, NoSave, Op, File, Recent, Shown
<1> QED  BY <1>1 DEF Promise!Next

\* The directory is synced.
LEMMA FlushIs ==
  ASSUME Recent' = {File}, UNCHANGED <<File, Op, Shown>>
  PROVE  Promise!Next
<1>1. Promise!Flush
  BY DEF Promise!Flush, Op, File, Recent, Shown
<1> QED  BY <1>1 DEF Promise!Next

\* Another program changes the file.
LEMMA OtherIs ==
  ASSUME File' # File, (Promise!Whole(File))', File' \in Recent',
         Recent' \subseteq Recent \cup {File'}, UNCHANGED <<Op, Shown>>
  PROVE  Promise!Next
<1>1. Promise!Other
  BY DEF Promise!Other, Promise!Whole, Op, File, Recent, Shown
<1> QED  BY <1>1 DEF Promise!Next

\* The power fails.
LEMMA PowerFailsIs ==
  ASSUME File' \in Recent, Recent' = {File'}, Op' = [p \in Proc |-> NoSave],
         Shown' = [p \in Proc |-> "nothing"]
  PROVE  Promise!Next
<1>1. Promise!PowerFails
  BY DEF Promise!PowerFails, Promise!Idle, NoSave, Op, File, Recent, Shown
<1> QED  BY <1>1 DEF Promise!Next

\* Nothing that is shown changes.
LEMMA StutterIs ==
  ASSUME UNCHANGED View
  PROVE  UNCHANGED Promise!vars
  BY DEF View, Promise!vars, Op, File, Recent, Shown

-----------------------------------------------------------------------------
(***************************************************************************)
(* What is seen of a save, of a window and of a file.                      *)
(***************************************************************************)
LEMMA Elsewhere ==
  ASSUME adapter # "posix", adapter' = adapter
  PROVE  UNCHANGED View
  BY DEF View, File, Recent, Op, Shown, Posix

\* On POSIX everything is shown, before and after a step.
LEMMA OnPosixSeen ==
  ASSUME OnPosix
  PROVE  /\ File = FileOf(target) /\ File' = FileOf(target)'
         /\ Recent = {FileOf(i) : i \in onDisk} /\ Recent' = {FileOf(i) : i \in onDisk}'
         /\ Op = [p \in Proc |-> Saving(p)] /\ Op' = [p \in Proc |-> Saving(p)']
         /\ Shown = [p \in Proc |-> Shows(p)] /\ Shown' = [p \in Proc |-> Shows(p)']
  BY DEF OnPosix, File, Recent, Op, Shown, Posix

\* A step of one process changes what is shown of that one only.
LEMMA OneSeen ==
  ASSUME OnPosix, NEW p \in Proc, OnlyOf(p)
  PROVE  /\ Op[p] = Saving(p) /\ Op' = [Op EXCEPT ![p] = Saving(p)'] /\ Op'[p] = Saving(p)'
         /\ Shown[p] = Shows(p) /\ Shown' = [Shown EXCEPT ![p] = Shows(p)']
<1>1. \A q \in Proc \ {p} : Saving(q)' = Saving(q) /\ Shows(q)' = Shows(q)
  BY DEF OnlyOf, Saving, Shows
<1> QED  BY <1>1, OnPosixSeen

\* How far a save is shown to be, by its stage.
LEMMA SavingSeen ==
  ASSUME NEW p \in Proc
  PROVE  /\ call[p].stage \in Checking  => Saving(p) = SaveAt("begun", doc[p])
         /\ call[p].stage \in Replacing => Saving(p) = SaveAt("matched", doc[p])
         /\ call[p].stage \in Installed => Saving(p) = SaveAt("done", doc[p])
         /\ call[p].stage \in {"closed", "idle", "reading"} => Saving(p) = NoSave
  BY DEF Saving, SaveAt, NoSave, Checking, Replacing, Installed

\* The same after the step.
LEMMA SavingSeenNext ==
  ASSUME NEW p \in Proc
  PROVE  /\ call'[p].stage \in Checking  => Saving(p)' = SaveAt("begun", doc'[p])
         /\ call'[p].stage \in Replacing => Saving(p)' = SaveAt("matched", doc'[p])
         /\ call'[p].stage \in Installed => Saving(p)' = SaveAt("done", doc'[p])
         /\ call'[p].stage \in {"closed", "idle", "reading"} => Saving(p)' = NoSave
  BY DEF Saving, SaveAt, NoSave, Checking, Replacing, Installed

\* A save that is on is not none, and goes from stage to stage.
LEMMA SaveAtRight ==
  ASSUME NEW d, NEW s \in {"begun", "matched", "done"}, NEW r \in {"begun", "matched", "done"}
  PROVE  /\ SaveAt(s, d).stage = s /\ SaveAt(s, d).expected = d.version
         /\ SaveAt(s, d).text = d.text /\ SaveAt(s, d) # NoSave
         /\ [SaveAt(s, d) EXCEPT !.stage = r] = SaveAt(r, d)
<1>1. /\ SaveAt(s, d).stage = s /\ SaveAt(s, d).expected = d.version
      /\ SaveAt(s, d).text = d.text
  BY DEF SaveAt
<1>2. SaveAt(s, d) # NoSave
  BY <1>1 DEF NoSave
<1>3. [SaveAt(s, d) EXCEPT !.stage = r] = SaveAt(r, d)
  BY DEF SaveAt
<1> QED  BY <1>1, <1>2, <1>3

\* A file is shown by its version and text, and no two alike.
LEMMA FileSeen ==
  ASSUME TypesOK, NEW i \in 0..Len(inode)
  PROVE  /\ i = Absent => FileOf(i) = NoVersion
         /\ i # Absent => /\ FileOf(i) # NoVersion /\ FileOf(i).text = inode[i].text
                          /\ FileOf(i).version = Ver(i) /\ Ver(i).ino = i
         /\ Promise!VersionOf(FileOf(i)) = Ver(i)
<1>1. CASE i = Absent
  BY <1>1 DEF FileOf, Promise!VersionOf, Ver
<1>2. CASE i # Absent
  <2>1. /\ FileOf(i) = [version |-> Ver(i), text |-> inode[i].text]
        /\ FileOf(i).text = inode[i].text /\ FileOf(i).version = Ver(i)
    BY <1>2 DEF FileOf
  <2>2. DOMAIN FileOf(i) = {"version", "text"} /\ DOMAIN NoVersion = {"ino", "stamp"}
    BY <2>1 DEF NoVersion
  <2>3. FileOf(i) # NoVersion
    BY <2>2
  <2>4. Ver(i).ino = i
    BY <1>2, VersionRight
  <2> QED  BY <1>2, <2>1, <2>3, <2>4 DEF Promise!VersionOf
<1> QED  BY <1>1, <1>2

\* Files that may be named and stay as they are are shown as they were.
LEMMA KeptSeen ==
  ASSUME OnPosix, UNCHANGED <<target, onDisk>>, target \in onDisk,
         \A i \in onDisk \ {Absent} : inode'[i] = inode[i]
  PROVE  UNCHANGED <<File, Recent>>
<1>1. \A i \in onDisk : FileOf(i)' = FileOf(i)
  BY DEF FileOf, Ver, NoVersion, Absent
<1>2. FileOf(target)' = FileOf(target) /\ {FileOf(i) : i \in onDisk}' = {FileOf(i) : i \in onDisk}
  BY <1>1
<1> QED  BY <1>2, OnPosixSeen

-----------------------------------------------------------------------------
(***************************************************************************)
(* The steps.                                                              *)
(***************************************************************************)
LEMMA NotepadKeeps ==
  ASSUME AInv, OnPosix, NEW p \in Proc, Notepad(p)
  PROVE  Promise!Next \/ UNCHANGED View
<1> USE DEF At
<1>1. /\ TypesOK /\ call[p] \in Calls /\ doc[p] \in Documents
      /\ UNCHANGED <<inode, target, onDisk>> /\ target \in onDisk
  BY DEF AInv, TypesOK, NamedOK, Notepad, New, Open, Read, ReadFails, Edit, Save, SaveAs, Close,
         names
<1>2. UNCHANGED <<File, Recent>>
  BY <1>1, KeptSeen
<1>3. OnlyOf(p)
  BY <1>1 DEF TypesOK, OnlyOf, Notepad, New, Open, Read, ReadFails, Edit, Save, SaveAs, Close, Goto
<1>4. /\ Op[p] = Saving(p) /\ Op' = [Op EXCEPT ![p] = Saving(p)'] /\ Op'[p] = Saving(p)'
      /\ Shown[p] = Shows(p) /\ Shown' = [Shown EXCEPT ![p] = Shows(p)']
  BY <1>3, OneSeen
<1>5. Saving(p) = NoSave
  <2>1. call[p].stage \in {"closed", "idle", "reading"}
    BY DEF Notepad, New, Open, Read, ReadFails, Edit, Save, SaveAs, Close
  <2> QED  BY <2>1, SavingSeen
<1>6. CASE New(p) \/ Read(p) \/ Edit(p) \/ Close(p)
  <2>1. call'[p].stage \in {"closed", "idle"} /\ Shows(p)' \in {"nothing", "document"}
    <3>1. call'[p].stage \in {"closed", "idle"}
      BY <1>1, <1>6 DEF New, Read, Edit, Close, Goto, NoCall, TypesOK, Calls
    <3>2. ~doc'[p].error
      <4>1. CASE New(p) \/ Close(p)
        BY <1>1, <4>1 DEF New, Close, Untitled, TypesOK
      <4>2. CASE Read(p)
        BY <1>1, <4>2 DEF Read, TypesOK
      <4>3. CASE Edit(p)
        BY <1>1, <4>3 DEF Edit, TypesOK, Documents
      <4> QED  BY <1>6, <4>1, <4>2, <4>3
    <3> QED  BY <3>1, <3>2 DEF Shows
  <2>2. Saving(p)' = NoSave
    BY <2>1, SavingSeenNext
  <2>3. Op' = Op
    BY <1>4, <1>5, <2>2 DEF Op
  <2> QED  BY <1>2, <1>4, <1>5, <2>1, <2>3, GoOnIs
<1>7. CASE Open(p) \/ ReadFails(p)
  <2>1. /\ call[p].stage \in {"closed", "reading"} /\ call'[p].stage \in {"closed", "reading"}
        /\ doc' = doc
    BY <1>1, <1>7 DEF Open, ReadFails, NoCall, TypesOK, Calls
  <2>2. Saving(p)' = NoSave /\ Shows(p)' = Shows(p)
    BY <2>1, SavingSeenNext DEF Shows
  <2>3. Op' = Op /\ Shown' = Shown
    BY <1>4, <1>5, <2>2 DEF Op, Shown
  <2> QED  BY <1>2, <2>3 DEF View
<1>8. ASSUME call[p].stage = "idle", Goto(p, "check"), doc'[p] \in Documents,
             doc'[p].error = doc[p].error
      PROVE  Promise!Next
  <2>1. call'[p].stage = "check"
    BY <1>1, <1>8, GotoRight DEF Stages, Checking
  <2>2. Saving(p)' = SaveAt("begun", doc'[p]) /\ Shows(p)' = Shows(p)
    BY <1>8, <2>1, SavingSeenNext DEF Shows, Checking
  <2>3. Op'[p] \in [stage : {"begun"}, expected : Version \cup {NoVersion}, text : Text]
    BY <1>4, <1>8, <2>2 DEF SaveAt, Documents
  <2>4. Shown' = Shown
    BY <1>4, <2>2 DEF Shown
  <2> QED  BY <1>2, <1>4, <1>5, <2>3, <2>4, BeginIs
<1>9. CASE Save(p)
  BY <1>1, <1>8, <1>9 DEF Save
<1>10. CASE SaveAs(p)
  <2>1. CASE target # Absent
    <3>1. call' = call /\ doc'[p].error /\ call[p].stage = "idle"
      BY <1>1, <1>10, <2>1 DEF SaveAs, TypesOK, Documents
    <3>2. Saving(p)' = NoSave /\ Shows(p)' = "error"
      BY <3>1, SavingSeenNext DEF Shows
    <3>3. Op' = Op
      BY <1>4, <1>5, <3>2 DEF Op
    <3> QED  BY <1>2, <1>4, <1>5, <3>2, <3>3, RefuseIs
  <2>2. CASE target = Absent
    <3>1. /\ doc' = [doc EXCEPT ![p].hasPath = TRUE, ![p].version = NoVersion]
          /\ Goto(p, "check") /\ call[p].stage = "idle"
      BY <1>10, <2>2 DEF SaveAs
    <3>2. NoVersion \in Version
      BY ConstantsAssumption DEF NoVersion, Version, Absent
    <3>3. doc'[p] \in Documents /\ doc'[p].error = doc[p].error
      BY <1>1, <3>1, <3>2 DEF TypesOK, Documents
    <3> QED  BY <1>8, <3>1, <3>3
  <2> QED  BY <2>1, <2>2
<1> QED  BY <1>6, <1>7, <1>9, <1>10 DEF Notepad

\* A save that fails ends, and shows the error.
LEMMA AbandonKeeps ==
  ASSUME AInv, OnPosix, NEW p \in Proc, Abandon(p), call[p].stage \in Checking \cup Replacing
  PROVE  Promise!Next
<1>1. TypesOK /\ UNCHANGED <<inode, target, onDisk>> /\ target \in onDisk /\ Return(p)
  BY DEF AInv, NamedOK, Abandon
<1>2. UNCHANGED <<File, Recent>>
  BY <1>1, KeptSeen
<1>3. OnlyOf(p) /\ call'[p].stage = "idle" /\ doc'[p].error
  BY <1>1, ReturnRight
<1>4. /\ Op[p] = Saving(p) /\ Op' = [Op EXCEPT ![p] = Saving(p)']
      /\ Shown' = [Shown EXCEPT ![p] = Shows(p)']
  BY <1>3, OneSeen
<1>5. Saving(p)' = NoSave /\ Shows(p)' = "error"
  BY <1>3, SavingSeenNext DEF Shows
<1>6. Saving(p).stage # "done" /\ Saving(p) # NoSave
  <2>1. Saving(p) = SaveAt("begun", doc[p]) \/ Saving(p) = SaveAt("matched", doc[p])
    BY SavingSeen
  <2>2. /\ SaveAt("begun", doc[p]).stage = "begun" /\ SaveAt("begun", doc[p]) # NoSave
        /\ SaveAt("matched", doc[p]).stage = "matched" /\ SaveAt("matched", doc[p]) # NoSave
    BY SaveAtRight
  <2> QED  BY <2>1, <2>2
<1> QED  BY <1>2, <1>4, <1>5, <1>6, EndIs

\* The steps that nobody sees.
LEMMA HiddenKeeps ==
  ASSUME AInv, OnPosix, NEW p \in Proc, UNCHANGED <<target, onDisk, doc>>,
         \A i \in onDisk \ {Absent} : inode'[i] = inode[i],
         call[p].stage \in Checking, call'[p].stage \in Checking,
         \A q \in Proc \ {p} : call'[q] = call[q]
  PROVE  UNCHANGED View
<1>1. UNCHANGED <<File, Recent>>
  BY KeptSeen DEF AInv, NamedOK
<1>2. OnlyOf(p) /\ doc'[p] = doc[p]
  BY DEF OnlyOf
<1>3. Saving(p)' = Saving(p) /\ Shows(p)' = Shows(p)
  BY <1>2, SavingSeen, SavingSeenNext DEF Shows, Checking
<1>4. Op' = Op /\ Shown' = Shown
  BY <1>2, <1>3, OneSeen DEF Op, Shown
<1> QED  BY <1>1, <1>4 DEF View

\* The second look is the match; the first is hidden.
LEMMA CheckKeeps ==
  ASSUME AInv, OnPosix, NEW p \in Proc, FirstCheck(p) \/ SecondCheck(p) \/ Fails(p)
  PROVE  Promise!Next \/ UNCHANGED View
<1> USE DEF At
<1>1. TypesOK /\ target \in onDisk /\ target \in 0..Len(inode)
  BY DEF AInv, NamedOK, TypesOK
<1>2. CASE Abandon(p)
  <2>1. call[p].stage \in Checking \cup Replacing
    BY DEF FirstCheck, SecondCheck, Fails, Checking, Replacing
  <2> QED  BY <1>2, <2>1, AbandonKeeps
<1>3. CASE FirstCheck(p) /\ ~Abandon(p)
  <2>1. /\ Goto(p, "create") /\ UNCHANGED <<inode, target, onDisk, doc>>
        /\ call[p].stage \in Checking
    BY <1>3 DEF FirstCheck, names, Checking
  <2>2. call'[p].stage \in Checking /\ \A q \in Proc \ {p} : call'[q] = call[q]
    BY <1>1, <2>1, GotoRight DEF Stages, Checking
  <2> QED  BY <2>1, <2>2, HiddenKeeps
<1>4. CASE SecondCheck(p) /\ ~Abandon(p)
  <2>1. /\ Goto(p, "replace") /\ UNCHANGED <<inode, target, onDisk, doc>>
        /\ call[p].stage \in Checking /\ Ver(target) = doc[p].version
    BY <1>4 DEF SecondCheck, names, Checking, Unchanged
  <2>2. call'[p].stage = "replace" /\ OnlyOf(p) /\ doc'[p] = doc[p]
    BY <1>1, <2>1, GotoRight DEF Stages, Replacing, OnlyOf
  <2>3. Saving(p) = SaveAt("begun", doc[p]) /\ Saving(p)' = SaveAt("matched", doc[p])
    BY <2>1, <2>2, SavingSeen, SavingSeenNext DEF Replacing
  <2>4. Saving(p)' = [Saving(p) EXCEPT !.stage = "matched"] /\ Saving(p).stage = "begun"
        /\ Saving(p).expected = doc[p].version
    <3>1. /\ [SaveAt("begun", doc[p]) EXCEPT !.stage = "matched"] = SaveAt("matched", doc[p])
          /\ SaveAt("begun", doc[p]).stage = "begun"
          /\ SaveAt("begun", doc[p]).expected = doc[p].version
      BY SaveAtRight
    <3> QED  BY <2>3, <3>1
  <2>5. Op[p] = Saving(p) /\ Op' = [Op EXCEPT ![p].stage = "matched"] /\ Shown' = Shown
    <3>1. Shows(p)' = Shows(p)
      BY <2>1, <2>2 DEF Shows, Checking
    <3>2. /\ Op[p] = Saving(p) /\ Op' = [Op EXCEPT ![p] = Saving(p)']
          /\ Shown[p] = Shows(p) /\ Shown' = [Shown EXCEPT ![p] = Shows(p)']
      BY <2>2, OneSeen
    <3>3. Op' = [Op EXCEPT ![p] = [Op[p] EXCEPT !.stage = "matched"]]
      BY <2>4, <3>2
    <3> QED  BY <3>1, <3>2, <3>3 DEF Shown
  <2>6. Promise!VersionOf(File) = Ver(target)
    BY <1>1, FileSeen, OnPosixSeen
  <2>7. UNCHANGED <<File, Recent>>
    BY <1>1, <2>1, KeptSeen
  <2> QED  BY <2>1, <2>4, <2>5, <2>6, <2>7, MatchIs
<1> QED  BY <1>2, <1>3, <1>4 DEF Fails

\* A temporary file is no file that is shown.
LEMMA TemporaryKeeps ==
  ASSUME AInv, OnPosix, NEW p \in Proc,
         CreateTemporary(p) \/ WriteTemporary(p) \/ SyncTemporary(p)
  PROVE  UNCHANGED View
<1> USE DEF At
<1>1. /\ TypesOK /\ TempOK(p) /\ UNCHANGED <<target, onDisk, doc>>
      /\ call[p].stage \in Checking
  BY DEF AInv, CreateTemporary, WriteTemporary, SyncTemporary, names, Checking
<1>2. call'[p].stage \in Checking /\ \A q \in Proc \ {p} : call'[q] = call[q]
  <2>1. CASE CreateTemporary(p)
    BY <1>1, <2>1 DEF CreateTemporary, TypesOK, Calls, Checking
  <2>2. CASE WriteTemporary(p) \/ SyncTemporary(p)
    <3>1. Goto(p, "sync") \/ Goto(p, "recheck")
      BY <2>2 DEF WriteTemporary, SyncTemporary
    <3> QED  BY <1>1, <3>1, GotoRight DEF Stages, Checking
  <2> QED  BY <2>1, <2>2
<1>3. ASSUME NEW i \in onDisk \ {Absent} PROVE inode'[i] = inode[i]
  <2>1. i \in 1..Len(inode)
    BY <1>1 DEF TypesOK, Absent
  <2>2. CASE CreateTemporary(p)
    BY <1>1, <2>1, <2>2 DEF CreateTemporary, TypesOK
  <2>3. CASE WriteTemporary(p) \/ SyncTemporary(p)
    <3>1. i # call[p].temp
      BY <2>3 DEF WriteTemporary, SyncTemporary, AInv, TempOK, Holding
    <3> QED  BY <1>1, <2>1, <2>3, <3>1 DEF WriteTemporary, SyncTemporary, TypesOK
  <2> QED  BY <2>2, <2>3
<1> QED  BY <1>1, <1>2, <1>3, HiddenKeeps

\* The rename is the replacement: it installs the text under a new version.
LEMMA RenameKeeps ==
  ASSUME AInv, OnPosix, NEW p \in Proc, RenameOver(p) \/ RenameNew(p)
  PROVE  Promise!Next
<1> DEFINE t == call[p].temp
<1>1. /\ TypesOK /\ TempOK(p) /\ call[p].stage = "replace" /\ doc' = doc /\ inode' = inode
      /\ target' = t /\ onDisk' = onDisk \cup {t} /\ Goto(p, "flush")
      /\ Creates(p) => target = Absent
  BY DEF AInv, RenameOver, RenameNew, At, OnPosix, Install, Since
<1>2. /\ t \in 1..Len(inode) /\ t \notin onDisk /\ inode[t].text = doc[p].text
      /\ target \in onDisk /\ target \in 0..Len(inode) /\ t \in 0..Len(inode) /\ t # Absent
  BY <1>1 DEF TempOK, Holding, AInv, NamedOK, TypesOK, Absent
<1>3. \A i \in onDisk' : FileOf(i)' = FileOf(i)
  BY <1>1 DEF FileOf, Ver, NoVersion
<1>4. /\ File = FileOf(target) /\ File' = FileOf(t)
      /\ Recent = {FileOf(i) : i \in onDisk} /\ Recent' = {FileOf(i) : i \in onDisk'}
  <2>1. /\ File = FileOf(target) /\ File' = FileOf(target)'
        /\ Recent = {FileOf(i) : i \in onDisk} /\ Recent' = {FileOf(i) : i \in onDisk}'
    BY OnPosixSeen
  <2>2. FileOf(target)' = FileOf(t)
    BY <1>1 DEF FileOf, Ver, NoVersion
  <2>3. {FileOf(i) : i \in onDisk}' = {FileOf(i) : i \in onDisk'}
    BY <1>3
  <2> QED  BY <2>1, <2>2, <2>3
<1>5. Recent' = Recent \cup {File'}
  BY <1>1, <1>4
<1>6. /\ FileOf(t) # NoVersion /\ FileOf(t).text = doc[p].text /\ FileOf(t).version = Ver(t)
      /\ Ver(t).ino = t
  BY <1>1, <1>2, FileSeen
<1>7. /\ target = Absent => FileOf(target) = NoVersion
      /\ Promise!VersionOf(FileOf(target)) = Ver(target)
  BY <1>1, <1>2, FileSeen
<1>8. Ver(target) # Ver(t)
  <2>1. CASE target = Absent
    BY <1>2, <1>6, <2>1 DEF Ver, NoVersion
  <2>2. CASE target # Absent
    <3>1. Ver(target).ino = target
      BY <1>1, <1>2, <2>2, VersionRight
    <3> QED  BY <1>2, <1>6, <3>1
  <2> QED  BY <2>1, <2>2
<1>9. (Promise!VersionOf(File))' # Promise!VersionOf(File)
  <2>1. (Promise!VersionOf(File))' = Ver(t)
    BY <1>4, <1>6 DEF Promise!VersionOf
  <2> QED  BY <1>4, <1>7, <1>8, <2>1
<1>10. call'[p].stage = "flush" /\ OnlyOf(p) /\ doc'[p] = doc[p]
  BY <1>1, GotoRight DEF Stages, Installed, OnlyOf
<1>11. Saving(p) = SaveAt("matched", doc[p]) /\ Saving(p)' = SaveAt("done", doc[p])
  BY <1>1, <1>10, SavingSeen, SavingSeenNext DEF Replacing, Installed
<1>12. /\ Saving(p)' = [Saving(p) EXCEPT !.stage = "done"] /\ Saving(p).stage = "matched"
       /\ Saving(p).expected = doc[p].version /\ Saving(p).text = doc[p].text
  <2>1. /\ [SaveAt("matched", doc[p]) EXCEPT !.stage = "done"] = SaveAt("done", doc[p])
        /\ SaveAt("matched", doc[p]).stage = "matched"
        /\ SaveAt("matched", doc[p]).expected = doc[p].version
        /\ SaveAt("matched", doc[p]).text = doc[p].text
    BY SaveAtRight
  <2> QED  BY <1>11, <2>1
<1>13. /\ Op[p] = Saving(p) /\ Op' = [Op EXCEPT ![p] = [Op[p] EXCEPT !.stage = "done"]]
       /\ Shown' = Shown
  <2>1. Shows(p)' = Shows(p)
    BY <1>1, <1>10 DEF Shows
  <2>2. /\ Op[p] = Saving(p) /\ Op' = [Op EXCEPT ![p] = Saving(p)']
        /\ Shown[p] = Shows(p) /\ Shown' = [Shown EXCEPT ![p] = Shows(p)']
    BY <1>10, OneSeen
  <2> QED  BY <1>12, <2>1, <2>2 DEF Shown
<1>14. Op[p].expected = NoVersion => File = NoVersion
  BY <1>1, <1>4, <1>7, <1>12, <1>13 DEF Creates
<1>15. File' # NoVersion /\ File'.text = Op[p].text
  BY <1>4, <1>6, <1>12, <1>13
<1> QED  BY <1>5, <1>9, <1>12, <1>13, <1>14, <1>15, ReplaceIs

\* The directory's fsync is Flush, or nothing if it fails.
LEMMA SyncDirectoryKeeps ==
  ASSUME AInv, OnPosix, NEW p \in Proc, SyncDirectory(p)
  PROVE  Promise!Next \/ UNCHANGED View
<1>1. /\ TypesOK /\ call[p].stage = "flush" /\ UNCHANGED <<inode, target, doc>>
      /\ target \in onDisk /\ Goto(p, "stat")
  BY DEF AInv, NamedOK, SyncDirectory, At
<1>2. call'[p].stage = "stat" /\ OnlyOf(p) /\ doc'[p] = doc[p]
  BY <1>1, GotoRight DEF Stages, Installed, OnlyOf
<1>3. Saving(p)' = Saving(p) /\ Shows(p)' = Shows(p)
  BY <1>1, <1>2, SavingSeen, SavingSeenNext DEF Shows, Installed
<1>4. Op' = Op /\ Shown' = Shown
  BY <1>2, <1>3, OneSeen DEF Op, Shown
<1>5. CASE onDisk' = onDisk
  BY <1>1, <1>4, <1>5, KeptSeen DEF View
<1>6. CASE onDisk' = {target}
  <2>1. FileOf(target)' = FileOf(target)
    BY <1>1 DEF FileOf, Ver, NoVersion
  <2>2. {FileOf(i) : i \in onDisk}' = {FileOf(target)}
    BY <1>1, <1>6, <2>1
  <2>3. Recent' = {File} /\ File' = File
    BY <2>1, <2>2, OnPosixSeen
  <2> QED  BY <1>4, <2>3, FlushIs
<1> QED  BY <1>5, <1>6 DEF SyncDirectory

\* The save ends and shows the document.
LEMMA ReadBackKeeps ==
  ASSUME AInv, OnPosix, NEW p \in Proc, ReadBack(p)
  PROVE  Promise!Next
<1>1. /\ TypesOK /\ call[p].stage = "stat" /\ UNCHANGED <<inode, target, onDisk>>
      /\ target \in onDisk /\ call' = [call EXCEPT ![p] = NoCall("idle")]
  BY DEF AInv, NamedOK, ReadBack, At, names
<1>2. call'[p].stage = "idle" /\ \A q \in Proc \ {p} : call'[q] = call[q]
  BY <1>1, NoCallRight DEF Stages
<1>3. ~doc'[p].error /\ OnlyOf(p)
  BY <1>1, <1>2 DEF ReadBack, TypesOK, Documents, OnlyOf
<1>4. Saving(p) = SaveAt("done", doc[p]) /\ Saving(p)' = NoSave /\ Shows(p)' = "document"
  BY <1>1, <1>2, <1>3, SavingSeen, SavingSeenNext DEF Shows, Installed
<1>5. /\ Op[p] = Saving(p) /\ Op' = [Op EXCEPT ![p] = Saving(p)']
      /\ Shown' = [Shown EXCEPT ![p] = Shows(p)']
  BY <1>3, OneSeen
<1>6. SaveAt("done", doc[p]).stage = "done" /\ SaveAt("done", doc[p]) # NoSave
  BY SaveAtRight
<1>7. UNCHANGED <<File, Recent>>
  BY <1>1, KeptSeen
<1> QED  BY <1>4, <1>5, <1>6, <1>7, EndIs

\* Every step of a save is a step of the promise, or hidden.
LEMMA StorageKeeps ==
  ASSUME AInv, OnPosix, NEW p \in Proc, Storage(p)
  PROVE  Promise!Next \/ UNCHANGED View
<1>1. ~(\/ ReplaceFile(p) \/ ReplaceFileLoses(p) \/ LookUp(p) \/ BackUp(p) \/ Move(p)
        \/ InstallBackedUp(p) \/ InstallFails(p) \/ Restore(p) \/ DiscardBackup(p))
  BY DEF AInv, BackupOK, StageOK, BackedUp, OnPosix, At, ReplaceFile, ReplaceFileLoses, LookUp,
         BackUp, Move, InstallBackedUp, InstallFails, Restore, DiscardBackup
<1> QED
  BY <1>1, CheckKeeps, TemporaryKeeps, RenameKeeps, SyncDirectoryKeeps, ReadBackKeeps DEF Storage

\* A process that dies is seen to die, saving or not.
LEMMA CrashKeeps ==
  ASSUME AInv, OnPosix, NEW p \in Proc, Crash(p)
  PROVE  Promise!Next
<1>1. /\ TypesOK /\ UNCHANGED <<inode, target, onDisk>> /\ target \in onDisk
      /\ call' = [call EXCEPT ![p] = NoCall("closed")] /\ doc' = [doc EXCEPT ![p] = Untitled]
  BY DEF AInv, NamedOK, Crash, names
<1>2. call'[p].stage = "closed" /\ \A q \in Proc \ {p} : call'[q] = call[q]
  BY <1>1, NoCallRight DEF Stages
<1>3. OnlyOf(p)
  BY <1>1, <1>2 DEF OnlyOf, TypesOK
<1>4. Saving(p)' = NoSave /\ Shows(p)' = "nothing"
  BY <1>2, SavingSeenNext DEF Shows
<1>5. UNCHANGED <<File, Recent>>
  BY <1>1, KeptSeen
<1> QED  BY <1>3, <1>4, <1>5, OneSeen, DieIs

\* Another program makes the file a different one.
LEMMA OtherKeeps ==
  ASSUME AInv, AInv', OnPosix, UNCHANGED <<doc, call>>, FileOf(target)' # FileOf(target),
         \A i \in onDisk' \ {target'} : i \in onDisk /\ (i # Absent => inode'[i] = inode[i])
  PROVE  Promise!Next
<1>1. target' \in onDisk' /\ (target' # Absent => inode'[target'].text \in Text)
  BY DEF AInv, NamedOK, Durable, OnPosix
<1>2. ASSUME NEW i \in onDisk' \ {target'} PROVE i \in onDisk /\ FileOf(i)' = FileOf(i)
  BY <1>2 DEF FileOf, Ver, NoVersion
<1>3. /\ File = FileOf(target) /\ File' = FileOf(target)'
      /\ Recent = {FileOf(i) : i \in onDisk} /\ Recent' = {FileOf(i) : i \in onDisk}'
  BY OnPosixSeen
<1>4. File' \in Recent' /\ Recent' \subseteq Recent \cup {File'}
  <2>1. FileOf(target)' \in {FileOf(i) : i \in onDisk}'
    BY <1>1
  <2>2. ASSUME NEW f \in {FileOf(i) : i \in onDisk}' PROVE f \in Recent \cup {File'}
    <3>1. PICK i \in onDisk' : f = FileOf(i)'
      BY <2>2
    <3>2. CASE i = target'
      BY <1>3, <3>1, <3>2 DEF FileOf, Ver, NoVersion
    <3>3. CASE i # target'
      BY <1>2, <1>3, <3>1, <3>3
    <3> QED  BY <3>2, <3>3
  <2> QED  BY <1>3, <2>1, <2>2
<1>5. (Promise!Whole(File))'
  <2>1. CASE target' = Absent
    BY <1>3, <2>1 DEF FileOf, Promise!Whole
  <2>2. CASE target' # Absent
    BY <1>1, <1>3, <2>2 DEF FileOf, Promise!Whole
  <2> QED  BY <2>1, <2>2
<1>6. Op' = Op /\ Shown' = Shown
  BY OnPosixSeen DEF Saving, Shows
<1> QED  BY <1>3, <1>4, <1>5, <1>6, OtherIs

\* A file put in its place is a different one.
LEMMA OtherReplacesKeeps ==
  ASSUME AInv, OnPosix, OtherReplaces
  PROVE  Promise!Next
<1> DEFINE n == Len(inode)
<1>1. PICK f : inode' = Append(inode, f)
  BY DEF OtherReplaces
<1>2. /\ TypesOK /\ n \in Nat /\ UNCHANGED <<doc, call>> /\ target \in 0..n
      /\ target' = n + 1 /\ onDisk' = onDisk \cup {n + 1} /\ onDisk \subseteq 0..n
      /\ \A i \in 1..n : inode'[i] = inode[i]
  BY <1>1 DEF AInv, TypesOK, OtherReplaces, OnPosix, Since
<1>3. target' # target /\ target' # Absent
  BY <1>2 DEF Absent
<1>4. FileOf(target)' # FileOf(target)
  <2>1. FileOf(target)' = [version |-> [ino |-> target', stamp |-> inode'[target'].stamp],
                           text |-> inode'[target'].text]
    BY <1>3 DEF FileOf, Ver
  <2>2. CASE target = Absent
    <3>1. FileOf(target) = [ino |-> Absent, stamp |-> 0]
      BY <2>2 DEF FileOf, NoVersion
    <3>2. DOMAIN FileOf(target) = {"ino", "stamp"} /\ DOMAIN FileOf(target)' = {"version", "text"}
      BY <2>1, <3>1
    <3> QED  BY <3>2
  <2>3. CASE target # Absent
    <3>1. FileOf(target).version = Ver(target) /\ Ver(target).ino = target
      BY <1>2, <2>3, FileSeen
    <3>2. FileOf(target)'.version.ino = target'
      BY <2>1
    <3> QED  BY <1>3, <3>1, <3>2
  <2> QED  BY <2>2, <2>3
<1>5. ASSUME NEW i \in onDisk' \ {target'}
      PROVE  i \in onDisk /\ (i # Absent => inode'[i] = inode[i])
  <2>1. i \in onDisk /\ i \in 0..n
    BY <1>2
  <2> HIDE DEF n
  <2> QED  BY <1>2, <2>1 DEF Absent
<1> QED  BY <1>2, <1>4, <1>5, OtherReplacesRight, OtherKeeps

\* A file edited in place has a new version.
LEMMA OtherEditsKeeps ==
  ASSUME AInv, OnPosix, OtherEdits
  PROVE  Promise!Next
<1>1. /\ TypesOK /\ target # Absent /\ target \in 1..Len(inode)
      /\ UNCHANGED <<target, onDisk, doc, call>>
  BY DEF AInv, TypesOK, OtherEdits, names, Absent
<1>2. PICK text \in Text :
        inode' = [inode EXCEPT ![target].text = text, ![target].stamp = @ + 1]
  BY DEF OtherEdits
<1>3. inode[target] \in Files /\ inode[target].stamp \in Nat
  <2>1. inode[target] \in Files
    BY <1>1 DEF TypesOK
  <2>2. inode[target].stamp \in 0..MaxStamp
    BY <2>1 DEF Files
  <2> QED  BY <2>1, <2>2, ConstantsAssumption
<1>4. inode'[target].stamp = inode[target].stamp + 1
  BY <1>1, <1>2, <1>3 DEF TypesOK, Files
<1>5. FileOf(target)' # FileOf(target)
  <2>1. /\ FileOf(target).version.stamp = inode[target].stamp
        /\ FileOf(target)'.version.stamp = inode'[target].stamp
    BY <1>1 DEF FileOf, Ver
  <2> QED  BY <1>3, <1>4, <2>1
<1>6. ASSUME NEW i \in onDisk' \ {target'}
      PROVE  i \in onDisk /\ (i # Absent => inode'[i] = inode[i])
  <2>1. i \in onDisk /\ i # target
    BY <1>1
  <2>2. i # Absent => i \in DOMAIN inode
    BY <1>1, <2>1 DEF TypesOK, Absent
  <2> QED  BY <1>2, <2>1, <2>2
<1> QED  BY <1>1, <1>5, <1>6, OtherEditsRight, OtherKeeps

\* A file removed is none.
LEMMA OtherRemovesKeeps ==
  ASSUME AInv, OnPosix, OtherRemoves
  PROVE  Promise!Next
<1>1. /\ TypesOK /\ UNCHANGED <<inode, doc, call>> /\ target # Absent /\ target' = Absent
      /\ onDisk' = onDisk \cup {Absent} /\ target \in 0..Len(inode)
  BY DEF AInv, TypesOK, OtherRemoves, OnPosix, Since
<1>2. FileOf(target)' # FileOf(target)
  BY <1>1, FileSeen DEF FileOf
<1>3. \A i \in onDisk' \ {target'} : i \in onDisk /\ (i # Absent => inode'[i] = inode[i])
  BY <1>1
<1> QED  BY <1>1, <1>2, <1>3, OtherRemovesRight, OtherKeeps

\* After a power failure the file is one it recently was.
LEMMA PowerFailsKeeps ==
  ASSUME AInv, OnPosix, PowerFails
  PROVE  Promise!Next
<1>1. /\ TypesOK /\ target' \in onDisk /\ onDisk' = {target'} /\ DOMAIN inode = 1..Len(inode)
      /\ call' = [q \in Proc |-> NoCall("closed")]
  BY DEF AInv, TypesOK, PowerFails
<1>2. target' # Absent => inode'[target'] = inode[target']
  <2> SUFFICES ASSUME target' # Absent PROVE inode'[target'] = inode[target']
    OBVIOUS
  <2>1. inode[target'].synced /\ target' \in DOMAIN inode
    BY <1>1 DEF AInv, NamedOK, Durable, TypesOK, Absent, OnPosix
  <2> QED  BY <2>1 DEF PowerFails
<1>3. File' \in Recent /\ Recent' = {File'}
  <2>1. /\ File' = FileOf(target)' /\ Recent = {FileOf(i) : i \in onDisk}
        /\ Recent' = {FileOf(i) : i \in onDisk}'
    BY OnPosixSeen
  <2>2. {FileOf(i) : i \in onDisk}' = {FileOf(target)'}
    BY <1>1 DEF FileOf, Ver, NoVersion
  <2>3. FileOf(target)' \in {FileOf(i) : i \in onDisk}
    BY <1>1, <1>2 DEF FileOf, Ver, NoVersion
  <2> QED  BY <2>1, <2>2, <2>3
<1>4. \A q \in Proc : call'[q].stage = "closed"
  BY <1>1 DEF NoCall
<1>5. \A q \in Proc : Saving(q)' = NoSave /\ Shows(q)' = "nothing"
  BY <1>4, SavingSeenNext DEF Shows
<1> QED  BY <1>3, <1>5, OnPosixSeen, PowerFailsIs

-----------------------------------------------------------------------------
\* The adapter is that of the build.
LEMMA AdapterStays ==
  ASSUME Next
  PROVE  adapter' = adapter
<1>1. ASSUME NEW p \in Proc, Notepad(p) PROVE adapter' = adapter
  BY <1>1 DEF Notepad, New, Open, Read, ReadFails, Edit, Save, SaveAs, Close, Abandon, env
<1>2. ASSUME NEW p \in Proc, Storage(p) PROVE adapter' = adapter
  <2> USE DEF Abandon, Install, env
  <2>1. CASE \/ FirstCheck(p) \/ CreateTemporary(p) \/ WriteTemporary(p) \/ SyncTemporary(p)
             \/ SecondCheck(p) \/ Fails(p)
    BY <2>1 DEF FirstCheck, CreateTemporary, WriteTemporary, SyncTemporary, SecondCheck, Fails
  <2>2. CASE \/ RenameOver(p) \/ ReplaceFile(p) \/ ReplaceFileLoses(p) \/ RenameNew(p)
             \/ LookUp(p) \/ Move(p)
    BY <2>2 DEF RenameOver, ReplaceFile, ReplaceFileLoses, RenameNew, LookUp, Move
  <2>3. CASE \/ BackUp(p) \/ InstallBackedUp(p) \/ InstallFails(p) \/ Restore(p)
             \/ DiscardBackup(p) \/ SyncDirectory(p) \/ ReadBack(p)
    BY <2>3 DEF BackUp, InstallBackedUp, InstallFails, Restore, DiscardBackup, SyncDirectory,
                ReadBack
  <2> QED  BY <1>2, <2>1, <2>2, <2>3 DEF Storage
<1>3. ASSUME NEW p \in Proc, Crash(p) PROVE adapter' = adapter
  BY <1>3 DEF Crash
<1>4. OtherReplaces \/ OtherEdits \/ OtherRemoves \/ PowerFails => adapter' = adapter
  BY DEF OtherReplaces, OtherEdits, OtherRemoves, PowerFails, env
<1> QED  BY <1>1, <1>2, <1>3, <1>4 DEF Next

\* The promise begins with the file as it is.
LEMMA InitKeeps ==
  ASSUME Init
  PROVE  Promise!Init
<1>1. /\ call = [p \in Proc |-> NoCall("closed")] /\ onDisk = {target}
      /\ target # Absent => inode[target].text \in Text
  BY ConstantsAssumption DEF Init, Absent
<1>2. \A p \in Proc : call[p].stage = "closed"
  BY <1>1 DEF NoCall
<1>3. \A p \in Proc : Saving(p) = NoSave /\ Shows(p) = "nothing"
  BY <1>2, SavingSeen DEF Shows
<1>4. Op = [p \in Proc |-> NoSave] /\ Shown = [p \in Proc |-> "nothing"]
  BY <1>3 DEF Op, Shown, Posix, NoSave
<1>5. Recent = {File}
  BY <1>1 DEF Recent, File, Posix
<1>6. Promise!Whole(File)
  BY <1>1 DEF File, Posix, FileOf, Promise!Whole
<1> QED
  BY <1>4, <1>5, <1>6 DEF Promise!Init, Promise!Idle, Promise!Whole, Op, Shown, Recent, File, NoSave

\* The POSIX adapter, used by any number of processes beside other programs
\* and through failures, saves as SavedFile promises.
THEOREM PromiseKept == Spec => SavesAsPromised
<1>1. ASSUME AInv, [Next]_vars PROVE [Promise!Next]_(Promise!vars)
  <2>1. CASE UNCHANGED vars
    <3>1. UNCHANGED View
      BY <2>1 DEF vars, names, env, View, File, Recent, Op, Shown, Posix, FileOf, Ver, Saving, Shows
    <3> QED  BY <3>1, StutterIs
  <2>2. CASE Next /\ adapter # "posix"
    <3>1. adapter' = adapter
      BY <2>2, AdapterStays
    <3> QED  BY <2>2, <3>1, Elsewhere, StutterIs
  <2>3. CASE Next /\ adapter = "posix"
    <3>1. OnPosix
      BY <2>3, AdapterStays DEF OnPosix
    <3> QED
      BY <1>1, <2>3, <3>1, NotepadKeeps, StorageKeeps, CrashKeeps, OtherReplacesKeeps,
         OtherEditsKeeps, OtherRemovesKeeps, PowerFailsKeeps, StutterIs DEF Next
  <2> QED  BY <1>1, <2>1, <2>2, <2>3
<1> QED  BY <1>1, InitKeeps, SavesInductive, PTL DEF Spec, SavesAsPromised, Promise!Spec
=============================================================================
