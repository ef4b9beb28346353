---------------------------- MODULE FileManager ----------------------------
(***************************************************************************)
(* The File Manager (src/apps/filemanager_app.c) and the folder operations *)
(* of the storage adapter it calls (retro_fs_posix.c, retro_fs_win32.c,    *)
(* retro_fs_djgpp.c): one action per key, and one per call of the          *)
(* operating system, between which other programs create, rename and       *)
(* remove entries.  Any call may fail.                                     *)
(*                                                                         *)
(* "native" is the POSIX adapter where renameat2 refuses to replace,       *)
(* "portable" where it is missing or not supported.                        *)
(***************************************************************************)
EXTENDS Paths, Integers

CONSTANTS
  Order,       \* names of files and folders, as strcmp orders them
  Hidden,      \* those that begin with a dot
  Adapters,
  Forms,       \* of each adapter, rooted paths of many forms,
  Starts,      \* those of the folder the program starts in,
  Firsts,      \* and what may be in it: sequences of items
  Rows,        \* FM_VISIBLE_ROWS
  Page,        \* FM_PAGE_STEP
  MaxEntries,  \* FM_MAX_ENTRIES
  MaxObject,   \* bound on the files and folders made
  MaxOthers    \* bound on what other programs do

Up       == ".."
FileNames == ToSet(Order) \ {Up}
None     == "none"     \* no name, or a text that is not the name of a file

ASSUME FileManagerAssumption ==
  /\ Order \in Seq(STRING) /\ \A n \in FileNames : IsName(n)
  /\ Up \in ToSet(Order) /\ Hidden \subseteq FileNames /\ None \notin FileNames
  /\ Adapters \subseteq {"native", "portable", "win32", "djgpp"}
  /\ {Rows, Page, MaxEntries} \subseteq Nat \ {0}
  /\ Firsts \subseteq Seq([name : FileNames, kind : {"file", "folder"}])
  /\ \A items \in Firsts : \A i, j \in DOMAIN items : items[i].name = items[j].name => i = j
  /\ \A a \in Adapters : \A path \in Starts[a] :
       /\ path \in Seq(STRING) /\ Rooted(a, path)
       /\ \A i \in (RootEnd(a, path) + 1)..Len(path) : ~IsName(path[i])
  /\ \A a \in DOMAIN Forms : \A path \in Forms[a] : path \in Seq(STRING) /\ Rooted(a, path)

VARIABLES
  adapter,
  kinds,       \* of each object, "file" or "folder"; the first is the start
  entries,     \* of the folders: [in, name, what]
  fm,          \* FileManagerState
  call,        \* what runs: its stage and its locals
  acts,        \* how much other programs did,
  touched,     \* the objects they touched during a call,
  current,     \* and FALSE if they did anything since the folder was listed
  missed       \* names the list lacks because calls of the program failed

files == <<kinds, entries>>
world == <<acts, touched, current, missed>>
vars  == <<adapter, files, fm, call, world>>

-----------------------------------------------------------------------------
(***************************************************************************)
(* Folders.                                                                *)
(***************************************************************************)
Item(name, kind) == [name |-> name, kind |-> kind]

\* What a name in a folder refers to; 0 is nothing.
Find(folder, name) ==
  LET found == {e \in entries : e.in = folder /\ e.name = name}
  IN  IF found = {} THEN 0 ELSE (CHOOSE e \in found : TRUE).what

Is(object, kind) == object # 0 /\ kinds[object] = kind

Inside(folder, name) == IF Is(folder, "folder") THEN Find(folder, name) ELSE 0

\* What a path refers to, up to each of its separators and names.
Way(path) ==
  LET way[i \in 0..Len(path)] ==
        IF i = 0 THEN 1
        ELSE IF i <= RootEnd(adapter, path) \/ ~IsName(path[i]) THEN way[i - 1]
        ELSE Inside(way[i - 1], path[i])
  IN  way

At(path) == Way(path)[Len(path)]

NamesOf(folder) == {e.name : e \in {e \in entries : e.in = folder}}
Cwd             == At(fm.cwd)
Target(name)    == At(Join(adapter, fm.cwd, name))
Entry(name)     == {e \in entries : e.in = Cwd /\ e.name = name}
NewEntry(name, object) == [in |-> Cwd, name |-> name, what |-> object]

\* entry_compare: folders first, then by name.
Place(name)  == CHOOSE i \in DOMAIN Order : Order[i] = name
Before(a, b) == IF a.kind = b.kind THEN Place(a.name) < Place(b.name) ELSE a.kind = "folder"

Sorted(items) ==
  [i \in 1..Cardinality(items) |->
     CHOOSE item \in items : Cardinality({other \in items : Before(other, item)}) = i - 1]

-----------------------------------------------------------------------------
(***************************************************************************)
(* The view.                                                               *)
(***************************************************************************)
\* Mutant: the selection may be below the last row.
ClampViewLate(f) ==
  LET count    == Len(f.items)
      selected == IF f.selected >= count THEN count - 1 ELSE f.selected
      scroll   == IF selected < f.scroll THEN selected
                  ELSE IF selected > f.scroll + Rows THEN selected - Rows + 1 ELSE f.scroll
      most     == IF count > Rows THEN count - Rows ELSE 0
  IN  IF count = 0 THEN [f EXCEPT !.selected = 0, !.scroll = 0]
      ELSE [f EXCEPT !.selected = selected, !.scroll = IF scroll > most THEN most ELSE scroll]

ClampView(f) ==
  LET count    == Len(f.items)
      selected == IF f.selected >= count THEN count - 1 ELSE f.selected
      scroll   == IF selected < f.scroll THEN selected
                  ELSE IF selected >= f.scroll + Rows THEN selected - Rows + 1 ELSE f.scroll
      most     == IF count > Rows THEN count - Rows ELSE 0
  IN  IF count = 0 THEN [f EXCEPT !.selected = 0, !.scroll = 0]
      ELSE [f EXCEPT !.selected = selected, !.scroll = IF scroll > most THEN most ELSE scroll]

SelectedName(f) == IF f.selected < Len(f.items) THEN f.items[f.selected + 1].name ELSE None
Places(f, name) == {i \in 0..(Len(f.items) - 1) : f.items[i + 1].name = name}

SelectName(f, name) ==
  ClampView(IF Places(f, name) = {} THEN f ELSE [f EXCEPT !.selected = Min(Places(f, name))])

-----------------------------------------------------------------------------
(***************************************************************************)
(* Calls.                                                                  *)
(***************************************************************************)
NoCall == [stage |-> "idle", name |-> None, to |-> None, names |-> {},
           keep |-> None, old |-> 0, preserve |-> FALSE, made |-> 0]

Idle == call.stage = "idle"
Goto(stage, name, to, made) ==
  /\ call' = [NoCall EXCEPT !.stage = stage, !.name = name, !.to = to, !.made = made]
  /\ UNCHANGED <<adapter, fm, world>>

\* fm_reload: the list is emptied and read again; then "to" is selected, or
\* with preserve what was selected.
Reload(f, preserve, to) ==
  /\ call' = [NoCall EXCEPT !.stage = IF adapter \in {"win32", "djgpp"} THEN "look" ELSE "open",
                            !.keep = IF preserve THEN SelectedName(f) ELSE None,
                            !.old = IF preserve THEN f.selected ELSE 0,
                            !.preserve = preserve, !.to = to]
  /\ fm' = [f EXCEPT !.items = <<>>, !.selected = 0, !.scroll = 0, !.error = FALSE]
  /\ touched' = {} /\ current' = TRUE /\ missed' = {} /\ UNCHANGED <<adapter, acts>>

Stop(f) == fm' = f /\ call' = NoCall /\ touched' = {} /\ UNCHANGED <<adapter, acts>>
Fail    == Stop([fm EXCEPT !.error = TRUE])

-----------------------------------------------------------------------------
(***************************************************************************)
(* retro_fs_list.  Win32 and DOS look at the folder and at its parent      *)
(* first; every entry is looked at again by its path.                      *)
(***************************************************************************)
LookAtFolder ==
  /\ call.stage = "look" /\ Is(Cwd, "folder") /\ At(Parent(adapter, fm.cwd)) # 0
  /\ call' = [call EXCEPT !.stage = "open"] /\ UNCHANGED <<adapter, files, fm, world>>

ReadNames ==
  /\ call.stage = "open" /\ Is(Cwd, "folder") /\ Cardinality(NamesOf(Cwd)) + 1 <= MaxEntries
  /\ call' = [call EXCEPT !.stage = "entries", !.names = NamesOf(Cwd)]
  /\ UNCHANGED <<adapter, files, fm, world>>

\* One that is gone by now is not read any more, or it fails the listing.
Looked == {Item(n, kinds[Target(n)]) : n \in {n \in call.names : Target(n) # 0}}

Shown(items, hidden) == {item \in items : hidden \/ item.name \notin Hidden}

\* The end of fm_reload, and of fm_commit_prompt if that made the call.
ShowEntries ==
  LET f    == [fm EXCEPT !.items = Sorted(Shown(Looked \cup {Item(Up, "folder")}, fm.hidden))]
      kept == IF Places(f, call.keep) # {} THEN Min(Places(f, call.keep))
              ELSE IF call.old < Len(f.items) THEN call.old ELSE Len(f.items) - 1
      g    == ClampView(IF call.preserve THEN [f EXCEPT !.selected = kept] ELSE f)
  IN  /\ call.stage = "entries"
      /\ Stop(IF call.to = None THEN g ELSE SelectName(g, call.to))
      /\ UNCHANGED <<files, current, missed>>

\* Mutant: the rows that were read before the failure are left in the list.
ListFailsHalfRead ==
  /\ call.stage \in {"look", "open", "entries"}
  /\ Stop([fm EXCEPT !.error = TRUE, !.items = Sorted(Shown(Looked, fm.hidden))])
  /\ missed' = ToSet(Order) /\ UNCHANGED <<files, current>>

\* The list stays empty.
ListFails ==
  /\ call.stage \in {"look", "open", "entries"} /\ Fail
  /\ missed' = ToSet(Order) /\ UNCHANGED <<files, current>>

PosixList == adapter \in {"native", "portable"} /\ (ReadNames \/ ShowEntries \/ ListFails)
WinList   == adapter = "win32" /\ (LookAtFolder \/ ReadNames \/ ShowEntries \/ ListFails)
DosList   == adapter = "djgpp" /\ (LookAtFolder \/ ReadNames \/ ShowEntries \/ ListFails)

-----------------------------------------------------------------------------
(***************************************************************************)
(* Keys in the list.                                                       *)
(***************************************************************************)
Browsing == Idle /\ fm.prompt = "none"

MoveSelection ==
  LET last == IF fm.items = <<>> THEN 0 ELSE Len(fm.items) - 1
  IN  /\ Browsing
      /\ \E to \in {0, last} \cup {fm.selected + d : d \in {1, Page, -1, -Page}} :
           fm' = ClampView([fm EXCEPT !.selected = IF to < 0 THEN 0 ELSE IF to > last THEN last ELSE to])
      /\ UNCHANGED <<adapter, files, call, world>>

\* Backspace, and Enter on "..".
GoUp ==
  Browsing /\ Reload([fm EXCEPT !.cwd = Parent(adapter, @)], FALSE, None) /\ UNCHANGED files

Refresh      == Browsing /\ Reload(fm, TRUE, None) /\ UNCHANGED files
ToggleHidden == Browsing /\ Reload([fm EXCEPT !.hidden = ~@], TRUE, None) /\ UNCHANGED files

\* A file is given to a notepad, which changes nothing here.
EnterFolder ==
  /\ Browsing /\ SelectedName(fm) \in FileNames /\ Is(Target(SelectedName(fm)), "folder")
  /\ Reload([fm EXCEPT !.cwd = Join(adapter, @, SelectedName(fm))], FALSE, None)
  /\ UNCHANGED files

StartPrompt(mode) ==
  /\ Browsing
  /\ IF mode = "rename" /\ SelectedName(fm) \notin FileNames THEN fm' = [fm EXCEPT !.error = TRUE]
     ELSE \E text \in {None} \cup (IF mode = "rename" THEN {SelectedName(fm)} ELSE {}) :
            fm' = [fm EXCEPT !.prompt = mode, !.input = text, !.error = FALSE]
  /\ UNCHANGED <<adapter, files, call, world>>

-----------------------------------------------------------------------------
(***************************************************************************)
(* Keys in the prompt, and what they make the adapter do.                  *)
(***************************************************************************)
Closed   == [fm EXCEPT !.prompt = "none", !.input = None]
SameName == fm.prompt = "rename" /\ fm.input = SelectedName(fm)

Type(text) ==
  /\ Idle /\ fm.prompt # "none" /\ fm' = [fm EXCEPT !.input = text, !.error = FALSE]
  /\ UNCHANGED <<adapter, files, call, world>>

\* Escape, and Enter on the name the entry has.
Cancel ==
  /\ Idle /\ fm.prompt # "none" /\ fm' = [Closed EXCEPT !.error = FALSE]
  /\ UNCHANGED <<adapter, files, call, world>>

\* The first call a key makes fails, or the key asks for what cannot be.
KeyFails == Idle /\ ~SameName /\ Fail /\ UNCHANGED <<files, current, missed>>

Commits(mode) == Idle /\ fm.prompt = mode /\ fm.input # None /\ ~SameName

Done(to) == Reload(Closed, FALSE, to)

Make(kind) ==
  /\ Target(fm.input) = 0 /\ Is(Cwd, "folder") /\ Len(kinds) < MaxObject
  /\ kinds' = Append(kinds, kind)
  /\ entries' = entries \cup {NewEntry(fm.input, Len(kinds'))}

MakeFolder == Commits("folder") /\ Make("folder") /\ Done(fm.input)

\* The new file may turn out not to be on the disk, and is removed again.
MakeFile ==
  /\ Commits("file") /\ Make("file")
  /\ Done(fm.input) \/ Goto("undo", None, fm.input, Len(kinds'))

\* rename(2): what the new name had been is gone.
Replaceable(old, new) ==
  /\ old # 0 /\ kinds[old] \in (IF new = 0 THEN {"file", "folder"} ELSE {kinds[new]})
  /\ \A e \in entries : e.in # new

MoveOver(name, to) ==
  /\ Replaceable(Target(name), Target(to))
  /\ entries' = (entries \ (Entry(name) \cup Entry(to))) \cup {NewEntry(to, Target(name))}
  /\ UNCHANGED kinds /\ Done(to)

RenameAtOnce ==
  Commits("rename") /\ Target(fm.input) = 0 /\ MoveOver(SelectedName(fm), fm.input)

\* lstat or stat of the source.
LookAtSource(next) ==
  /\ Commits("rename") /\ Target(SelectedName(fm)) # 0
  /\ Goto(next, SelectedName(fm), fm.input, 0) /\ UNCHANGED files

LookAtDestination ==
  /\ call.stage = "destination" /\ Target(call.to) = 0
  /\ Goto("move", call.name, call.to, 0) /\ UNCHANGED files

Move == call.stage = "move" /\ MoveOver(call.name, call.to)

\* Mutant: the file is renamed over whatever the new name is.
LinkReplaces == call.stage = "link" /\ MoveOver(call.name, call.to)

Link ==
  /\ call.stage = "link" /\ Is(Target(call.name), "file") /\ Target(call.to) = 0
  /\ entries' = entries \cup {NewEntry(call.to, Target(call.name))} /\ UNCHANGED kinds
  /\ Goto("unlink", call.name, call.to, 0)

RemoveFile(name) ==
  Is(Target(name), "file") /\ entries' = entries \ Entry(name) /\ UNCHANGED kinds

Unlink       == call.stage = "unlink" /\ RemoveFile(call.name) /\ Done(call.to)
UnlinkFails  == call.stage = "unlink" /\ Goto("undo", call.name, call.to, 0) /\ UNCHANGED files
Undo ==
  call.stage = "undo" /\ RemoveFile(call.to) /\ Fail /\ UNCHANGED <<current, missed>>

\* The new name stays, and the folder is not listed again.
UndoFails ==
  /\ call.stage = "undo" /\ Fail
  /\ missed' = missed \cup {call.to} /\ UNCHANGED <<files, current>>

RenameFails ==
  /\ call.stage \in {"link", "destination", "move"} /\ Fail
  /\ UNCHANGED <<files, current, missed>>

NativeRename == adapter = "native" /\ RenameAtOnce
WinRename    == adapter = "win32" /\ RenameAtOnce

PortableRename ==
  /\ adapter = "portable"
  /\ \/ LookAtSource(IF Is(Target(SelectedName(fm)), "file") THEN "link" ELSE "destination")
     \/ Link \/ Unlink \/ UnlinkFails \/ LookAtDestination \/ Move \/ RenameFails

DosRename ==
  adapter = "djgpp" /\ (LookAtSource("destination") \/ LookAtDestination \/ Move \/ RenameFails)

-----------------------------------------------------------------------------
(***************************************************************************)
(* Other programs.                                                         *)
(***************************************************************************)
Other(objects) ==
  /\ acts < MaxOthers /\ acts' = acts + 1 /\ current' = FALSE
  /\ touched' = IF Idle THEN {} ELSE touched \cup objects
  /\ UNCHANGED <<adapter, fm, call, missed>>

OtherMakes ==
  /\ Len(kinds) < MaxObject
  /\ \E folder \in {o \in DOMAIN kinds : kinds[o] = "folder"}, name \in FileNames, kind \in {"file", "folder"} :
       /\ Find(folder, name) = 0
       /\ kinds' = Append(kinds, kind)
       /\ entries' = entries \cup {[in |-> folder, name |-> name, what |-> Len(kinds')]}
  /\ Other({Len(kinds')})

OtherRemoves ==
  \E e \in entries :
    /\ \A inside \in entries : inside.in # e.what
    /\ entries' = entries \ {e} /\ UNCHANGED kinds /\ Other({e.what})

OtherRenames ==
  \E e \in entries, name \in FileNames :
    LET over == {o \in entries : o.in = e.in /\ o.name = name}
    IN  /\ name # e.name /\ Replaceable(e.what, Find(e.in, name)) /\ e.what # Find(e.in, name)
        /\ entries' = (entries \ (over \cup {e})) \cup {[e EXCEPT !.name = name]}
        /\ UNCHANGED kinds /\ Other({e.what} \cup {o.what : o \in over})

-----------------------------------------------------------------------------
\* What the list of a folder should have.
ItemsOf(folder, hidden) ==
  LET names == {n \in NamesOf(folder) : hidden \/ n \notin Hidden}
  IN  {Item(Up, "folder")} \cup {Item(n, kinds[Find(folder, n)]) : n \in names}

\* The program has started in a folder, and listed it.
Init ==
  /\ adapter \in Adapters
  /\ \E items \in Firsts :
       /\ kinds = <<"folder">> \o [i \in DOMAIN items |-> items[i].kind]
       /\ entries = {[in |-> 1, name |-> items[i].name, what |-> i + 1] : i \in DOMAIN items}
  /\ \E cwd \in Starts[adapter] :
       fm = [cwd |-> cwd, items |-> Sorted(ItemsOf(1, FALSE)), selected |-> 0, scroll |-> 0,
             hidden |-> FALSE, error |-> FALSE, prompt |-> "none", input |-> None]
  /\ call = NoCall /\ acts = 0 /\ touched = {} /\ current = TRUE /\ missed = {}

Next ==
  \/ PosixList \/ WinList \/ DosList
  \/ NativeRename \/ WinRename \/ PortableRename \/ DosRename \/ Undo \/ UndoFails
  \/ MakeFolder \/ MakeFile \/ Cancel \/ KeyFails
  \/ MoveSelection \/ GoUp \/ Refresh \/ ToggleHidden \/ EnterFolder
  \/ \E mode \in {"rename", "folder", "file"} : StartPrompt(mode)
  \/ \E text \in FileNames \cup {None} : Type(text)
  \/ OtherMakes \/ OtherRemoves \/ OtherRenames

Spec == Init /\ [][Next]_vars

-----------------------------------------------------------------------------
(***************************************************************************)
(* Properties.                                                             *)
(***************************************************************************)
Named == {e.what : e \in entries}

\* The way to the folder goes through something others touched during the
\* call: its path may name another folder than when the call looked.
Diverted == \E i \in DOMAIN Way(fm.cwd) : Way(fm.cwd)[i] \in touched

\* The File Manager never takes the last name of a file or folder, unless
\* another program changed that one, or a folder on the way to it, while the
\* rename or creation ran (then the portable and DOS adapters may), or it is
\* the new file it takes back (retro_fs.h: create and rename never
\* intentionally replace a destination).
NothingLost ==
  [][acts' = acts => \A o \in Named \ Named' :
        \/ o = call.made
        \/ (o \in touched \/ Diverted) /\ call.stage \in {"move", "unlink", "undo"}]_entries

\* While no call runs the list is the folder as it is, whatever keys, errors
\* and failures went before, unless another program was at work since it was
\* listed.  Failures of its own leave just this: the list is empty if it could
\* not be read, and lacks a name that a rename or creation could not take back.
\* (The error that says so goes with the next prompt, as F7 and Escape show.)
ShowsFolder ==
  current /\ Idle =>
    fm.items = Sorted({item \in ItemsOf(Cwd, fm.hidden) : item.name \notin missed})

\* The selected row is always among the rows drawn; and when a listing ends,
\* the new, renamed or formerly selected entry is the selected one, if listed.
SelectionKept ==
  [][/\ fm'.items # <<>> =>
          fm'.selected \in fm'.scroll..(fm'.scroll + Rows - 1) /\ fm'.selected < Len(fm'.items)
     /\ call.stage = "entries" /\ fm'.items # <<>> =>
          \A n \in {call.to, call.keep} \ {None} : Places(fm', n) # {} => n = SelectedName(fm')]_fm

\* Entering a folder and going up again leads back to the same folder, in every
\* adapter and from every modelled form of path: Rooted says which those are, and
\* a drive without a root (C: alone) is not (path_join, path_parent).
GoesBack(a, path, name) == Meaning(a, Parent(a, Join(a, path, name))) = Meaning(a, path)

\* Of the constants alone, so that it is enough to look at it in a first state.
GoesBackFromForms ==
  \A a \in DOMAIN Forms, n, m \in FileNames : \A path \in Forms[a] :
    GoesBack(a, path, n) /\ GoesBack(a, Join(a, path, n), m)

RoundTrip == (Init => GoesBackFromForms) /\ \A n \in FileNames : GoesBack(adapter, fm.cwd, n)
=============================================================================
