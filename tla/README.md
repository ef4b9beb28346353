# RetroDesk in TLA+

A verification development of RetroDesk, a desktop for text terminals written in
C: windows, focus and modal windows, a launcher, a taskbar, a window mode driven
by arrow keys, apps with documents, and a shutdown in which every app has a say.

The modules are translated from the code. Paths below are relative to the
repository (`src/wm/window_manager.c` is the file of that name in it);
`PROJECT.json` gives the lines that each definition stands for.

## The system

One process, one thread, one loop (`desktop_run`). Nothing runs concurrently in
the sense of threads; only the files on disk are shared, with other processes and
programs; what makes the program hard is that its state is spread
over parts that call back into each other during one event, and that things the
user sees as one act (quitting, dragging, saving under a new name) are spread
over many events between which anything else may happen.

| Component | Source | State it keeps | Operations |
|---|---|---|---|
| Window manager | `src/wm/window_manager.c` | windows in stacking order with flags and rectangles, focus, drag session | create, close, focus, raise, cycle, minimize, restore, move, resize, enable drag; mouse, key and resize events |
| Desktop | `src/core/desktop.c` | table of running apps, launcher window, window mode, shutdown progress | launch, close, commands (Ctrl+Q/W, F1/F6/F9/F10), cleanup, shutdown, loop |
| App runtime | `src/app/app_runtime.c` | per app: close requested, pending, result | request, resolve and reset a close |
| Launcher | `src/core/desktop.c`, `src/ui/launcher_bridge.h`, `src/ui/launcher_menu.h` | its modal window, selected item (twice) | open, move, execute, close |
| Taskbar | `src/ui/statusbar.c`, `src/ui/taskbar_window_bridge.h` | buttons as last drawn, pending activation | click: launch, raise the next, minimize |
| Window mode | `src/ui/window_mode_bridge.h`, `src/ui/window_mode_hud.h` | target window | enter, move, resize, leave |
| Maximize | `src/wm/window_maximize.h`, `src/ui/window_maximize_bridge.h` | 64 slots of saved rectangles | maximize, restore, refresh |
| Notepad | `src/apps/notepad_app.c` | text, saved text, dirty, history, prompt, Save As, path, version, search | keys, find, save, close, recovery |
| File Manager | `src/apps/filemanager_app.c` | folder, list, selection, name prompt | list, open, create a file or folder, rename |
| Diagnostics | `src/apps/terminal_app.c` | none | Esc |
| Text buffer | `src/ui/text_buffer.c` | lines, cursor, selection | edits, moves, find, wrap, draw |
| Text input | `src/ui/text_input.c` | the query of a search | edits, moves |
| Storage | `src/storage/*.c` | files on disk | list, read, atomic write with versions, create, rename |
| Platform input | `src/platform/*.c` | terminal mode and handlers, pending bytes, buttons held | create, poll an event, destroy |
| Widgets | `src/ui/dialog.c`, `menu_bar.c`, `tab.c`, `button.c`, `scroll_list.c`, `progress_bar.c` | their own | used by no app |
| Renderer | `src/render/*.c` | draw lists, last frame | draw, diff, flush |

How they interact:

- The platform returns one event per poll. `desktop_dispatch_event` gives keys to
  the desktop's commands and clicks to the taskbar; what neither takes goes to
  `wm_handle_event`, which finds a window (the topmost modal one, the one under
  the pointer, or the focused one) and calls its callback.
- The callback of an app's window gives the event to the app; the app may ask to
  be closed (`app_request_close`), may launch another app (File Manager), or may
  only note that the user has to decide first (a dirty Notepad defers).
- After every event the window manager frees windows that asked for it, the
  desktop removes apps whose window is gone or that were allowed to close, and a
  shutdown in progress goes on. Then a frame is drawn, which ends window mode
  when its window no longer has the focus.

What makes each part correct, and is hard:

- *Window manager*: no id of a freed window is kept; the keyboard is always on a
  window one can see; stacking stays a total order in which a step moves one
  window only; a modal window takes all input; a drag never outlives what it
  drags; windows stay within reach on a terminal that shrinks.
- *Desktop*: windows and apps correspond after every event, also after failed
  launches; what has the focus is on top; the launcher blocks while it is open
  and nothing blocks when it is not; arrow keys never move a window other than
  the one window mode was entered for.
- *Shutdown*: all apps close or none; no app with unsaved work goes unasked; the
  app waited for can be answered; an answer ends the wait.
- *Maximize*: a window that is maximized fills the terminal and goes on to, though
  the manager moves and clamps windows without knowing of it; it gets its own
  rectangle back.
- *Text buffer*: lines, byte offsets, columns and rows of the screen speak of the
  same place; an edit does what it would do to a plain text, or nothing.
- *Notepad*: dirty means different from the saved text; undo and redo walk over the
  states before and after, as many as the limits allow.
- *Storage*: a file holds one whole text whatever fails; a save replaces only the
  version it expects, and says so exactly when it has replaced it; no save leaves
  temporary files; no rename or creation takes the last name of another file.
- *File Manager*: the list is that of its folder, the selection that of the user;
  going down and up again leads back.
- *Platform input*: the events are what the user did, in order, however the bytes
  are cut; no flood of bytes starves anything; the terminal is given back.

## Modules

| Module | Models |
|---|---|
| `WmOps` | the window manager's functions as operators on its state: focus, stacking, modality, drag, degradation |
| `WindowGeometry` | clamping, moving, resizing, hit test on rectangles |
| `WindowManager` | the two together as a state machine, one action per function and kind of event |
| `Maximize` | `WindowManager` as the desktop uses it, through the bridges that maximize |
| `AppOps` | one app: close negotiation and, for Notepad, the prompt, Save As and the dirty flag |
| `DesktopOps` | the functions of `desktop.c` on a desktop, over `WmOps` and `AppOps` |
| `Desktop` | the program: one step is one round of the loop |
| `Session` | the abstract specification of quitting, which `Desktop` implements |
| `AtomicWrite` | Notepads of several processes reading and saving one file through the storage adapters, call by call, with other programs, failures and crashes |
| `SavedFile` | the abstract specification of a versioned save, which the POSIX adapter implements |
| `Notepad` | the document: text, cursor, undo and redo stacks, saved text, dirty |
| `Timeline` | the abstract specification of undo and redo, which `Notepad` implements |
| `Utf8Text` | texts as bytes, where characters begin and end, how many cells they take |
| `TextBuffer` | the lines, cursor and selection of a document, its edits, moves and search |
| `TextView` | how a buffer is shown: wrapping, scrolling, the place of the cursor |
| `TextInput` | the one-line field of a search |
| `Editor` | the keys of a Notepad over these four |
| `PlainText` | the abstract specification of editing, which `Editor` implements |
| `Paths` | joining and taking apart paths in the three adapters, and what a path means |
| `FileManager` | the File Manager and the folder operations of the adapters, call by call, with other programs |
| `TtyDecoder` | bytes of a raw terminal to keys and pointer reports |
| `PlatformInput` | the two backends from `platform_create` to `platform_destroy`, with a user at the terminal |
| `DesktopClaims`, `AtomicWriteClaims`, `PlatformInputClaims` | statements of the documentation that the code does not meet |
| `WmOps_proofs` | lemmas about the operators of `WmOps`, for `Windows_proofs` and `Desktop_proofs` |
| `Windows_proofs` (of `WindowManager` and `Maximize`), `Desktop_proofs`, `Notepad_proofs`, `Editor_proofs` (also for `PlainText`), `FileManager_proofs`, `AtomicWrite_proofs` (also for `SavedFile`), `PlatformInput_proofs` | theorems |
| `MC*` | small instances for TLC |

Definitions marked *Mutant* are plausible bugs in the operator that follows them.
Nothing uses them; they are there so that each property can be seen to fail.

### Window manager

`wm->windows` is an array whose order is the stacking order. The code only ever
asks which of two windows is higher, so the state is the relation `above`; the
flags `fixed`, `modal`, `minimized`, `closing` (`close_requested`) and `lit`
(`is_active`) are sets of ids. In `WmOps` every operator takes a state and
returns the one the C function leaves, including the trailing
`wm_cleanup_closed`, `wm_select_topmost_visible` and `wm_update_active_flags`.
`WindowManager` adds rectangles, the grip of a drag, the size of the terminal,
and `delivered`, the window whose callback ran in the last step. A callback may
ask for its window to be closed or not.

Mouse events are sets of flags, because backends combine them differently: a raw
terminal reports `{pressed, moved}` for motion with the button held and
`{released, clicked}` for a release, curses reports clicks of their own.

### Maximize

The slots are kept beside the manager; `Maximize` adds them, and replaces each
operation that the bridges wrap by its wrapped form. Slots of closed windows are
dropped at once, where the code drops them at its next look at the table, which
nothing can tell apart. `was`, the rectangle a window had when it was not maximized
last, is there for the properties only. `MInit` is the manager as `desktop_create`
leaves it, so that dragging is switched on or off once; `WindowManager` has it
switched at any time. Left out: a double click on a window that finds no slot and,
because it was partly outside the work area, is put back somewhere else; F8 in the
same place is there.

### Desktop

The state is one record so that the functions of `desktop.c`, which call each
other in many orders, are compositions of operators as they are compositions of
calls in C. An action of `Desktop` is the dispatch of one event followed by
`Finish`: cleanup, continuation of the shutdown, drawing. Where a C function can
fail (no memory, small screen, unreadable file, failed save) the operator is the
set of its outcomes.

Abstractions, and why they lose nothing the properties look at:

- *No geometry*: any visible window may be under the pointer, and a press may or
  may not be on a title.
- *Maximizing, moving, resizing, search in Notepad, the name prompt of the File
  Manager, the selected item of the launcher* change nothing that is kept; their
  steps are steps that change nothing, and every item may be the selected one.
- *A document* is one bit, `unsaved`: does its text differ from the saved one.
  Undo and redo may or may not come back to the saved text when it differs. `dirty` is
  a bit of its own: without memory to compare, a key in the text sets it although the
  text does not differ (`Edited`).
- *The taskbar* shows focus as of the last frame; the only thing that moves the
  focus between a frame and the click is the closing of the launcher in the
  click itself, which `TaskbarApp` keeps apart.
- *Window mode* (`window_mode` with `target_window`) is one field, because a frame
  is always drawn between F9 and the next event, which binds the target.
- *Several calls of `wm_close_window` in a row* are one cleanup of all of them.
- *Ids grow*, and `desktop->apps` is only appended to and compacted, so the index
  of an app in that array is the number of apps with a smaller id.

### Session

Phases `open`, `asking`, `ended`, `lost`. The refinement mapping reads the phase
off `status` and `asking`, `alive` off the running apps, and `undecided` as the
apps that would not close unasked and have not agreed. `Session` says that
while asking no app closes; that the phase ends with everything open or
everything closed; and that it cannot end closed while anyone but the app just
answering is undecided. An app that has agreed and is then edited, while another is
asked, is not undecided in this sense: the commit closes it with the edit, which is
finding 1 below.

### AtomicWrite

Files are inodes with a text and a stamp; the names that matter (the file's, those
of temporary files and of backups) refer to them. A `RetroFsVersion` is inode and
stamp; that two contents never have the same is an assumption about clocks and
file systems which the models make and the code cannot check. `doc` is what
Notepad keeps: text, version, whether it has a path, whether it shows an error;
"no version" (`version.valid` false) is what makes `np_save` expect no file. `call`
says before which system call a process is. `Fails` is the failure of any one of
them: they all leave through the same clean-up and return.

The adapters differ in the replacement. POSIX: `rename` over an existing file,
`renameat2` with `RENAME_NOREPLACE` for a new one, then `fsync` of the directory;
`"portable"` is the same adapter where that flag does not exist, which looks and then
renames. Win32: `ReplaceFileW`, or `MoveFileExW` without leave to replace. DJGPP: the
file becomes a backup, the temporary file becomes the file, with a restore in
between that may fail too; other programs do not run during a call. There a system that
cannot sync a file counts as one that did (`SyncsNothing`, `retro_fs_djgpp.c:547-554`),
so a power failure may leave part of a text, and `TargetWhole` says so of that case and
no other.

`onDisk` is what the file's name may refer to after a power failure: a rename adds
its file, the `fsync` of the directory leaves the present one only. A file not synced
comes back `Partial`. Left out: that a removed name of a temporary file may come
back after a power failure; the failure of the unlink of a temporary file; links,
directories and other kinds of file in place of the file; validation of the text,
which depends on the text only and comes before any step.

`SavedFile` is the promise: a save matches the version it expects, later replaces
the file, and shows success exactly when it did. It says on purpose that matching
and replacing are two steps. The refinement mapping reads the file off `target` and
`inode`, and the stage of a save off `call`.

### Notepad and Timeline

A text is a value with a size; what a key does to it is any other text, so that the
module is about the bookkeeping around the buffer and not the buffer. A stack is
its entries and the running count of their bytes that the code keeps, and `Room` is
the loop that drops the oldest entry while the stack is full. `scarce` is whether
memory is short: while it is, every copy of the text may fail, and the code goes on
in a different way at each of them (no capture clears the history, no comparison
takes the text as changed, no refresh takes it as dirty, no restore puts the target
back). A text may be larger than an entry can be: files and saves are limited to
1 MiB, pasting is not.

`Timeline` has no stacks and no counts: past, present and future, where the past
keeps its longest end and the future its longest beginning within the limits. The
refinement mapping reads the past off `undo`, the future backwards off `redo`.

### Editor, PlainText and the text modules

A text is the sequence of its bytes, in which the first byte of a character stands
for the character and the others are `Cont`; so a place inside a character can be
told from one between two. `TextBuffer` is the array of lines with a cursor and an
anchor in bytes; every edit takes whether memory is to be had, and returns what the
C function leaves in either case. `TextView` computes, as the code does for every key
and frame, the rows of the screen from the lines.

`Editor` has one action per key or group of keys of a Notepad, with the field of the
search, which takes the keys while it is open. The history is in `Notepad`; here an
undo loads some text. `PlainText` is one sequence of characters with a point and a
mark; the refinement mapping counts the characters before the cursor and the anchor.

### FileManager and Paths

A path is a sequence of separators, names and perhaps a drive. Files and folders are
objects, and entries name them in folders; `Way` is what a path refers to after each of
its parts, as the operating system looks it up, and `At` what it refers to in the end.
(`Follow` and `Meaning` are the names a path goes through, for `RoundTrip`.) The first
object is the folder the program starts in: the path it starts with (`Starts`) has
nothing after its root, so the names of a `$HOME` count as part of the root, and is
`Rooted`. A key of the File Manager starts a call of the adapter, whose system
calls are steps between which other programs make, remove and rename entries;
`"native"` is POSIX where `renameat2` refuses to replace, `"portable"` where it does
not, which links and unlinks files and looks before it renames folders.
`current`, `missed`, `touched` and `Diverted` are there for the properties: may others
have changed the folder since it was listed, which of its names does the list lack
because a call of the program failed, which objects did others touch while a call ran,
and is one of those on the way to the folder. `missed` is everything when a listing
fails, which leaves the list empty, and the new name when a portable rename can neither
remove the old one nor take the new one back; nothing else may be missing, and after the
next listing nothing is (`ShowsFolder`). `Diverted` matters because every system call is given a
path, which is looked up anew: when others rename folders between the look at the
destination and the move, the paths name another folder, in which the destination may
exist. An adapter that looks first cannot tell, and `NothingLost` says so. It takes two acts of other
programs, one more than the run has; the proof of `NothingLost` as it was stated first
failed at this point, and TLC then gave the trace with `MaxOthers = 2`.

Left out: kinds of entries other than files and folders; paths relative to a drive
(`C:name`, and `C:` alone, to which `path_join` adds a separator, so that it leads to
the root of the drive) and `//host` without a share; two separators in front of a path
on DOS, which its `path_parent` cuts to nothing; Backspace in `.` or in a path that ends
with a separator, which stay there. `fm_content_count` takes the first item for
`..`, which every listing begins with. F2 and Enter on a name with blanks at its ends
renames it to the name without, which the model does not have. Esc and opening a
file are in `Desktop`.

### Platform input

`Create` is the start-up as a set of outcomes, one for each call that can fail and
the way out it takes; `term` is the terminal and the signal handlers outside the
program, `plat` what the program remembers of them. The user's side says what a
terminal sends for keys and the mouse and, in `expected`, which events that means.
A poll of the raw backend reads any part of what is on the wire, or as much as a read
takes when there is more; one of curses may lose a report that `getmouse` does not give
(`LoseReport`). After that, and after the decoder has cut a sequence, `cut` is set and
nothing is expected until the wire has run dry; what the user does then is expected
again, with what the program by then knows of the pointer and the button (`Resynced`). A parameter of a sequence is one symbol, `Num(n)`, for its
digits; the screen has one row.

What the code does and one may not expect: in a raw terminal every release is a
click, also one that ends a drag, and there is no double click; motion with the
button held is another press; the bytes of a UTF-8 character come as separate keys;
a line that hangs up is noticed before bytes still unread; a `poll` interrupted by a
signal other than the program's own is an error, and errors end `desktop_run`.
Handlers are installed with `signal`, one after the other, over a platform that is all
zero. When that fails on INT, the failure path puts back what it remembers of INT and of
TERM, and of TERM it remembers the zero, which is the default: a TERM that was ignored
(`nohup`) is not any more (`platform.c:91-92, 108-110, 240`). The terminal's part in
`TerminalRestored` has no exception, that of the handlers has this one (`LeftHandlers`).
What curses itself does to handlers is not modelled.

## Runs

| Run | Instance | Shows |
|---|---|---|
| `wm_stack` | 3 ids, plain, fixed and modal windows at the same place; press, release, click | type, focus, stack; input reaches visible windows, modal windows block, others keep their order |
| `maximize` | 2 ids, plain and fixed, terminals of 6x12 and 5x12, a slot for one window; press, drag, motion, release and double click at two points | drag state, titles on the screen, only what is held moves, maximized windows fill the work area and get their rectangle back |
| `desktop_shutdown` | File Manager and Notepad, 4 ids (shell and three more), press | windows and apps correspond, the shutdown can be answered, asks in order, unsaved work is known, implements `Session` |
| `desktop_live` | all three apps, 3 ids, click, press, release, with fairness | focus on top over minimizing and restoring, launcher and window mode; every shutdown is decided |
| `claim_quit` | as `desktop_shutdown` | a statement of the documentation, refuted |
| `storage` | all adapters, 1 process, 3 files made, all other writes, one crash or power failure | the file is whole, no litter, a copy always kept, honest versions after reading, new files replace nothing, `SavedFile` is implemented by POSIX |
| `claim_version` | POSIX, 2 processes | a statement of `docs/STORAGE.md`, refuted |
| `notepad_history` | 4 texts of 0, 1, 2 and 4 bytes, 2 cursors, 3 states, 3 bytes | limits and counts, dirty, `Timeline` is implemented |
| `editor` | a letter in two cases, one of two bytes and a mark of no width; 3 bytes, query of 2; windows of 1x1 and 2x2 | places exist, the cursor is seen, wrapping shows the text, `PlainText` is implemented, find finds the nearest |
| `files` | 4 adapters, 3 names, 3 objects, all forms of path, one act of another program | the list is the folder's but for what failed calls leave out, the selection is kept, nothing is lost, paths lead back |
| `input` | decoder of 20 bytes, reads of 10; a console with function keys, a held key that is not known, a mouse, a TERM that is ignored | the terminal is given back, events as sent, input arrives |
| `claim_leak` | as `input` | a statement of `docs/PORTABILITY.md`, refuted |

Bounds. `MaxWindows` bounds the ids handed out, which the program never reuses.
Three windows are what the stack properties need (two that keep their order and
one that moves). Four ids in the desktop leave three besides the shell: two
documents and the File Manager, so that a shutdown has an app that has agreed, one
that is asked and one still to come; or two apps and a launcher. That instance
leaves window mode and minimizing to the smaller one (`Plain`). Terminals are a
row larger than the smallest window, or not, so that clamping, refusing
and growing into the taskbar row all happen; the pointer has a point on the
title and one off it. With one slot (`SlotCap`, 64 in the code) the second window
finds none and is put back. The degradation limit is the code's own, 3.

Three files made are the one found and two saves, or one and that of another
program; two texts tell them apart. One crash is enough: everything is forgotten
after it but the disk. `FewUnsynced` bounds the names a power failure may choose from.

In `notepad_history` both limits are reached, the number of states by texts of no
bytes, the bytes by the others, and one text is larger than any entry. In `editor`
three bytes hold two lines with a character of two bytes in one, or three lines, and a
window of one cell wraps everything; what is left of a query when the search is
closed is forgotten (`QueryInUse`), since opening it empties the field.

In `files` three names sort before, between and after each other, one of them
hidden, with two rows to show four entries; the forms of paths are checked as
constants, all of them, once. In `input` the buffers are a third of the code's, the
sequences as long as they are: thirteen of the unknown key are more than the decoder
holds. Signals and hang-ups come on the console only (`Interrupted`), and
`FirstSize`, `MaxWire` and `MaxExpected` bound what is under way at once.

Deadlock is checked for the window manager, Notepad, the editor and the File Manager.
Storage runs end where the bound on the files made is reached. The desktop may stop,
after a shutdown or when the terminal is gone, and so may the platform.

Fairness (`LiveSpec`). The program itself always makes the next round; what a
shutdown needs is an answer. The assumption is about the user and is named in
`Desktop`: weak fairness of bringing the app that waits to the front, strong
fairness of answering it (D or Esc in its prompt, Esc in Save As) when it has the
keyboard. Nothing else is assumed: the user may also type, open other apps, press
elsewhere. Strong fairness is needed because a press elsewhere takes the
keyboard away again and again.

In `PlatformInput` (`PollsAgain`) the loop polls again and again while there is
something to do: `desktop_run` does nothing else. It is weak fairness of `Poll`, with
its `ENABLED` written out; whether a read finds bytes or fails is left to chance.
`InputArrives` is about the raw backend's order of work too: it reports a new size before
it reads, so a terminal that changes its size before every poll keeps the keys waiting
for ever. That it does so is assumed away by name (`SizeSettles`); a resize alone does not
count as the event that was awaited.

## What the runs found

Three statements of the documentation do not hold, each refuted by a run.

1. *Agreeing is not final* (`claim_quit`). An app that has agreed to a shutdown can be
   focused by a press and edited while the next one asks; the commit closes it.
2. *The version kept after a save may be another's* (`claim_version`): it is read from
   the name after the rename. If another process has saved in between, the next save
   replaces its text although nothing raced by then.
3. *A cut sequence leaks* (`claim_leak`). `docs/PORTABILITY.md:75-76` covers fragmented
   input; a read that ends after the Escape of a sequence hands the desktop Escape,
   and then the rest as typed text.

The models show more, without a run of their own:

- *A cancelled shutdown does not restore documents* (`notepad_app.c:460`,
  `desktop.c:614`). Discard in one app, cancel in the next: the first stays open with
  its text, marked clean, and closes later without a question.
- *D does not always close.* A shutdown that is cancelled resets the close requests of
  all apps but not the prompt that Ctrl+W had opened in one of them; D there ends the
  prompt and resolves nothing (`app_runtime.c:132`).
- *The app that is asked does not keep the focus* (`docs/APP_RUNTIME.md:145`): clicks
  are dropped, presses are not. Finding 1 and the need for strong fairness come from it.
- *A replacement that fails may lose the file on Windows*
  (`docs/STORAGE.md:207`): `ReplaceFileLoses`, which `CopyKept` has to except. It rests
  on the documentation of `ReplaceFileW`, not on code in this repository.
- *A stale save is not always a conflict* (`docs/STORAGE.md:110`): between the last
  comparison of the versions and the rename another process can save; its text is
  replaced and success returned. `CreateNeverReplaces` and `SavedFile` say what
  remains true.
- *Not every paste can be undone* (`docs/KEYBOARD_SHORTCUTS.md:145`): after one that
  makes the text larger than 1 MiB `np_undo` returns at once, because it cannot
  capture the present, although the state before is on the stack (`Recordable` in
  `Timeline.Undo`).
- *Find does not find an occurrence around the cursor* (`text_buffer.c:565-571`): it
  looks from the cursor to the end and from the start to the cursor
  (`docs/KEYBOARD_SHORTCUTS.md:149` says it wraps). `FindsNearest` has to except it.
- *Function keys of the Linux console and keys in application mode are typed text*
  (`tty_decoder.c:226-231, 290-299`): of `Esc [ [ A` the decoder takes the second bracket
  for the end and hands over `A`; `Esc O P` is Escape, `O` and `P`. The user of
  `PlatformInput` has both (`ConsoleFunctionKey`, `ApplicationKey`) and expects just
  that, against `docs/KEYBOARD_SHORTCUTS.md:184-185` and `docs/PORTABILITY.md:75-76`.
- *A failed listing shows an empty folder* (`filemanager_app.c:275, 397`): the error goes
  with the next prompt, F7 and Escape are enough, and the list stays empty until it is
  read again. `ShowsFolder` has to except it (`missed`).
- *A maximized window need not fill* (`docs/KEYBOARD_SHORTCUTS.md:49`): a new terminal
  size is fitted to the active window only, and F6 or a click on another does not fit
  that one; it can then be dragged, and unmaximizing it off the corner does not give
  back its exact rectangle (`docs/PROJECT_STATUS.md:75`). A window that reached into the
  taskbar row comes back a row higher, one narrower than 12 columns comes back 12 wide.
  `MaximizedFills` and `RestoresExactly` except these.
- *Dragging is never off without degradation* (`desktop.c:406-407`): `desktop_create`
  says first whether dragging is reliable and then whether it degrades by itself;
  `wm_set_drag_auto_degrade(false)` enables dragging whatever was said before.

## Proofs

Nothing is assumed but the named `ASSUME`s of the modules, which TLC evaluates on
each instance. They give the types of the constants, and where more is said the code
relies on it: `TerminalAssumption`, that a terminal, whose size comes in 16 bits, is
smaller than `WM_MAXIMIZE_GROW_DELTA`; `ConstantsAssumption`, that there is a file and
a stamp to be had; `Utf8Assumption`, that characters take one to four bytes and that
a byte that continues one starts none, and `FoldAssumption`, that no character is the
line end, both of which UTF-8 sees to; `FileManagerAssumption`, that a folder has no
name twice, that nothing follows the root of the path the program starts with, and that
this path is `Rooted`: not empty, a network path with its share, a drive with its
separator, and on DOS no second separator in the root. The path comes from `$HOME` or
from what the desktop was given, so this is about the environment, not about the code
(under "FileManager and Paths" is what happens otherwise). Each inductive invariant below was an invariant of a TLC run over
the instance of its module before it was proved.

### Windows

`WmOps_proofs` says of each operator of `WmOps` what it keeps, for any state that is
well formed. The invariants are not inductive one by one. Focus after a close is on
`Topmost` of the visible windows, which is one of them only if `above` is a total
order; the drag is of an open window only if no id of a freed window is kept. Within
one operator the state is half way: `HalfInv` is what holds when windows are marked to
be freed and the focus is not yet chosen, and `SelectRight` and `CleanupRight` bring it
back to `WmInv`. Other lemmas say what an operator does to `above`: keep it
(`OrderKept`), raise one window (`OrderRaised`), forget freed ones (`OrderCleaned`).

`Windows_proofs`, for any window specifications, screen sizes, pointer positions
and mouse events:

- `TypeCorrect`, `FocusCorrect`, `DragCorrect`, `DegradeCorrect`, `StackCorrect`,
  `TitlesOnScreen`: the invariants. `IInv` is their conjunction with the placing of the
  rectangles (corners stay on the screen only if windows keep their minimum size) and
  the finiteness of the set of windows;
- `InputCorrect`: input is delivered to windows visible when it arrived;
- `OrderCorrect`: a step moves one window in the stack, the others keep their order. A
  mouse event raises one window and frees another at most, and both are the one under
  the pointer;
- `ModalCorrect`: while a modal window is visible all input is its own, and no input
  touches another window. A callback of one window changes nothing of the others
  (`CallbackLocal`).

The second part of `Windows_proofs` lifts these to the manager with its bridges. `MaximizeInductive`:
`MInv` is `IInv` and that slots are of open windows that are not fixed, that the slot
of a maximized window holds the rectangle it had, and that any other window has that
rectangle. Every step is of one of three kinds: held, where slots stay and maximized
windows are at most moved or fitted; toggled; refitted, where the terminal has
changed. From it follow `MaximizedOnScreen`, `FillsCorrect` and `RestoresCorrect`,
over lemmas about rectangles: growing by `GrowDelta` and leaving a row fills the work
area (`FillRight`), a window that fills cannot be moved (`FillerStays`), resizing and
then moving from the corner gives back any rectangle that fits (`GiveBackRight`).
`HeldMoves` is the action property that a rectangle changes only in the window that has
or gets the focus or is dragged, and is not fixed, but for what fitting to the screen
takes. Each kind of step has a lemma; for the mouse it is that a drag in progress is of
a movable window (`DragInv`), also after the press that begins it freed another.

### The desktop

`Desktop_proofs` proves, for any registered apps, any mouse, any number of windows and
any answers, all safety properties of `Desktop`: `WindowsOwned`, `FocusIsOnTop`,
`LauncherGetsKeys`, `ModeIsOfFocused`, `PendingAnswerable`, `AskedInTurn`, `UnsavedKnown`.
A step is a whole round of the loop, and within one the parts disagree: a window is
marked and its app still runs, a shutdown is over and its index still set. So the
invariant comes in stages, each what the next part of a round starts from:

- `Between`, after the event: every window belongs to the shell, the launcher or an app
  that runs, an app without a window is one that may be freed, the open launcher has the
  focus, and a shutdown waits for the app at `shutdown_index`, which can be seen, while
  those before it have agreed;
- `Cleaned`, after the apps that close are gone: each app that runs has its window, and
  outside a shutdown none has agreed to close;
- `Settled`, after a shutdown in progress went on: the app it waits for has a prompt;
- `Live`, after the frame: window mode is of the focused window.

`Lost` is what holds when the terminal is gone and only windows are kept. `Between` is
proved of every event, in one lemma per handler, together with which app the handler may
have touched (`Touches`): at most one. The rest of a round is the same for all
(`OpenRound`, `AskingRound`), and `Inductive` puts them together.

`QuittingIsTransaction` is the refinement of `Session`: every round is work on one app, or
one of the steps of a shutdown, which closes all apps or none, or a stutter. It needs of a
round what the invariant does not say, which app it touched, and takes it from the same
lemmas. `SessionSteps` restates the steps of `Session` in terms of the desktop.

### The notepad

`Notepad_proofs`: `DirtyCorrect`, a text that differs from the saved one is dirty, unless
the difference was discarded. The cases are the ways a text changes, which share
`Changed`, and undo and redo.

`BytesRight`: the byte count of each stack is the sum of its entries, and both limits
are kept. `HistoryInv` says so of both stacks, and that there is nothing in a stack but
its entries and their count. The sum is a recursive function on the length (`Total` in `Timeline`), not a
fold, so that it has lemmas: of one more entry, of one less, of the oldest dropped. The
loop ends because the number of entries falls; what is left are the newest that fit, and
no fewer. That is what `Timeline` promises, and `HistoryRight` proves that `Notepad`
implements it: undo and redo keep the newest past and the nearest future that fit.

### Files

`AtomicWrite_proofs` proves, for any number of processes, any texts and any number
of files, edits and failures, `FileWhole`, `CreateCorrect`, `CopyCorrect`, `ReadCorrect`
and `TempsRemoved`. None of these is inductive; `AInv` is. It says of files that whatever
has the file's name, or may have it after a power failure, or is a backup, is whole
and synced (`NamedOK`); of each process that the temporary file it will install has
no other name and no other owner, holds its document's text once it is written and is
synced once it is past that call (`TempOK`), and that a backup is DOS's, is not the
file, and is one process's (`BackupOK`); of all together that there is another copy
while a backup is being discarded (`CopyOK`). One lemma per kind of step: those that
leave files and names alone (`QuietRight`), those that change only the process's own
file (`SameNamesRight`), those that change names (`NamesRight`), and those of others.

`TempsRemoved` is about a number: there are no more temporary files without an owner than
there were stops. `LitterInv` adds which files can be temporary, that a call past the
steps that have one (`KeepsTemp`) has none, and that finitely many calls run. No step but
a stop then takes the owner of a file away, a crash one, and a power failure at most one
for each call that ran. `PromiseKept` is the refinement of `SavedFile`, that every step on POSIX is one of
its steps or changes nothing that the mapping shows. The first lemmas say the steps of
`SavedFile` in terms of what is shown; the others find, for each step of `AtomicWrite`,
which it is. The rename is `Replace` because of `TempOK`: what it installs has the
document's text, and a version that the file did not have.

`FileManager_proofs` proves `SelectionRight`: the selected row is one of the list and is
drawn, and after a listing it is the entry made, renamed or selected before, if it is
listed. `ViewInv` adds to the view that the list is empty while it is read, and that a
call has a new name to select or a kept one, never both: otherwise the name selected
last would hide the other. `Sorted` is defined by rank, not by removing the least again
and again, so that it is a list of as many rows as there are items, whatever they are.
All that the proof uses of `entry_compare` is that.

`NothingIsLost` and `ListIsFolder` are about the folder behind the list. They need that
the path `path_join` makes of a folder and a name leads, on every adapter, to what has
that name in that folder (`JoinRight`). It is proved of `Proper` paths, which are
`Rooted`, because joining then leaves the end of the root where it was; what
holds at every place of a path is shown by induction over the set of places where it
holds (`Stepwise`): the prover takes a set where it cannot take a predicate. Four
invariants follow one another:

- `NamesInv`: the File Manager's path is proper, a call has the names it is about;
- `TreeInv`: entries are of a folder and of something that exists, and no two of a folder
  have the same name (`FoldersInductive`);
- `RaceInv`, what is true between two system calls of a rename or creation: what the next
  would replace is not there, or was touched by others, or the way was `Diverted`; and
  what it takes the name of has another name, or is the new file (`RacesInductive`);
- `ListInv`: while nobody else was at work the list is that of the folder, but for the
  names that a rename or creation may still take back.

`WayBackIsRight` proves `RoundTrip`: `path_parent` undoes `path_join`. Not literally:
what it gives back may have lost separators at its end, or gained the one that ends the
root of a network path. `Back` is a path that is another but for separators at the end.
POSIX trims a path of separators down to one (`PosixBack`), DOS down to its root
(`DosBack`), and Windows cuts nothing of the root (`WinParentIs`, `WinCut`); two paths
that differ so have the same root or are nothing but root, and the same names behind it
(`SameRootMeans`, `RootMeans`, with `NamesKept`: what is no name adds none). That every
path stays proper on the way up and down (`ProperPaths`) makes the rest of `NamesInv`
inductive as well; here the parents of all three adapters have to leave the root whole.

The lemmas between them say what a step does to the way: a change in a folder leaves a
way that does not go through what it touched as it was, and one that does go through it
is `Diverted` from then on.

### The editor

`Editor_proofs` proves, for any characters of one to four bytes, documents, pastes,
sizes of the window and keys, that `PlacesExist`, that `CursorIsSeen`, that
`WrapIsFaithful` (`WrapIsAlwaysFaithful`), that Find selects what `FindsNearest` says
(`SearchFindsNearest`) and that the editor implements `PlainText`
(`EditorIsPlainText`). `PlacesExist` is not inductive: an edit is only right about
offsets if the bytes between them are, so the invariant, `IInv`, says of the bytes
themselves what UTF-8 says (`TextOK`: a byte that starts a character of `n` bytes is
followed by `n - 1` that continue it, and no other continues one), that the anchor
rests at the origin while nothing is selected, and that the query fits its field. Texts
are what recursive functions compute of them (`ToText`, `Split`, `Characters`,
`RowStart`); the proofs never unfold these but use the functions that they are the
values of (`Throughs`, `Splits`, `Ofs`, `Starts`), which exist by `IteratesExists`.

The document is edited as lines of bytes, in three ways: within a line, by breaking or
joining lines, or by splicing the whole text and splitting it again. What is to be
proved of all of them is one sentence, `Edited`: the text of the document is spliced
between two offsets, the cursor is behind what was put there, and the buffer is good
again. `RowsSpliced` gets it from rows alone, for a change that leaves the rows before
and after as they were; `SplitJoins`, that joining is the inverse of splitting, gives it
for the others. `OffsetsInOrder` and `PlaceIsNormal` say that offsets and places are the
same thing: this is what the code converts back and forth at every key. `Did` lists
what a step can do to a buffer, and `StepDoes` that every step does one of it, also when
the allocation it needs fails.

For the refinement, `Count` is the number of characters up to an offset. At a boundary
it commutes with cutting, joining and splicing (`CutCharacters`, `SpliceCharacters`), it
grows by one over one character (`OneCharCounts`) and never shrinks (`CountGrows`), so
that a splice between two boundaries is a replacement between two characters
(`Rewritten`). The characters that a shortcut erases are those of one line, and the line
has no line end: hence `EraseLine`. For the cursor on the screen, `VisualRowsRight`
proves that the visual rows tile the lines (`Tiled`, `Walked`): each starts where the one
before ended and has no more columns than fit, and each line is shown from its beginning
to its end; therefore `CursorVisual` is a row that holds the cursor.

`WrapIsFaithful` has three parts, each from that tiling. That the rows show all of a
line (`RowsShowLine`) goes by the rows: the first `n` of them show the line up to
`Reach`. That the selected characters are redrawn, each once (`SelectionShows`), goes by
the text: `Clamped` is the offset in the selection nearest to a given one, and the part
of the text between where one row and the next bring it is what the row redraws
(`PieceShows`) and possibly a line end (`GapShows`), which is not seen. A piece is not
drawn if the row is full before it starts; then what is left of the row has no column
(`NoColumnsLeft`). That Up and Down move by exactly one row (`MoveWrappedMoves`) needs
that a row which is not the last of its line is not empty, so that the cursor, put into
it, is not of the row after (`RowsAbove`, `CursorVisualIs`). `Shown` is a recursive
function, and not the library's `SelectSeq`, so that it can be proved that it commutes
with concatenation (`ShownConcat`).

For `FindsNearest` two ways to compare and two orders to search in are shown to be the
same. The code compares the query with a line byte by byte, the property compares their
characters; `SameAlike` proves that texts of one length whose characters differ only in
case have them at the same bytes, because a character takes as many bytes in either
case (`FoldAssumption`), and `AlikeSame` and `AlikeWhole` prove the other direction. So
the places the code finds are the occurrences (`OccurrencesAre`), and each ends between
two characters (`MatchEnds`), so that rounding to a character does not cut the selection
short. The code goes through the lines in three stretches, the property takes the first
place in the order of the text; `FoundNearest` is about each stretch, and that there is
no occurrence to be found when all three are empty. `FindsNearest` is said of each state,
of what Enter would do in it (`FindSelects`), since an Enter that finds nothing is not a
step; no invariant but `IInv` is needed for it.

### The terminal

`PlatformInput_proofs` proves `TerminalGivenBack`: whichever call of the start-up
fails, and however the program ends, the terminal and the handlers are the shell's
again, whatever the shell had set them to, but for TERM when INT could not be set. The
invariant, `TerminalInv`, is that while the platform is on, everything
that differs from the shell's is remembered in `plat` (`Remembered`), so that
`CloseTerminal` undoes it; each step of the start-up keeps that, and each way out
goes through what undoes it.

It also proves `EventsArriveAsSent`: both backends hand over what the user did, in
order, whatever pieces the bytes are read in, for buffers and reads of any size and
keys typed any number at once. The argument:

- A *stream* `<<s, e, a, b>>` (`Streams`) says that `s` on the wire means the events
  `e` to a receiver in state `a` and leaves it in `b`; streams are the least set that
  has the empty one and is closed under putting a step first. No recursion is
  needed: what holds for all of them is shown by a set that is closed as well
  (`StreamsLeast`). Streams joined are a stream (`StreamsJoin`), and a stream begins
  with a step (`StreamFirst`).
- On a raw terminal a step is one key or one pointer report, and the state is the last
  column. For each the decoder does the right thing: whole, with anything after it,
  it gives the event meant and keeps the rest (`StepDecoded`); cut before its end, it
  waits and keeps all (`StepWaits`), except for an Escape by itself. So decoding keeps
  that the bytes held, followed by the wire, are a stream of what is expected
  (`DecodeFlows`), and reading only moves the place where the two meet. That is
  `RawInv`, until something is cut; then nothing is expected until wire and decoder hold
  nothing, and from there on the bytes are a stream again.
- On a terminal of curses the state is the last column and the button, and a report
  is a step that does what normalization makes of it (`HandedOver`, `After`). `Knows`
  relates that state to what the user has done: the program will have the pointer
  where the user left it, and `dragged` says that it has not rested since the press.
  So a release is a click just when the user clicked (`ReportKnown`, `CursesInv`). After a
  report that was lost the two may differ, so what is expected from then on starts from
  what the program knows (`Resynced`).
- `FeaturesFound`: what the program was told of the terminal is what it can do.

`Inputs` is a parameter, assumed (`KeyAssumption`) to hold sequences of keys: single
bytes, arrows, arrows with modifiers, other sequences of a known shape that mean
nothing to the decoder. Two restrictions are of substance. Escape and `[` are not both
typed as keys of their own on one raw terminal, since typed one after the other they
are the beginning of a sequence, to any program. And `UnknownKey`, of which no event is
expected, is `Esc [`, bytes that are not final, and one that is; keys that send anything
else are put together from it and from single bytes, as the decoder takes them apart, and
what is expected of them is the text that comes out (above, under "What the runs found").
Arrows with other parameters than those of a modifier are left out. `InputAssumption` asks that a report
fits the buffer (9 symbols; the code has 64 bytes).

### Only model-checked

- Liveness (`ShutdownEnds`, `InputArrives`): fairness and `ENABLED` are outside the prover.

## Not modelled

Drawing, themes, the text of titles and messages: output only. The renderer keeps the
last frame to send differences; nothing else reads it. The widgets no app uses. The
diagnostics of the desktop, its clock and services of apps (no built-in app has one);
`main` and the command line. Validation of UTF-8 and the table of widths, which depend
on the text only. Notepad's recovery file, and what its title names after a Save As
that failed. `text_buffer_clear`, which no app calls. The field of the File Manager's name prompt is one
variable, `fm.input`, not a `TextInput`; so `text_input_set_text`, which puts the old name
into it (`filemanager_app.c:269`), is an operator (`FieldSetText`) that no action uses. The
masks of capabilities a caller of the platform may ask for, and PDCurses' console.

## What is left

1. Proofs: that the decoder never keeps more than fits.
2. Models: the recovery file and Save As that fails after rebinding the document;
   the taskbar bridge and the launcher's two selections; the renderer's diff against
   the last frame, and a failed flush.
