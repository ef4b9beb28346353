---------------------------- MODULE MCFileManager ----------------------------
(* The File Manager on every adapter, in a folder whose path is of a form that  *)
(* adapter has to tell apart, with one act of another program.                 *)
EXTENDS FileManager

Names    == <<Up, ".h", "a", "b">>
Dots     == {".h"}
Contents == {<<Item("a", kind)>> : kind \in {"folder", "file"}}

Relative == {<<Here>>, <<Here, Slash>>, <<"home">>, <<"home", Slash>>, <<Here, Slash, Slash, "home">>}
Absolute == {<<Slash>>, <<Slash, "home">>, <<Slash, "home", Slash, Slash>>}
Drives   == {<<Drive, Slash>>, <<Drive, BackSlash, "home">>, <<Drive, Slash, "home", BackSlash>>}
Shares   == {<<BackSlash, BackSlash, "host", BackSlash, "share">>,
             <<BackSlash, BackSlash, "host", BackSlash, "share", BackSlash>>,
             <<BackSlash, BackSlash, "host", BackSlash, "share", BackSlash, "home">>}

PathForms ==
  [native   |-> Relative \cup Absolute \cup {<<Slash, Slash, "home">>},
   portable |-> Relative \cup Absolute,
   win32    |-> Relative \cup Absolute \cup Drives \cup Shares,
   djgpp    |-> Relative \cup Absolute \cup Drives]

StartPaths ==
  [native   |-> {<<Slash>>},
   portable |-> {<<Here>>},
   win32    |-> {<<Drive, BackSlash>>},
   djgpp    |-> {<<Drive, Slash>>}]
=============================================================================
