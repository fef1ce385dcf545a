----------------------------- MODULE FileSystem -----------------------------
(***************************************************************************)
(* Files as the client's commands see them.  A file is what was written    *)
(* into it, how much of that is there and how much of it outlasts a power  *)
(* failure, which is what was synced.  Names are as durable as the file    *)
(* system makes them in order: a renamed or a created file keeps its name. *)
(***************************************************************************)
EXTENDS Integers

\* A text has a length; a file may hold a part of it.
NoFile == [length |-> -1]
Exists(file) == file # NoFile
Put(text, length, synced) == [text |-> text, length |-> length, synced |-> synced]
WholeFile(text) == Put(text, text.length, text.length)
IsWhole(file) == Exists(file) => file.length = file.text.length

\* The power fails: of every file at least what was synced is left.
Left(file) ==
    IF ~Exists(file) THEN {file}
    ELSE {Put(file.text, n, n) : n \in file.synced .. file.length}
=============================================================================
