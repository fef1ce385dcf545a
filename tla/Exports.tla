------------------------------- MODULE Exports -------------------------------
(***************************************************************************)
(* Exports of rows to a file (query/export.rs).  The partial file has the  *)
(* destination's name with an ending, so that exports to one destination   *)
(* that run at the same time write to the same file.                       *)
(***************************************************************************)
EXTENDS FileSystem

CONSTANTS
    Command,        \* processes that export to this destination, one time after the other
    MaxRows,        \* bound on the rows of an exported result
    MaxEdits,       \* bound on the exports that the user removes
    MaxFaults       \* bound on failing calls, killed processes and power failures

VARIABLES
    out, partial,                  \* the destination and its partial file
    pc,                            \* what each process is about to do
    told,                          \* what the last interrupted export said
    edits, faults,
    \* What has happened, for the properties only.
    beside,                        \* the processes whose export ran beside another
    mingled                        \* the file at the destination is of one of them

vars == <<out, partial, pc, told, edits, faults, beside, mingled>>
ghosts == <<beside, mingled>>

\* A text is the rows of one process.
Rows(p, n) == [of |-> p, length |-> n]

Idle == [at |-> "idle"]
Untold == [flush |-> "none", rows |-> 0, alone |-> TRUE]

Init ==
    /\ out = NoFile /\ partial = NoFile
    /\ pc = [p \in Command |-> Idle]
    /\ told = Untold /\ edits = 0 /\ faults = 0
    /\ beside = {} /\ mingled = FALSE

Goto(p, state) == pc' = [pc EXCEPT ![p] = state]
Done(p) == Goto(p, Idle)

-----------------------------------------------------------------------------
\* An open file is known by where it is: under the partial name, at the
\* destination, or replaced there and gone.

Handle(at, text, rows, put, file) ==
    [at |-> at, text |-> text, rows |-> rows, put |-> put, file |-> file]

Exporting(p) == pc[p].at \in {"exporting", "renaming"}
Others == {q \in Command : Exporting(q)}

\* Export::create: the file is looked for at once, and the partial file, whoever is
\* writing to it, started anew.
ExportOpen(p, total, force) ==
    /\ pc[p] = Idle
    /\ Exists(out) => force
    /\ partial' = Put(Rows(p, total), 0, 0)
    /\ Goto(p, Handle("exporting", Rows(p, total), 0, 0, "partial"))
    /\ told' = Untold
    /\ beside' = IF Others = {} THEN beside \ {p} ELSE beside \cup Others \cup {p}
    /\ UNCHANGED <<out, edits, faults, mingled>>

\* What another's rows are written into is nobody's text.
Mixture == Rows("mixture", 1)

\* A file when n of the rows of p have been written to it.
Through(file, p, n) ==
    IF file.text = pc[p].text THEN Put(file.text, n, file.synced)
    ELSE IF n = pc[p].put THEN file
    ELSE Put(Mixture, 0, 0)

WriteOut(p, n) ==
    /\ partial' = IF pc[p].file = "partial" THEN Through(partial, p, n) ELSE partial
    /\ out' = IF pc[p].file = "out" THEN Through(out, p, n) ELSE out

\* A row is encoded into the buffer, which is written out when it is full.
ExportRow(p) ==
    /\ pc[p].at = "exporting" /\ pc[p].rows < pc[p].text.length
    /\ \E n \in pc[p].put .. pc[p].rows + 1 :
         /\ WriteOut(p, n)
         /\ Goto(p, Handle("exporting", pc[p].text, pc[p].rows + 1, n, pc[p].file))
    /\ UNCHANGED <<told, edits, faults, ghosts>>

\* Fault: its data is left to the system to write.
Unsynced(file) == file

Synced(file) == Put(file.text, file.length, file.length)

\* Every row arrived: the rest of the buffer is written out and the file synced.
ExportSync(p) ==
    /\ pc[p].at = "exporting" /\ pc[p].rows = pc[p].text.length
    /\ LET n == pc[p].rows
       IN /\ partial' = IF pc[p].file = "partial" THEN Synced(Through(partial, p, n)) ELSE partial
          /\ out' = IF pc[p].file = "out" THEN Synced(Through(out, p, n)) ELSE out
          /\ Goto(p, Handle("renaming", pc[p].text, n, n, pc[p].file))
    /\ UNCHANGED <<told, edits, faults, ghosts>>

\* Where an open file is after the partial file was renamed to the destination.
Moved(file) == CASE file = "partial" -> "out" [] file # "partial" -> "gone"

\* The rename is by name: whatever is the partial file now goes to the destination.
ExportRename(p) ==
    /\ pc[p].at = "renaming" /\ Exists(partial)
    /\ out' = partial /\ partial' = NoFile
    /\ mingled' = (p \in beside)
    /\ pc' = [q \in Command |-> IF q = p THEN Idle
                                ELSE IF Exporting(q) THEN [pc[q] EXCEPT !.file = Moved(@)]
                                ELSE pc[q]]
    /\ UNCHANGED <<told, edits, faults, beside>>

\* Another export has renamed it.
ExportRenameFails(p) ==
    /\ pc[p].at = "renaming" /\ ~Exists(partial)
    /\ Done(p)
    /\ UNCHANGED <<out, partial, told, edits, faults, ghosts>>

\* The server's error or Ctrl+C: what arrived is flushed into the partial file, and
\* reported as being there only when that succeeds.
ExportAbandon(p) ==
    /\ pc[p].at = "exporting"
    /\ \/ /\ WriteOut(p, pc[p].rows)
          /\ told' = [flush |-> "flushed", rows |-> pc[p].rows, alone |-> p \notin beside]
          /\ UNCHANGED faults
       \/ /\ faults < MaxFaults /\ faults' = faults + 1
          /\ \E n \in pc[p].put .. pc[p].rows : WriteOut(p, n)
          /\ told' = [flush |-> "unconfirmed", rows |-> pc[p].rows, alone |-> p \notin beside]
    /\ Done(p)
    /\ UNCHANGED <<edits, ghosts>>

-----------------------------------------------------------------------------
Fault == faults < MaxFaults /\ faults' = faults + 1

\* An export that cannot finish leaves its partial file; closing it may write out the
\* rest of the buffer.
ExportFails(p) ==
    /\ Fault
    /\ Exporting(p)
    /\ \E n \in pc[p].put .. pc[p].rows : WriteOut(p, n)
    /\ Done(p)
    /\ UNCHANGED <<told, edits, ghosts>>

\* The process is killed: whatever it wrote stays.
Kill(p) ==
    /\ Fault
    /\ Exporting(p)
    /\ Done(p)
    /\ UNCHANGED <<out, partial, told, edits, ghosts>>

PowerFailure ==
    /\ Fault
    /\ out' \in Left(out) /\ partial' \in Left(partial)
    /\ pc' = [p \in Command |-> Idle]
    /\ told' = Untold
    /\ UNCHANGED <<edits, ghosts>>

\* The user removes an export.
Edit ==
    /\ edits < MaxEdits /\ edits' = edits + 1
    /\ Exists(out) /\ out' = NoFile
    /\ pc' = [q \in Command |-> IF Exporting(q) /\ pc[q].file = "out"
                                THEN [pc[q] EXCEPT !.file = "gone"] ELSE pc[q]]
    /\ UNCHANGED <<partial, told, faults, ghosts>>

Next ==
    \/ Edit \/ PowerFailure
    \/ \E p \in Command :
         \/ ExportRow(p) \/ ExportSync(p) \/ ExportRename(p) \/ ExportRenameFails(p)
         \/ ExportAbandon(p) \/ ExportFails(p) \/ Kill(p)
         \/ \E force \in BOOLEAN, n \in 0 .. MaxRows : ExportOpen(p, n, force)

Spec == Init /\ [][Next]_vars

-----------------------------------------------------------------------------
\* Whatever fails or crashes between whichever steps, the file at the destination is not
\* there or is complete (export.rs:7), unless the export that put it there ran beside
\* another to the same destination, however many exports there were before and whatever
\* they left.  The rows that an interrupted export says are in its partial file are in it
\* (export.rs:11), with the same exception.
ExportsAreAsTold ==
    /\ ~mingled => IsWhole(out)
    /\ told.flush = "flushed" /\ told.alone => Exists(partial) /\ partial.length = told.rows

\* "A file that is present at the destination is a complete file" (export.rs:7), said of
\* every export.
DestinationIsComplete == IsWhole(out)
=============================================================================
