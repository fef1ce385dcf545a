----------------------------- MODULE LocalFiles -----------------------------
(***************************************************************************)
(* The files the client keeps: its configuration and the backups of its    *)
(* migrations (config/store.rs) and saved queries (queries.rs), written by *)
(* commands that run at the same time.  A temporary file has a name of its *)
(* own, so one that a crash leaves behind is never seen again.             *)
(***************************************************************************)
EXTENDS FileSystem

CONSTANTS
    Command,        \* processes that run a command each, one after the other
    Written,        \* configurations written by hand
    Candidate,      \* names for the backups of one second, in order: 0 .. 127
    MaxEdits,       \* bound on the files written by hand
    MaxFaults       \* bound on failing calls, killed processes and power failures

VARIABLES
    config, query,                 \* the files at these paths
    backup,                        \* the files at the names of the backups
    pc,                            \* what each process is about to do
    edits, faults

vars == <<config, query, backup, pc, edits, faults>>

\* A text and its length; a configuration says which version of the schema it has.
Text(kind, version, of) == [kind |-> kind, version |-> version, of |-> of, length |-> 2]
Handwritten == {Text("config", w[1], w[2]) : w \in Written}
Template    == Text("config", "current", "template")
Migrated(t) == Text("config", "current", t.of)
Query       == Text("query", "none", "query")

Idle == [at |-> "idle"]

Init ==
    /\ config \in {NoFile} \cup {WholeFile(t) : t \in Handwritten}
    /\ query = NoFile
    /\ backup = [c \in Candidate |-> NoFile]
    /\ pc = [p \in Command |-> Idle]
    /\ edits = 0 /\ faults = 0

Goto(p, state) == pc' = [pc EXCEPT ![p] = state]
Done(p) == Goto(p, Idle)

-----------------------------------------------------------------------------
\* Fault: the data is left to the system to write.
Unsynced(file) == file

Synced(file) == Put(file.text, file.length, file.length)

\* write_atomic(): a temporary file of its own, written, synced, renamed over the path.

Stage(at, path, text, temporary) ==
    [at |-> at, path |-> path, text |-> text, temporary |-> temporary]
Writing(path, text) == Stage("reserve", path, text, NoFile)

WriteTemporary(p) ==
    /\ pc[p].at = "reserve"
    /\ Goto(p, Stage("written", pc[p].path, pc[p].text, Put(pc[p].text, pc[p].text.length, 0)))
    /\ UNCHANGED <<config, query, backup, edits, faults>>

SyncTemporary(p) ==
    /\ pc[p].at = "written"
    /\ Goto(p, Stage("synced", pc[p].path, pc[p].text, Synced(pc[p].temporary)))
    /\ UNCHANGED <<config, query, backup, edits, faults>>

Rename(p) ==
    /\ pc[p].at = "synced"
    /\ IF pc[p].path = "config" THEN config' = pc[p].temporary /\ UNCHANGED query
                                ELSE query' = pc[p].temporary /\ UNCHANGED config
    /\ Done(p)
    /\ UNCHANGED <<backup, edits, faults>>

-----------------------------------------------------------------------------
\* config init: an existing file is only replaced when that is asked for.
ConfigInit(p, force) ==
    /\ pc[p] = Idle
    /\ Exists(config) => force
    /\ Goto(p, Writing("config", Template))
    /\ UNCHANGED <<config, query, backup, edits, faults>>

\* A saved query replaces the one of its name.
SaveQuery(p) ==
    /\ pc[p] = Idle
    /\ Goto(p, Writing("query", Query))
    /\ UNCHANGED <<config, query, backup, edits, faults>>

\* config migrate reads the file; there is something to do only when it parses, its
\* schema is older than this build's and this is not a dry run.
Migrate(p) ==
    /\ pc[p] = Idle
    /\ Exists(config) /\ config.text.version = "old"
    /\ Goto(p, [at |-> "backup", read |-> config.text])
    /\ UNCHANGED <<config, query, backup, edits, faults>>

\* Fault: the first name is taken whatever is there.
IsTheFirst(c) == \A b \in Candidate : c <= b

\* The first name that nothing has yet.
IsFree(c) == ~Exists(backup[c]) /\ \A b \in Candidate : b < c => Exists(backup[b])

\* The text that was read is written under a new name, when there is one.
Backup(p) ==
    /\ pc[p].at = "backup"
    /\ \/ /\ \A c \in Candidate : Exists(backup[c])
          /\ Done(p) /\ UNCHANGED backup
       \/ \E c \in Candidate :
            /\ IsFree(c)
            /\ backup' = [backup EXCEPT ![c] = Put(pc[p].read, pc[p].read.length, 0)]
            /\ Goto(p, [at |-> "syncing", read |-> pc[p].read, name |-> c])
    /\ UNCHANGED <<config, query, edits, faults>>

\* Its bytes are those that were parsed, and so are those of the migrated file.
SyncBackup(p) ==
    /\ pc[p].at = "syncing"
    /\ backup' = [backup EXCEPT ![pc[p].name] = WholeFile(pc[p].read)]
    /\ Goto(p, Writing("config", Migrated(pc[p].read)))
    /\ UNCHANGED <<config, query, edits, faults>>

-----------------------------------------------------------------------------
Fault == faults < MaxFaults /\ faults' = faults + 1

\* A call fails: the temporary file, or the backup that is not synced, is removed and
\* the command ends.
Fail(p) ==
    /\ Fault
    /\ pc[p] # Idle
    /\ backup' = IF pc[p].at = "syncing" THEN [backup EXCEPT ![pc[p].name] = NoFile] ELSE backup
    /\ Done(p)
    /\ UNCHANGED <<config, query, edits>>

\* The process is killed: whatever it wrote stays.
Kill(p) ==
    /\ Fault
    /\ pc[p] # Idle
    /\ Done(p)
    /\ UNCHANGED <<config, query, backup, edits>>

PowerFailure ==
    /\ Fault
    /\ config' \in Left(config) /\ query' \in Left(query)
    /\ \E kept \in [Candidate -> UNION {Left(backup[c]) : c \in Candidate}] :
         /\ \A c \in Candidate : kept[c] \in Left(backup[c])
         /\ backup' = kept
    /\ pc' = [p \in Command |-> Idle]
    /\ UNCHANGED edits

\* The user writes a configuration, or removes it.
Edit ==
    /\ edits < MaxEdits /\ edits' = edits + 1
    /\ config' \in {NoFile} \cup {WholeFile(t) : t \in Handwritten}
    /\ UNCHANGED <<query, backup, pc, faults>>

Next ==
    \/ Edit \/ PowerFailure
    \/ \E p \in Command :
         \/ WriteTemporary(p) \/ SyncTemporary(p) \/ Rename(p)
         \/ SaveQuery(p) \/ Migrate(p) \/ Backup(p) \/ SyncBackup(p)
         \/ Fail(p) \/ Kill(p)
         \/ \E force \in BOOLEAN : ConfigInit(p, force)

Spec == Init /\ [][Next]_vars

-----------------------------------------------------------------------------
\* Whatever fails or crashes, between whichever steps of whichever commands, the
\* configuration and the saved query at these paths are not there or are complete: a
\* crash leaves the old configuration intact (store.rs:5).
FilesAreWhole == IsWhole(config) /\ IsWhole(query)

\* While the configuration is one that was migrated, the text it was migrated from is
\* whole in a backup, also after a crash and with migrations of other texts in the
\* same second (store.rs:8).
MigrationIsBackedUp ==
    Exists(config) /\ config.text \in {Migrated(t) : t \in Handwritten} \ Handwritten =>
      \E c \in Candidate :
        /\ Exists(backup[c]) /\ IsWhole(backup[c])
        /\ backup[c].text.version = "old" /\ backup[c].text.of = config.text.of
=============================================================================
