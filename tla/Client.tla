------------------------------- MODULE Client -------------------------------
(***************************************************************************)
(* What the client does besides the interactive screen: the history of     *)
(* statements that several sessions share (HistoryFile) and one alone      *)
(* keeps (BoundedLog), the files it keeps (LocalFiles) and those it exports *)
(* (Exports), one run of a buffer on a session (Execution), the clients    *)
(* without a screen (LineClients), the targets it connects to (Targets)    *)
(* and the files of its releases (ReleaseGate).                            *)
(*                                                                         *)
(* No two of these share state, so that interleaving them adds no state of *)
(* any one of them: a behaviour is of one part, and the variables of the   *)
(* others have no value.                                                   *)
(***************************************************************************)
EXTENDS Integers, Sequences

CONSTANTS
    Session, MaxEntries, MemoryLimit, MaxRecorded, MaxFaults, MaxClears, \* HistoryFile
    AloneEntries, AloneRecorded,                       \* of a session alone with it
    Command, Written, Candidate, MaxEdits,             \* LocalFiles, also Command in Exports
    MaxRows, MaxRemovals,                              \* Exports
    Buffer, Cap, Limit, ValueLimit, MaxTroubles,       \* Execution
    Typed, Metas, MaxLines,                            \* LineClients
    Asked, Profiles, Services, Environments, PasswordFiles, MaxAttempts, \* Targets
    Target, MaxRev, MaxBytes, MaxReviews               \* ReleaseGate

\* A row, and a description, is charged for more than its text (retention_budget.rs:217).
\* A comment goes on to the end of its line.
ASSUME ClientAssumption ==
    /\ \A w \in Written : w[2] # "template"
    /\ MaxRows \in Nat
    /\ Buffer \subseteq Seq([does : {"read", "begin", "end", "set", "fail"}, names : Nat,
                             rows : Seq(Nat \ {0})])
    /\ Cap \subseteq Nat /\ Limit \in Nat
    /\ MaxEntries \in Nat /\ MemoryLimit \in Nat
    /\ AloneEntries \in Nat /\ AloneRecorded \in Nat
    /\ \A l \in Typed : l \in Seq(STRING) /\ \A i \in 1 .. Len(l) : l[i] = "--" => i = Len(l)

VARIABLES
    part,       \* the part that this behaviour is of
    file, pc, recording, attached, kept, inbox, memory, recorded, faults, clears,
    written, unpruned,                                               \* HistoryFile
    config, query, backup, doing, edits, failures,                   \* LocalFiles
    out, partial, exporter, told, removals, losses, beside, mingled, \* Exports
    buffer, bound, cap, step, index, backend, arrived, set, budget, results, outcome,
    misread, troubles,                                               \* Execution
    way, awaits, reader, list, sql, tail, typed, server, exit, lines, answered, ran, \* LineClients
    client, asked, env, at, args, text, target, opened, failure, attempts, \* Targets
    head, archive, record, catalogue, bundle, reviews                     \* ReleaseGate

H == INSTANCE HistoryFile
A == INSTANCE HistoryFile WITH
        Session <- {"alone"}, MaxEntries <- AloneEntries, MaxRecorded <- AloneRecorded,
        MaxFaults <- 0, MaxClears <- 0
F == INSTANCE LocalFiles WITH pc <- doing, faults <- failures
E == INSTANCE Exports WITH
        pc <- exporter, edits <- removals, faults <- losses, MaxEdits <- MaxRemovals
X == INSTANCE Execution WITH at <- step, server <- backend
L == INSTANCE LineClients WITH at <- awaits
T == INSTANCE Targets
R == INSTANCE ReleaseGate WITH edits <- reviews, MaxEdits <- MaxReviews

history   == <<file, pc, recording, attached, kept, inbox, memory, recorded, faults, clears,
               written, unpruned>>
files     == <<config, query, backup, doing, edits, failures>>
exports   == <<out, partial, exporter, told, removals, losses, beside, mingled>>
execution == <<buffer, bound, cap, step, index, backend, arrived, set, budget, results,
               outcome, misread, troubles>>
clients   == <<way, awaits, reader, list, sql, tail, typed, server, exit, lines, answered, ran>>
targets   == <<client, asked, env, at, args, text, target, opened, failure, attempts>>
release   == <<head, archive, record, catalogue, bundle, reviews>>
vars      == <<part, history, files, exports, execution, clients, targets, release>>

Parts == {"history", "alone", "files", "exports", "execution", "lines", "targets", "release"}

-----------------------------------------------------------------------------
\* The variables of a part that does not move.
NoHistory ==
    /\ file = 0 /\ pc = 0 /\ recording = 0 /\ attached = 0 /\ kept = 0 /\ inbox = 0
    /\ memory = 0 /\ recorded = 0 /\ faults = 0 /\ clears = 0 /\ written = 0 /\ unpruned = 0

NoFiles ==
    /\ config = 0 /\ query = 0 /\ backup = 0 /\ doing = 0 /\ edits = 0 /\ failures = 0

NoExports ==
    /\ out = 0 /\ partial = 0 /\ exporter = 0 /\ told = 0 /\ removals = 0 /\ losses = 0
    /\ beside = 0 /\ mingled = 0

NoExecution ==
    /\ buffer = 0 /\ bound = 0 /\ cap = 0 /\ step = 0 /\ index = 0 /\ backend = 0
    /\ arrived = 0 /\ set = 0 /\ budget = 0 /\ results = 0 /\ outcome = 0 /\ misread = 0
    /\ troubles = 0

NoLines ==
    /\ way = 0 /\ awaits = 0 /\ reader = 0 /\ list = 0 /\ sql = 0 /\ tail = 0 /\ typed = 0
    /\ server = 0 /\ exit = 0 /\ lines = 0 /\ answered = 0 /\ ran = 0

NoTargets ==
    /\ client = 0 /\ asked = 0 /\ env = 0 /\ at = 0 /\ args = 0 /\ text = 0 /\ target = 0
    /\ opened = 0 /\ failure = 0 /\ attempts = 0

NoRelease ==
    /\ head = 0 /\ archive = 0 /\ record = 0 /\ catalogue = 0 /\ bundle = 0
    /\ reviews = 0

Init ==
    /\ part \in Parts
    /\ CASE part = "history" -> H!Init [] part = "alone" -> A!Init [] OTHER -> NoHistory
    /\ IF part = "files" THEN F!Init ELSE NoFiles
    /\ IF part = "exports" THEN E!Init ELSE NoExports
    /\ IF part = "execution" THEN X!Init ELSE NoExecution
    /\ IF part = "lines" THEN L!Init ELSE NoLines
    /\ IF part = "targets" THEN T!Init ELSE NoTargets
    /\ IF part = "release" THEN R!Init ELSE NoRelease

Next ==
    /\ UNCHANGED part
    /\ \/ /\ \/ part = "history" /\ H!Next
             \/ part = "alone" /\ A!Next
          /\ UNCHANGED <<files, exports, execution, clients, targets, release>>
       \/ /\ part = "files" /\ F!Next
          /\ UNCHANGED <<history, exports, execution, clients, targets, release>>
       \/ /\ part = "exports" /\ E!Next
          /\ UNCHANGED <<history, files, execution, clients, targets, release>>
       \/ /\ part = "execution" /\ X!Next
          /\ UNCHANGED <<history, files, exports, clients, targets, release>>
       \/ /\ part = "lines" /\ L!Next
          /\ UNCHANGED <<history, files, exports, execution, targets, release>>
       \/ /\ part = "targets" /\ T!Next
          /\ UNCHANGED <<history, files, exports, execution, clients, release>>
       \/ /\ part = "release" /\ R!Next
          /\ UNCHANGED <<history, files, exports, execution, clients, targets>>

Spec == Init /\ [][Next]_vars

-----------------------------------------------------------------------------
\* Whatever the sessions, crashes, failures and clears, what is read back and what is
\* offered is in order and unrepeated, and the file stays near its length
\* (history.rs:280 and 326).
SharedStaysInOrder == part = "history" => H!SharedStaysInOrder

\* A session alone with the file has the history it was promised: the newest statements,
\* over restarts (history.rs:320).
Promised == INSTANCE BoundedLog WITH
                Statement <- 1 .. AloneRecorded, MaxEntries <- AloneEntries,
                log <- IF part = "alone" THEN A!Log ELSE <<>>
KeepsTheNewest == Promised!Spec

\* The configuration and a saved query are not there or complete, whatever fails
\* (store.rs:5).
FilesAreWhole == part = "files" => F!FilesAreWhole

\* So is an export, and what an interrupted one says is there is, unless two exports to it
\* ran at the same time (export.rs:7).
ExportsAreAsTold == part = "exports" => E!ExportsAreAsTold

\* A configuration that was migrated has its original whole in a backup (store.rs:8).
MigrationIsBackedUp == part = "files" => F!MigrationIsBackedUp

\* What a run kept is a prefix of what arrived, within the cap and the allowance, and
\* what it did not keep is counted and its cause told (query/result.rs:489); so is the
\* transaction (session.rs:443).
RunIsToldTruly == part = "execution" => X!RunIsToldTruly

\* Text that values were bound to is never carried out by a server that reads literals
\* otherwise (session.rs:677).
BoundTextMeetsItsLexer == part = "execution" => X!BoundTextMeetsItsLexer

\* A list of completions is of the lines it would be put into (plain.rs:360).
ListIsOfTheseLines == part = "lines" => L!ListIsOfTheseLines

\* What the plain client sends is whole, and confirmed where that is asked for
\* (plain.rs:80 and 455).
SentIsWholeAndConfirmed == part = "lines" => L!SentIsWholeAndConfirmed

\* Every connection is protected as it was asked for (target.rs:668, cloud.rs:245).
OpenedAsAsked == part = "targets" => T!OpenedAsAsked

\* A catalogue that is ready has the evidence that is required (release.rs:5).
ReadyIsWhole == part = "release" => R!ReadyIsWhole
=============================================================================
