---------------------------- MODULE HistoryFile ----------------------------
(***************************************************************************)
(* The statement history of history.rs: one file that every session of the  *)
(* same user appends to and prunes, and the list each session keeps of it   *)
(* (app/update.rs, cli/interactive.rs).                                     *)
(*                                                                         *)
(* One record() is several calls to the file system: open, write the text,  *)
(* write its end of line, read everything back and, when that is too long,  *)
(* replace the file by its newest entries.  Other sessions, `history clear` *)
(* and a crash may come between any two; within a session the event loop    *)
(* does nothing else meanwhile.                                             *)
(*                                                                         *)
(* An entry is its number.  The file is a sequence of lines, the last still *)
(* open, and a line is the sequence of the texts that were written to it:   *)
(* entries, and Torn for a text written in part.                            *)
(***************************************************************************)
EXTENDS Integers, SequencesExt

CONSTANTS
    Session,
    MaxEntries,    \* history.max_entries: how many the file keeps, 0 for all
    MemoryLimit,   \* IN_MEMORY_LIMIT: how many a session keeps in memory
    MaxRecorded,   \* bound on the statements recorded
    MaxFaults,     \* bound on crashes and failing calls
    MaxClears      \* bound on `history clear`

Torn == 0           \* a line that is no entry; those are 1 .. MaxRecorded

VARIABLES
    file,       \* the lines of the file at its path; one empty line when there is none
    pc,         \* where each session is in record()
    recording,  \* the entry each session is recording
    attached,   \* whether the file each session has open is still the one at the path
    kept,       \* what each session read back and is about to write
    inbox,      \* the messages about the history on their way to the model
    memory,     \* model.history, newest first
    recorded,   \* statements offered so far
    faults, clears,
    \* What has happened, for the properties only.
    written,    \* entries in the order their texts were written
    unpruned    \* texts written since the file was last seen to be short enough

session == <<pc, recording, attached, kept, inbox, memory>>
ghost   == <<written, unpruned>>
vars    == <<file, session, recorded, faults, clears, ghost>>

-----------------------------------------------------------------------------
\* entries(): a line that does not parse is skipped.
Whole(line) == Len(line) = 1 /\ line[1] # Torn
EntriesOf(lines) ==
    LET read[n \in 0 .. Len(lines)] ==
            IF n = 0 THEN <<>>
            ELSE IF Whole(lines[n]) THEN Append(read[n - 1], lines[n][1]) ELSE read[n - 1]
    IN read[Len(lines)]
Entries == EntriesOf(file)

\* recent(limit)
Recent(limit) == LET s == Reverse(Entries) IN SubSeq(s, 1, IF Len(s) < limit THEN Len(s) ELSE limit)

\* truncate(), as the list is loaded and as it grows.
Shortened(s) == SubSeq(s, 1, IF Len(s) < MemoryLimit THEN Len(s) ELSE MemoryLimit)

NoFile == << <<>> >>
Write(text) == file' = [file EXCEPT ![Len(file)] = Append(@, text)]

Loaded(s) == [kind |-> "loaded", entries |-> s]
Recorded(s) == [kind |-> "recorded", entries |-> s]

Init ==
    /\ file = NoFile
    /\ pc = [p \in Session |-> "off"] /\ recording = [p \in Session |-> Torn]
    /\ attached = [p \in Session |-> FALSE] /\ kept = [p \in Session |-> <<>>]
    /\ inbox = [p \in Session |-> <<>>] /\ memory = [p \in Session |-> <<>>]
    /\ recorded = 0 /\ faults = 0 /\ clears = 0
    /\ written = <<>> /\ unpruned = 0

-----------------------------------------------------------------------------
(* A session and its list.                                                 *)

\* The history is read once, before the event loop, and sent to the model.
Start(p) ==
    /\ pc[p] = "off"
    /\ pc' = [pc EXCEPT ![p] = "idle"]
    /\ inbox' = [inbox EXCEPT ![p] = <<Loaded(Recent(MemoryLimit))>>]
    /\ memory' = [memory EXCEPT ![p] = <<>>]
    /\ UNCHANGED <<file, recording, attached, kept, recorded, faults, clears, ghost>>

\* HistoryLoaded replaces the list; HistoryRecorded puts what was written in front.
Receive(p) ==
    /\ pc[p] = "idle" /\ inbox[p] # <<>>
    /\ inbox' = [inbox EXCEPT ![p] = Tail(@)]
    /\ LET m == Head(inbox[p]) IN
       memory' = [memory EXCEPT ![p] =
         Shortened(IF m.kind = "loaded" THEN m.entries ELSE m.entries \o @)]
    /\ UNCHANGED <<file, pc, recording, attached, kept, recorded, faults, clears, ghost>>

Quit(p) ==
    /\ pc[p] = "idle"
    /\ pc' = [pc EXCEPT ![p] = "off"]
    /\ inbox' = [inbox EXCEPT ![p] = <<>>] /\ memory' = [memory EXCEPT ![p] = <<>>]
    /\ UNCHANGED <<file, recording, attached, kept, recorded, faults, clears, ghost>>

-----------------------------------------------------------------------------
(* record(), call by call.                                                 *)

\* What record() tells the model once it returns: the entry, when it was written.
Return(p, entries) ==
    /\ pc' = [pc EXCEPT ![p] = "idle"]
    /\ inbox' = [inbox EXCEPT ![p] = Append(@, Recorded(entries))]
    /\ recording' = [recording EXCEPT ![p] = Torn]
    /\ attached' = [attached EXCEPT ![p] = FALSE]
    /\ kept' = [kept EXCEPT ![p] = <<>>]
    /\ UNCHANGED memory

\* A statement that is refused: it mentions a credential, or is empty.
Refuse(p) ==
    /\ pc[p] = "idle" /\ recorded < MaxRecorded
    /\ recorded' = recorded + 1
    /\ Return(p, <<>>)
    /\ UNCHANGED <<file, faults, clears, ghost>>

Open(p) ==
    /\ pc[p] = "idle" /\ recorded < MaxRecorded
    /\ recorded' = recorded + 1
    /\ recording' = [recording EXCEPT ![p] = recorded + 1]
    /\ attached' = [attached EXCEPT ![p] = TRUE]
    /\ pc' = [pc EXCEPT ![p] = "opened"]
    /\ UNCHANGED <<file, kept, inbox, memory, faults, clears, ghost>>

\* The file is opened to append, so a text goes to whatever line is last; when the
\* path has been renamed over or removed meanwhile, it goes to no one's file.
WriteText(p) ==
    /\ pc[p] = "opened"
    /\ pc' = [pc EXCEPT ![p] = "texted"]
    /\ written' = Append(written, recording[p])
    /\ IF attached[p] THEN Write(recording[p]) /\ unpruned' = unpruned + 1
                      ELSE UNCHANGED <<file, unpruned>>
    /\ UNCHANGED <<recording, attached, kept, inbox, memory, recorded, faults, clears>>

EndLine(p) ==
    /\ pc[p] = "texted"
    /\ pc' = [pc EXCEPT ![p] = "ended"]
    /\ file' = IF attached[p] THEN Append(file, <<>>) ELSE file
    /\ UNCHANGED <<recording, attached, kept, inbox, memory, recorded, faults, clears, ghost>>

Newest == SubSeq(Entries, Len(Entries) - MaxEntries + 1, Len(Entries))

TooLong == MaxEntries # 0 /\ Len(Entries) > MaxEntries

\* prune() reads the file back, and is done unless it is too long.
ReadBack(p) ==
    /\ pc[p] = "ended"
    /\ IF TooLong
       THEN /\ pc' = [pc EXCEPT ![p] = "pruning"]
            /\ kept' = [kept EXCEPT ![p] = Newest]
            /\ UNCHANGED <<recording, attached, inbox, memory, unpruned>>
       ELSE /\ Return(p, <<recording[p]>>)
            /\ unpruned' = 0
    /\ UNCHANGED <<file, recorded, faults, clears, written>>

\* Fault: the last line is left open.
LinesUnended(entries) == [i \in DOMAIN entries |-> <<entries[i]>>]

Lines(entries) == Append([i \in DOMAIN entries |-> <<entries[i]>>], <<>>)

ReplaceBy(p, lines) ==
    /\ pc[p] = "pruning"
    /\ file' = lines
    /\ attached' = [q \in Session |-> FALSE]
    /\ pc' = [pc EXCEPT ![p] = "idle"]
    /\ inbox' = [inbox EXCEPT ![p] = Append(@, Recorded(<<recording[p]>>))]
    /\ recording' = [recording EXCEPT ![p] = Torn]
    /\ kept' = [kept EXCEPT ![p] = <<>>]
    /\ unpruned' = 0
    /\ UNCHANGED <<memory, recorded, faults, clears, written>>

\* Fault: the file is not truncated before its newest entries are written.
ReplaceAppending(p) == ReplaceBy(p, Append(file, <<>>) \o Lines(kept[p]))

\* write_atomic(): a complete temporary file is renamed over the path.
Replace(p) == ReplaceBy(p, Lines(kept[p]))

-----------------------------------------------------------------------------
(* What goes wrong.                                                        *)

Fault == faults < MaxFaults /\ faults' = faults + 1

\* Some of the text is on the disk.
Tear(p) ==
    IF attached[p] THEN file' = file \/ Write(Torn) ELSE UNCHANGED file

\* A call fails and record() returns its error: the text may be there in part, or
\* whole but without its end of line or without the pruning that should follow.
Fail(p) ==
    /\ Fault
    /\ pc[p] \in {"opened", "texted", "ended", "pruning"}
    /\ IF pc[p] = "opened" THEN Tear(p) ELSE UNCHANGED file
    /\ Return(p, <<>>)
    /\ UNCHANGED <<recorded, clears, ghost>>

\* The process dies.
Crash(p) ==
    /\ Fault
    /\ pc[p] # "off"
    /\ IF pc[p] = "opened" THEN Tear(p) ELSE UNCHANGED file
    /\ pc' = [pc EXCEPT ![p] = "off"]
    /\ recording' = [recording EXCEPT ![p] = Torn]
    /\ attached' = [attached EXCEPT ![p] = FALSE]
    /\ kept' = [kept EXCEPT ![p] = <<>>]
    /\ inbox' = [inbox EXCEPT ![p] = <<>>] /\ memory' = [memory EXCEPT ![p] = <<>>]
    /\ UNCHANGED <<recorded, clears, ghost>>

\* Another process runs `history clear`: the file is removed.
Clear ==
    /\ clears < MaxClears
    /\ clears' = clears + 1
    /\ file' = NoFile
    /\ attached' = [p \in Session |-> FALSE]
    /\ unpruned' = 0
    /\ UNCHANGED <<pc, recording, kept, inbox, memory, recorded, faults, written>>

Next ==
    \/ Clear
    \/ \E p \in Session :
         \/ Start(p) \/ Receive(p) \/ Quit(p) \/ Refuse(p)
         \/ Open(p) \/ WriteText(p) \/ EndLine(p) \/ ReadBack(p) \/ Replace(p)
         \/ Fail(p) \/ Crash(p)

Spec == Init /\ [][Next]_vars

-----------------------------------------------------------------------------
\* s has its entries in the order they were written in, each at most once.
InOrder(s) ==
    \A i, j \in DOMAIN s : i < j =>
      \E k, l \in DOMAIN written : k < l /\ written[k] = s[i] /\ written[l] = s[j]

\* Whatever the sessions, crashes, failures and clears: what is read back was written, in
\* that order and once, so that a prune that works on an old reading never brings an
\* entry back behind a newer one; what a session offers to run again is newest first
\* and offered once, although it is put together from a reading and from its own
\* reports; and the file outgrows its length by no more than the texts whose record()
\* has not yet seen it short enough, also when some never will (history.rs:280 and 326).
SharedStaysInOrder ==
    /\ InOrder(Entries)
    /\ \A p \in Session : InOrder(Reverse(memory[p]))
    /\ MaxEntries # 0 => Len(Entries) <= MaxEntries + unpruned

\* The log that a session alone with the file is promised: what is to be pruned is not
\* in it any more.
Log == IF TooLong THEN Newest ELSE Entries
=============================================================================
