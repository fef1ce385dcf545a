# Ignatius in TLA+

TLA+ models of [Ignatius](../src/README.md), a terminal client for PostgreSQL written in Rust:
what its interactive screen, its sessions, its line clients, its local files and its release tooling do
when their steps interleave, are late, are lost or are interrupted; TLC runs that check those models on small
instances; and proofs, checked by TLAPS, of the results that matter most, for every value of the
constants.

## The system

The interactive client is a reducer, an event loop and a set of asynchronous workers.

* **The reducer** (`src/app/update.rs`, `src/app/model.rs`) is a pure function from a model and a
  message to a model and a list of effects. It owns what is on screen: the connection state, the
  phase of the foreground statement, the open prompts and reviews, the last result, the tree, the
  notices, the in-memory history.
* **The event loop** (`src/cli/interactive.rs`, `event_loop`) takes messages from one unbounded
  queue, reduces each, performs its effects and redraws. It shares a connection generation counter,
  a target slot and a session slot with the workers.
* **Workers** (`spawn_connect`, `spawn_execute`, `spawn_explain`, `spawn_cancel`, the tree loaders)
  are asynchronous tasks. Each is given the generation it was started in, rechecks it after its
  awaits, and answers through the queue in an envelope that names the generation.
* **Sessions** (`src/postgres/session.rs`) own a PostgreSQL connection: a gate that admits one
  statement at a time, a transaction probe after each, a cancel handle that opens a connection of
  its own, and the bounded notice inbox (`src/postgres/notices.rs`).
* **Local state** is the history file (`src/history.rs`), the saved queries (`src/queries.rs`) and
  the configuration (`src/config/store.rs`), written by any number of client processes with no lock
  between them, through `platform::write_atomic`.
* **The line clients** (`src/cli/plain.rs`, `query` and `export` in `src/cli/mod.rs`) run one statement
  at a time without the loop.
* **Targets** (`src/connection/`) put a connection together from options, a connection string, a profile,
  a service file, the environment and a password file.
* **The release tooling** (`xtask/src/release.rs`) makes and judges the files of a release. It is a
  program of its own.

Paths are relative to the root of the repository; in tables `app/update.rs` stands for
`src/app/update.rs`.

## The inventory

What each component keeps, does and shares, what is hard about it, and what makes it correct.

| Component | State | Operations | What is hard | What makes it correct |
| --- | --- | --- | --- | --- |
| Foreground lifecycle: reducer, loop, workers, session (`Lifecycle`) | generation, connection, phase, plan, reviews, password prompt, last result; counter, target slot, session slot, queue; each worker's place | connect, switch, retry a password, run, plan, confirm, cancel, quit, and every answer | five kinds of task beside one loop, shared slots behind locks, a switch in the middle of anything, a cancellation on a connection of its own, a session that dies at any time | what is shown is of this connection and of the job that was in flight; whatever is busy has somebody who will end it |
| Notice inbox (`NoticeInbox`, `NoticeCounts`) | an idle window, the operation's window and its prelude, counters that saturate, what has been reported, the privacy that was switched on | observe, poll, begin, take, finish, drop, privatize | the driver task writes while callers poll, futures are dropped, a session becomes private with server text in hand | every notice is delivered, held or counted as lost; windows are bounded; nothing public leaves a private session |
| Object tree, catalogue, panels (`ObjectReads`) | nodes with the identity they wait for, the completion request, the definition panel, the dependency list; two slots | reload, expand, show, close, and each answer | answers in any order, on either of two sessions, after what asked is gone | a node shows its own objects; a panel is about what was asked last; what waits is attended |
| UPDATE of a cell, refresh (`CellUpdate`, `CellReview`) | the result, the grid's sort, filter and selection, the lookup, the prompt, the review, the running statement | ask, look up, type, review, send, refresh, with everything that can come between | a chain of five steps with the grid, the result, the keyboard and the connection changing between any two | one cell from the key to the write, that of the row on screen; sent out of its review, once |
| Input surfaces (`Surfaces`) | which of some twenty prompts, reviews, menus and panels are open, what text each was made from, what is awaited | every key, paste, click and answer that opens, closes, feeds or drops one | one answer closes a surface another key opened; a menu offers words of a text that has changed; a chord is half typed | the key goes to what is drawn on top; no text changes out of sight; a mark is of the text it was made from |
| Editor (`Editor`) | text, cursor, goal column, snapshots, the run an undo takes back, the saved mark | type, paste, delete, move, undo, redo, replace | long sequences of edits, the limit of the snapshots | an undo takes back one word, or one edit |
| Panes (`Panes`) | preferred splits, zoom, focus, a drag, what must be seen | keys, drags, resizes, answers | a preference made at one size is drawn at another; an error comes to a zoomed screen | the panes fill the body and none is below its minimum; trouble is drawn |
| Result grid (`Grid`) | sort, filter, selection, hidden, frozen and resized columns | the keys of the grid | columns that are hidden or frozen at widths that do not fit; rows that the sort moves under the selection | the selected column is in the window; sorting keeps the row |
| One run of a buffer (`Execution`) | the place in the buffer, rows kept and dropped, bytes charged, the transaction | check, send, describe, row, complete, probe | a limit reached in the middle of a row, a cancel or a lost connection at every request, a statement that changes how the next is read | what is kept is a prefix and the rest is counted; bound text meets the lexer it was written for |
| Statement history (`HistoryFile`, `BoundedLog`) | the file; the list each session keeps | record (open, append, end of line, read back, replace), clear, load | several processes and no lock, crashes and failing calls between two writes | what is read back is in order and unrepeated, the file stays near its length, one user alone has a log of the newest entries |
| Configuration, saved queries (`LocalFiles`) | the files at their paths, the backups | init, migrate, save | a crash or a power failure between any two calls, two processes, an edit in between | a file at its path is absent or complete; a migrated file has its original |
| Exports (`Exports`) | the destination, the partial file beside it, a handle and a buffer in each process | open, write a row, finish, abandon | a crash between any two calls, an older partial file, two exports whose partial file has one name | a file at its destination is absent or complete; what is told of a partial file is so |
| Line clients (`LineClients`) | the lines collected, the list of completions, what is awaited, the server's transaction | a line, a meta-command, the end of input, an answer | a statement is put together over lines, completions, formatting, a confirmation and values | what is sent is what was typed and completed, confirmed where that is asked for; a list is of the lines it goes into |
| Targets, services, password files, identity, TLS (`Targets`) | the layers, the answers given | resolve, ask, probe, open | which layer wins, what a refusal leaves, a password that is added afterwards | what is opened is as protected as the layer that spoke first asked for |
| Release tooling (`ReleaseGate`) | records, catalogue, archives, the evidence bundle | the commands of `xtask release` that write, its check, and people between two of them | the same commands again after something changed by hand | readiness does not outlive its evidence |
| Notices on screen, clipboard, terminal, palettes and picker, plan panel, completion analysis, catalogue queries, diagnostics | none of their own, or what the modules above keep for them | pure functions, one call of a library, text | boundaries in text | left to the repository's tests |

The interactions that matter are these. The reducer's effects are performed by the loop, which
spawns workers; workers answer by messages in an envelope that carries their generation, and the
loop drops an envelope of another one (`Lifecycle`, `ObjectReads`). Workers read the session slot,
check the generation, and use whatever they read after that (`Lifecycle`, `ObjectReads`). Every
statement runs under the session's gate, which is also what lets a notice inbox know whose
notice it is holding (`NoticeInbox`). And every key goes through one order of surfaces, in which a
prompt of one component hides the keys of another (`Surfaces`; closely, `Lifecycle` and `CellUpdate`).

## The modules

| Module | Lines of the code | What it is |
| --- | --- | --- |
| `Lifecycle` | `app/update.rs`, `app/model.rs`, `cli/interactive.rs`, `postgres/session.rs`, `app/message.rs` | reducer, loop, workers, session |
| `Foreground` | | the abstract promise of the lifecycle |
| `LifecycleInvariant` | | its inductive invariant |
| `LifecycleTheorems`, `WorkTheorems` | | proofs: jobs and results; connections, work in flight and reviews |
| `NoticeCounts`, `NoticeInbox` | `postgres/notices.rs`, and its callers in `session.rs` | counters that saturate; the inbox |
| `NoticeInboxTheorems` | | proofs about both |
| `ObjectReads`, `ObjectReadsMC` | `update.rs`, `app/tree.rs`, `app/completion.rs`, `interactive.rs` | catalogue reads beside the statement; the symmetry of its schemas |
| `ObjectReadsTheorems` | | proofs |
| `Background` | | the inbox and the reads on one instance |
| `CellUpdate`, `CellReview` | `update.rs`, `model.rs`, `interactive.rs`, `query/update.rs`, `postgres/metadata.rs` | the UPDATE of a cell, the refresh; what the review of an UPDATE promises |
| `CellUpdateTheorems` | | proofs |
| `Surfaces` | `update.rs`, `app/discovery.rs`, `app/palette.rs`, `ui/widgets/mod.rs`, `model.rs` | which surface a key reaches, and what becomes of the text |
| `Editor` | `app/editor.rs` | the buffer, undo and redo |
| `Panes` | `ui/layout.rs`, `update.rs` | geometry, zoom, drags, what must be seen |
| `Grid` | `app/grid.rs`, `update.rs`, `ui/widgets/results.rs` | sort, filter, columns and the window of them |
| `Workspace`, `WorkspaceMC` | | the four on one instance; its values |
| `WorkspaceTheorems` | | proofs about the panes, the surfaces, the buffer and the columns of the grid |
| `HistoryFile`, `BoundedLog` | `history.rs`, `platform/atomic.rs`, and the history's messages in `update.rs` and `interactive.rs` | the file and the sessions on it; what one user is promised of it |
| `FileSystem` | | a file: what was written, what is there, what outlasts a power failure |
| `LocalFiles` | `platform/atomic.rs`, `config/store.rs`, `queries.rs`, `cli/mod.rs` | the configuration, its backups and the saved queries, under crashes |
| `Exports` | `query/export.rs`, `cli/output.rs`, `interactive.rs` | exports to one destination, under crashes and beside one another |
| `Execution` | `postgres/session.rs`, `query/result.rs`, `query/result/retention_budget.rs`, `postgres/error.rs` | one run of a buffer |
| `LineClients` | `cli/plain.rs`, `cli/prompt.rs`, `cli/mod.rs`, `query/statements.rs`, `query/classify.rs`, `query/parameters.rs`, `query/format.rs` | the plain client and one-shot queries |
| `Targets` | `connection/*.rs`, `cli/mod.rs`, `postgres/tls.rs`, `postgres/session.rs` | where a connection goes and how it is protected |
| `ReleaseGate` | `xtask/src/release.rs` | the files of a release |
| `Client`, `ClientMC` | | these from `HistoryFile` on, on one instance; its values |
| `RunAndHistoryTheorems` | | proofs about `Execution` and `HistoryFile` |
| `ClientTheorems` | | proofs about `LocalFiles`, `Exports`, `Targets`, `ReleaseGate` and `LineClients` |

An operator whose comment begins with *fault* is not part of a specification: it is a definition
with a plausible mistake in it, which a property must notice when it takes the other's place
(`PROJECT.json`, `mutants`).

`Workspace`, `Background` and `Client` put parts side by side that share no variable. A behaviour is of one part:
the others stay as they start, or have no value, because interleaving parts that share nothing adds no state
of any one of them. Their properties say for each part what its own module says.

### Lifecycle

`model` is the reducer's state, `loop` the effect it has returned and the loop has not yet
performed, `shared` the counter, the slots and the queue, `workers` where each task is. The
reducer takes a step on a key (`UserAction`, `Quit`) or on the first message (`ReduceMessage`);
both wait for `Quiet`, because the loop performs an effect before it takes the next message, and
every handler here returns at most one. `PerformEffect` bumps the counter, clears the slots and
spawns. A worker is a program counter per `await`: an attempt is preparing, starting, opening,
requested, pending, acknowledged; a job's task is spawned, ready (it has read the slot), waiting
for the gate, executing, probing, answered; a canceller is spawned, ready, sent. `SessionDies`
may happen at any time.

What is abstracted. A worker's last check and its send are one step, since the envelope carries
the worker's generation and the loop compares it again. The first check of a worker and its
reading of the slot are one step. What a cancellation reports (delivered, failed) changes only a
notice and is left out. `spawn_metadata`'s second session is in `ObjectReads`. A `try_write` of the
slot that finds it locked is not modelled. Quitting ends everything. A job's outcome is one of
four, a transaction's state one of three; what the statement was is of no matter to any handler.

Properties. `ResultOfThisConnection`: the result on screen was produced in this generation on the
session that is installed. `ConnectedHasSession`: *connected* is never shown without a live slot.
`BusyJobIsAttended`: whatever is busy has an effect, a worker or an answer that will end it.
`GateUncontended`: the gate never holds up a statement of the person's. `PromptCanRetry`: a password
prompt has the target it would retry. `HistoryIsTruthful`: what is recorded is a statement that ran,
with its outcome. `OneReviewOwner`: of the reviews, the one that gets the key is determined.
`ResultsComeFromTheJobInFlight`: the result changes only to that of the job in flight.
`ConnectingSettles`: liveness. `KeepsPromise`: with `epoch`, `made`, `cur`, `shown`
taken from the model, the whole implements `Foreground`, its liveness included.

### NoticeInbox

`observed` notices arrive one at a time from the connection's driver task (`Observe`), with text
that is short, or long enough to be shortened, into the idle window or the operation's. A caller
enters the gate, may switch privacy on, begins (the idle window becomes the prelude), takes what
belongs to its statement, and finishes or is dropped with its future; polling takes the idle
window. `Batch` counts entries by what happened to their text; the counters are `NoticeCount`
values, exact, *at least n* or unknown, with the addition and subtraction of `notices.rs`.

What is abstracted. Each notice carries an SQLSTATE, so that the text put in the place of a private
one has one size, `PrivateBytes`. The sums of bytes are naturals: a `usize` holds any window. A
poisoned lock is not modelled. An operation's token is its caller: the gate admits one. The
assumptions are those the constants of the code meet: a window full of private notices fits in
`MaxText`, and the counters count at least a window (`MaxCount <= CountMax`).

`EveryNoticeIsAccountedFor` says of every counter, whatever saturated, that it is truthful about
what was refused, shortened or dropped; `ReportsCatchUp` that what has been reported and what has
not add up to the totals; `PrivacyIsSticky` that no public notice is delivered after privacy.

### ObjectReads

A `Read` is a record of what was asked, with the identity, generation and slot it was asked with;
it is queued, then has read its slot and is on the wire, then is served: the answer, its envelope and its
reduction are one step. A node, a panel, a list and the completion catalogue each keep the identity
they wait for. `id` of a listing of schemas is a reload number, which the code does not have: it is
there for properties, no guard reads it. A schema is a name, and an object of it is told by the
schema it is in.

Left out: the extensions root, the columns of a relation, the filter and selection of the tree
(no read depends on them), a lost connection (it only disables keys), and the lookup for a cell's
UPDATE, which is in `CellUpdate`. The tree's first opening is `Reload`; the palette opened from the
connection panel is `CloseOverlay` and then `OpenPalette`.

### CellUpdate

The grid is `kept`, the source rows the filter leaves, and `order`, which gives every row its rank; a
row's place is how many of the kept rows are ranked up to it. `SelectedSourceRow` is computed from
these as the code does, so that sorting, filtering and moving change which row a later step reads.
The chain is `lookup` (asked, its read in `reads`), `prompt`, `pending`, and `sent`, what the job in
flight sent; beside it `parameters` asks for the values of a run or a refresh. `overlay` is any
other owner of the keyboard, told apart only as far as some keys of the grid reach the filter and
the inspector. Statements are four `Sources`, told apart by what the code tells apart: whether the
source can be edited and refreshed, names its schema, asks for parameters. `path` is which schema
a bare name finds in the session that runs statements; the second session keeps a fresh one's.

Left out: answers of other jobs than the one in flight (`Lifecycle` checks that they are dropped),
hidden columns but for the selection they move (`MoveColumn`), the values and NULL keys that
`plan_update` refuses (a refused replacement leaves everything as it is), clipped reviews, copying.
A saved query or a list may be answered at any time (`Loaded`). The slot of a lookup is chosen at
its key.

### HistoryFile

A line is the sequence of texts written to it, because `record` writes the entry and its end of
line in two calls (`writeln!` to an unbuffered file) and another process may write between them.
A session's program counter is in front of each call; `attached` says whether the file it has
open is still the one at the path after a rename or a removal. `Refuse` stands for pausing,
disabling and the credential list, `Fail`, `Tear` and `Crash` for a call that fails, a write that
is cut, and the end of a process. A plain client's session keeps no list and is not one of
`Session`.

Alone and without faults the file implements `BoundedLog` (`KeepsTheNewest`), and so is a session over its restarts.
With two sessions, a fault and a clear, only less is true, and it is what `SharedStaysInOrder` says: what is read
back and what is offered is in order and unrepeated, and the file stays near its length.

### Surfaces

`open` maps each open surface to what it holds: the revision of the text that a menu, a confirmation or
a parameter prompt was made from, the purpose of a palette or of a name prompt. A revision stands for the
text it numbers; `buf` says which one is in the editor, which one is the file's and which the error marker
is of. An answer that is awaited is in `asked` and may come at any later time. One operator gives the
order in which `update.rs` asks who takes a key, one the order in which `ui/layout.rs` draws, and they
are not the same list: that the drawn one gets the key is `TopmostOwnsKeyboard`.

What is abstracted. What an analysis of the text says (a word to complete, a statement to confirm,
parameters to ask for, nothing to run) is either way. Quitting ends the behaviour and is left out.

Properties. `TopmostOwnsKeyboard`. `EditsAreSeen`: the text changes under a prompt or a menu only in the
ways that are meant to. `MenuFollowsTheText`: a menu offers what completes the text under it, whatever
answers come. `MarkIsOfThisText`: the error marker points into the text that failed.

### Editor, Panes, Grid

The editor's text is a sequence of classes of characters: words and their blanks decide what an undo takes
back, and nothing else about a character matters. Snapshots are bounded, runs are broken by moves, and a
paste, a replacement and a redo are runs of their own (`UndoTakesOneWord`).

A pane is a rectangle. The clamps of the code panic on an empty range, so `PanesFit` says also that none is
asked for one. The terminals run from too small to full; a preference is made at one and
drawn at another, with a drag that a resize interrupts. `TroubleIsDrawn` is about every way in which an
error, the focus and the zoom can meet.

A cell of the grid is NULL, a text with a rank, or a number with the spelling that `DecimalKey` takes apart,
sign, digits, fraction and exponent, of which there may be more than one for a value. The sort, the filter
and the window of columns are as in the code, cell by cell.

### Execution

A statement is what the server does of it, a row its number of bytes. `Check` asks the server for
the setting that says how it reads literals, before the first and before every later statement when values
were bound; `Send`, `RowDescription`, `Row`, `Complete`, `DescribeColumns`, `Probe` are one request or one
message each. A cancel reaches whatever request is being answered, and a connection may
close at any time. `RunIsToldTruly` says that the rows kept are the first that came, within
the cap and the allowance of the whole run, that those dropped are counted and their cause is told, and that the
transaction shown is the server's; `BoundTextMeetsItsLexer` that a statement with bound values is
never carried out by a server that reads its literals in another way.

After a statement that returned rows `DescribeColumns` sends its text once more, to be parsed. No check
comes before that, so a statement that returns rows and changes the setting (`set_config`) has its own text parsed by
the other lexer: `misread` then holds "described". The property is about what is carried out, "sent".

### LineClients

A line is the sequence of what the lexer tells apart in it: words, what opens or closes a literal, a
comment, a semicolon, a parameter. That is enough for where a statement ends, what is a meta-command, what
`\complete`, `\format` and `\use` do to the lines collected, and which statements ask to be confirmed.
`\use` puts a candidate in the place of the word the buffer ends in, as `apply_completion` does, or adds it
where the buffer ends in none: a candidate in the place of a statement's first word changes what the statement does. In an
empty buffer the candidate stands without a line end (`tail` is "cut"), and the next line is glued to it: the two may
become one word, or the candidate's line goes on with it. `typed` follows the lines and completions, one after the other, as
they read at that moment; `sql` has been through any formatting between them.
How a request runs is `Execution`; here it ends in one of its ways.

`ListIsOfTheseLines`: a list of completions is of the lines it would be put into. `SentIsWholeAndConfirmed`: the statements
sent are whole, do what the lines and completions made them do, and were confirmed where a production target asks
for it, or, by `query`, allowed. What an exit code says of how a run ended is `Code`: no property is made of it, because a
reader that went away makes any run a success (see *Findings*).

### Targets

A layer is a function of some of the keywords. `Resolve` looks at them in the code's order; the
service file, the password file and the provider of a credential are consulted where the code does, refuse as it
does, and `Open` tries a server that offers one of four kinds of protection. `OpenedAsAsked` follows every
connection back to the layer that spoke first, for the interactive client, the plain one, one-shot
commands and the check of a target.

### ReleaseGate

An archive's bytes are a number, which is also its digest; a blocker is its reason. Commands that write
are actions, the check of the catalogue is a predicate on the files as they are, and people act between any
two: they build again, edit the catalogue, replace an archive. `ReadyIsWhole`: what the catalogue
calls ready has every evidence that is required, now.

Left out: `manifest_verify` and `trust`, which compare files as they find them and write nothing, with the
signatures and sidecars that only they read. What people do between the two commands is not looked at by either.

### FileSystem, LocalFiles, Exports

A file is a text, how much of it is there and how much is synced; after a power failure it has at least what was
synced of it. `write_atomic` is three calls (a temporary file is written, synced, renamed); a migration reads, copies to the
first free name, syncs the copy, then writes atomically. Several processes do these at once. `Fail`, `Kill` and `PowerFailure`
come between any two calls.

An export looks at the destination, opens `<destination>.partial` and empties it, writes out its buffer whenever that is
full, and syncs and renames in the end. Nothing keeps two processes from exporting to one destination, and the partial
file has one name for both. So a process's handle is told by where its file is now (`file`): at the partial name, at the
destination after another's rename, or gone. Rows written into a file that another export has emptied make it
nobody's text (`Mixture`). `beside` has the processes whose export ran while another did, `mingled` says that one of
these put the file there that is at the destination. `ExportsAreAsTold` is about every other export, also after any number of
overlapping ones and whatever they left; what becomes of those is a finding (exports_overlap).

What is assumed. Names are as durable as the file system makes them in order: a renamed or created file
keeps its name. Without that the code promises less, as it syncs no directory. A temporary file of `write_atomic` has a
name of its own, which is the code's (`NEXT_TEMPORARY`).

## The runs

Run each with `tlc -config <cfg> <module>`. Six must pass; the last six each check one
sentence of the repository's documents and must be violated. Deadlock is checked in every run but `client` and
`workspace`, whose parts end when their bounds are reached.

| Run | Module, cfg | Bounds | States | What it shows |
| --- | --- | --- | --- | --- |
| lifecycle | LifecycleInvariant, Lifecycle.cfg | 2 connections, 2 jobs, 2 attempts | 1 063 049 | results, sessions, reviews, history; jobs and attempts end; the whole implements `Foreground` with its fairness |
| background | Background, Background.cfg | inbox: 2 callers, 4 notices, windows of 2 entries and 4 bytes, counters to 2; reads: 1 schema, 2 reads, 1 reload, 1 connection | 99 372 | accounting, bounds, reports, privacy; everything that waits for a read ends |
| object_reads | ObjectReadsMC, ObjectReads.cfg | 2 schemas, 1 listed at the root; 3 reads alone, or 2 with a second reload or connection | 4 774 730 | nodes, catalogue, panels and lists, connection |
| cell_update | CellUpdate, CellUpdate.cfg | 2 rows, 2 columns, 2 jobs, 2 lookups, 2 connections | 1 251 056 | the review of an UPDATE, the cell that is written, refreshes, snapshots |
| workspace | WorkspaceMC, Workspace.cfg | 2 surfaces, 2 texts, 1 answer awaited; 3 edits of a line of 3; 5 terminals, 2 reshapings; 2 results of up to 3 by 3 | 205 583 | keys, edits, menus and marks; undo; panes; grid |
| client | ClientMC, Client.cfg | history: 2 sessions, 3 entries, a file of 1, 1 fault, 1 clear, and 1 session with 5 entries and a file of 3; files: 2 processes, 1 fault, 1 edit, 2 backup names, two texts written by hand; exports: 2 processes, 2 rows, 1 fault, 1 removal; runs: 8 buffers of up to 3 statements, 2 troubles; lines: 4 of 8 kinds; targets: every choice of `ClientMC`, 3 attempts; release: 2 targets, 2 changes by hand | 665 706 | order, length and log of the history; whole files and backups; whole exports; rows, allowance and lexer; what is sent, and what a list is of; how connections are protected; readiness |
| lifecycle_late_cancel | Lifecycle, LifecycleLateCancel.cfg | 1 connection, 2 jobs | violated | see *Findings* |
| lifecycle_lost_outcome | Lifecycle, LifecycleLostOutcome.cfg | 1 connection, 1 job | violated | see *Findings* |
| exports_overlap | Exports, ExportsOverlap.cfg | 2 processes, 1 row, no fault | violated | see *Findings* |
| cell_relation | CellUpdate, CellRelation.cfg | 3 jobs, 1 lookup, 1 connection, 3 paths | violated | see *Findings* |
| saved_mark | WorkspaceMC, SavedMark.cfg | as workspace | violated | see *Findings* |
| grid_sort | WorkspaceMC, GridSort.cfg | one result of three rows | violated | see *Findings* |

Why the bounds are enough. A hazard of the lifecycle is a thing of one connection or job met by the
next one: two connections and two jobs give every such pair. At most one attempt is live
(`OneAttempt`, proved), so more attempts only lengthen the past. The inbox's windows must fill, overflow, and
its counters saturate, which four notices with windows of two and counters of two do, in the idle window and
again in an operation. A stale read needs an older and a newer identity for the same node, panel or
catalogue, two of each; a list that is given up on while its answer is on the way, then asked again by way of
a second panel, needs a third. A wrong cell needs two rows, with a sort and a filter that exchange them, two
columns, and two jobs: the one that made the result, and the write, or one that replaces it. A surface is
wrongly fed when another is over it, or when the text it was made from is not the one in the
editor: two of each. A word, a blank, a word is the shortest text with two undo steps, and a bound of two snapshots
is reached within it. A pane's clamps differ between terminals that are too small, compact, just usable, and full
in either direction. A history file of one entry is pruned by every second record, with both sessions in
the middle; alone, three entries in the file and two in the list show the two limits apart. A backup or an export
is wrong when one crash comes between two of its calls; two processes meet at one name, with two texts that must
not take each other's backup, and two rows tell a part of an export from the whole. A buffer's
allowance must be reached in the first result, in the second, in a description and in the middle of a
row. Four lines are a statement in two, a completion or a format of it, and what comes next. Where there is a
theorem it says the same for every bound.

The symmetry of schemas, sessions and processes is that of sets whose members no definition tells apart; no
liveness property is checked with it.

Fairness. `WF(ReduceMessage)` and `WF(PerformEffect)`: the loop runs. `WF(AttemptStep)`, `WF(AdmitInstall)`,
`WF(InstallSession)`, `WF(TaskStep)`: the runtime polls its tasks, locks are released, and a server answers or
its connection fails, which the connect timeout and the driver task turn into an answer. In `ObjectReads`,
each read is served. Nothing is assumed of the person, of a cancellation (it may never be delivered), or of sessions
dying. A server that keeps a connection open and never answers is outside: without a statement timeout the
client waits for it.

## The proofs

TLAPS checks these for every value of the constants that meets the module's assumption.

| Module | Theorems | Assumption |
| --- | --- | --- |
| LifecycleTheorems | `JobInvHolds`, `TypeCorrect`, `HistoryCorrect`, `ResultsAreInFlight`, `KeepsForeground` | `BoundsAssumption`: the three bounds are positive |
| WorkTheorems | `IInvHolds`, `ResultsBelongToTheConnection`, `ConnectedClientsHaveSessions`, `PasswordPromptsCanRetry`, `WorkInvHolds`, `BusyJobsAreAttended`, `GatesAreUncontended`, `ReviewsHaveOneOwner` | the same |
| NoticeInboxTheorems | `InboxInvariant`, `InboxTypes`, `OperationsAreAlone`, `BoundedWindows`, `CaughtUpReports`, `AccountedNotices`, `StickyPrivacy`, and of the counters `PlusAssociates`, `SinceIsTruthful` | `InboxAssumption`: `MaxCount * PrivateBytes <= MaxText`, `MaxCount <= CountMax`; `CountMax` positive |
| ObjectReadsTheorems | `ReadsInvariant`, `TypesHold`, `NodesAreRight`, `PanelsAreRight`, `CatalogueIsRight`, `NothingIsForgotten`, `TreeIsRight` | `ReadsAssumption`: the bounds are naturals, `NoName` is no name |
| CellUpdateTheorems | `CellInvariant`, `CellTypes`, `RefreshesAreRetained`, `OwnersAreAlone`, `WritesAreOfTheShownCell`, `ResultsAreSnapshots`, `UpdatesKeepTheirReview` | `GridAssumption`: finitely many rows; rows and columns are positive numbers, 1 among them; `home` is a path |
| RunAndHistoryTheorems | `BoundTextIsRead`, `RunsTellTheTruth`, `SharedHistoryInOrder`, `NoEntryIsOfferedTwice`, `OneUserIsPromised` | `ClientAssumption`: nobody's handwriting is the template; `MaxRows`, the caps, the allowance and the limits of the history are naturals; a buffer is a sequence of statements, and a row has at least one byte, which is what a decoded row is charged (`query/result/retention_budget.rs`) |
| ClientTheorems | `FilesStayWhole`, `OriginalIsBackedUp`, `ExportsAreTold`, `ConnectionsAreAsAsked`, `ReadyHasEvidence`, `ListsAreOfTheseLines`, `WhatIsSentIsWhole`, `FormattedReadsTheSame` | the same, and a comment is the last thing in a line that is typed |
| WorkspaceTheorems | `PanesAlwaysFit`, `TroubleDrawn`, `TopmostSurfaceOwnsKeyboard`, `MarkersAreOfTheText`, `EditsAreAlwaysSeen`, `MenusFollowTheText`, `OneUndoIsOneWord`, `SelectedColumnIsDrawn` | `WorkspaceAssumption`: a size of the terminal is two positive numbers, a pointer is at natural coordinates, the limits are naturals, undo keeps at least one snapshot, and every column of a result has a width of its own, a natural |

The arguments.

*Lifecycle.* The properties are not inductive: that a result is of this connection depends on what
workers read before a switch, and on the order of the queue. The proof goes in layers.
`JobInv` says which worker each job in flight has, that an answer in the queue is that of a
finished worker of its kind, and that the loop's counter and the reducer's differ only while the
effect that bumps it is unperformed. `ConnectionInv` says that one attempt is under way at a time in
any of its forms (effect, worker, message), what each connection state says of the two slots, and that
a worker of this generation that has read the slot read the session that is there now. `IInv` is both.
A third layer, `WorkInv`, says that no worker outlives its job: one that has not answered is that of
the job in flight, the news of a lost connection is about that job and comes before its answer, and a
review is open only where nothing runs. With `IInv` this shows that a worker of this generation takes
none of its early returns, so its job is always answered. `KeepsForeground` proves the safety part of the
refinement, `Promise!Spec`; its liveness is checked by TLC.

*Notice inbox.* `SplitAccounts` states the accounts of the idle window, the prelude and the
operation apart, because a drop moves the operation's debts only and a delivery the other's; with
`NothingPublicIsHeld` and `OwnedState` it is inductive, and the sums give `EveryNoticeIsAccountedFor`.
The lemmas on the counters say that saturated addition is associative and that truthfulness is kept
by addition and by subtraction of what was reported.

*Object reads.* `IdsAreHandedOut`: an identity is not above the last handed out, so a new one is in no
read. `ReadsAreMeant`: a read with the identity that something waits for is about that thing.
`SlotsAreFilled`: a slot that a read was asked through is still filled while the generation stands.
From these, an answer that is kept is right, and a thing that waits still has its read.

*Cell update.* `OwnersFollow`: a lookup, a prompt, a review and the parameters exclude each other, and
a job in flight excludes them all; this is what `update_lookup_has_newer_owner` and the reset in
`start_with_parameters` buy. `JobsAreTold`: what is kept about the job is what was sent.
`RelationsAreRead`: the lookup that is waited for has the SQL of its cell, by the numbering of the
requests. The refinement of `CellReview` then is one case for each action. One branch of the code is
shown unreachable on the way: `parameter_action` accepts values only where they can be sent.

*Runs.* `BoundTextIsRead`: `Checked` says that a statement about to be sent with bound values has
the lexer they were written for; the requirement is looked at again after each statement, so that a `SET` in the
buffer is found out before the next one. What is sent to be described is not covered, and `misread` may come to hold it. `RunsTellTheTruth` needs more, `Runs`: what each variable holds; that there is one
result for each statement before the one that runs (`Placed`); that what arrived are the first rows of that statement,
and all of them once it ran (`Arrives`); that every result so far has the first rows that arrived and a reason for
those it lacks (`SetsTell`), of which the allowance's being closed is one that never ends; and that the rows of all results
have been charged (`IsCharged`). The last adds up sequences of any length. `Total` is a recursive
function, and what it does of a longer sequence (`Totals`) is shown by an induction over the
*set* of numbers for which it is so: a set that has zero and what comes after each of its elements has every number (`Induction`, from
the well-foundedness of `<`), which takes no operator as a parameter.

*History.* `entries()` is a fold over the lines. By the same induction the fold exists and is unique (`Recursion`,
`RecursionAgrees`), reads one line more as the code does (`ReadsOneMore`), and never reads anything but whole lines, in their order
(`ReadsAll`). So `SoundFile` can speak of the file alone: its whole lines are in the order their texts were
written. A text that goes to an open line, after the torn end of another, makes no line whole; one that makes its line whole is the newest
(`TextAdded`); and a prune by an old reading puts back lines in the order they were (`KeptIsSound`), so no other session has
to be thought of. What a session offers is its list and everything on its way to it: `News` puts the list, the messages
and the text that is not reported yet behind one another, and `Ordered` says the later are of later entries. Each call changes
`News` at one place (`OrderWrites`, `OrderReceives`), and for the others it stays. `NoEntryIsOfferedTwice` adds that an entry that is about to be
written was not (`WrittenOnce`). For one session alone, `AloneInv` says that its last line is open for the next text, that nobody took
the file away, and that it is short enough outside of `record()`; then only `WriteText` changes the log, and it keeps a statement
(`AloneNext`). This is the whole of the refinement `KeepsTheNewest`, which has no fairness.

*Local files.* `StepInv` says what every process is in the middle of
and what it relies on in the files: a temporary file that is whole once it is synced, a backup that is its own until it is. With
`Alone` (two processes are never at one backup) a step of one process leaves the others where they are (`Frame`,
`OneMoves`), and a power failure leaves what was synced (`WholeLefts`). A migrated configuration is *meant*, written by a process
that had seen its backup whole; no later step touches a whole backup, since names are taken only when free.

*Exports.* `StagesInv` says where each export is: how many of its rows came, and how many of those it has written out,
all of them before the rename. `ApartInv` says of one beside which no other ran that no other is running, and
that what it wrote is in the partial file, on the disk before the rename; whoever opens the
partial file meanwhile puts itself and the others beside each other, so nothing is left to show of them. `OutInv` says that the
destination is whole unless it is mingled, and that only then somebody may still write to it; `SaidInv` that what an
interrupted export said of the partial file stays so until the next one opens it. Each action is one case
over these four (`ExportSteps`).

*Targets.* `TargetsInv` says what each stage knows: a target that was resolved has `verify-full` unless it
is local or a layer asked for a mode (`Resolves`), one that is reached has a token only over TLS (`IsFetched`), and what was
opened is the target as it was resolved but for a password that was asked for and read-only. That a layer spoke is
a lemma on the search through the layers (`FirstOfSays`). The password that is asked for after a refusal is the one thing that
changes a resolved target, and it is asked for only where no provider authenticates.

*Release.* `ReadyHasEvidence` needs only that a catalogue is a record with a row for each target and a history
of states (`ReleaseInv`), whoever edited it: `check()` walks the history, and no transition leaves
*blocked*, so a history that ends in *ready* was never there.

*Line clients.* `TypedInv` says that the lines collected read as they were typed until the statement is sent, what `tail` says
of the end of them, and that `query` has been allowed what it is about to send. The work is in the
texts: how a text reads (`Lexed`) and how it is formatted (`Reformatted`) are recursions over its lines and their
tokens, proved to exist by the induction over sets of numbers, and then compared token by token
(`RenderedReadsOn`, `LineReadsOn`, `FormattedReadsTheSame`): a line that ends in a comment is never joined by what follows,
so that what the formatter writes reads as what it read. A literal that is open has something in it (`Seen`), which is why a
complete statement leaves none open. A candidate that is put in the place of a word, or glued to the next line, leaves
a text that is a comment only at the end of a line (`OneLineAlone`, `GluedIsTidy`, `CompletedIsTidy`), which is all the formatter
asks for. `ListsAreOfTheseLines` is inductive as it stands: each step that changes the lines ends the list (`ListFollows`).

*Panes.* `PanesInv` says no more of a preferred size than that it is a number: it was set at another
size of the terminal and may be far outside this one. The geometry alone makes it fit, so `PanesAlwaysFit` is
arithmetic over every size (`Sidebars`, `Splitting`, `ErrorFits`, `SplitFits`). `TroubleDrawn` needs two more
facts, which every message must leave: the tree has the focus only when it is shown, and nothing but the
results is zoomed while there is trouble.

*Surfaces.* The order in which keys are asked for and the order of drawing agree only on the sets of surfaces
that can be open at once. `Fits` says which: below the password prompt, the palette and a half-typed chord there is one
surface, or the inspector with a detail, help or the notices; a chord is begun over a pane's input only; a palette is over what its purpose
allows. Each key, press and answer keeps this, and on these sets the topmost surface has the key (`TopmostFits`). The three
properties of text follow step by step: what changes the text clears the mark and computes the menu again.

*Editor.* `UndoTakesOneWord` is not inductive: which character may go on with the word depends on
the space flag, and what an undo returns to on the oldest snapshot's having been given up and not the newest. `Good` says that
while insertions run there is a snapshot to return to, that the text is its two halves with one word between them (`Inserted`), the cursor behind the word,
and that the flag is set if the word has ended in a blank. Every edit is one replacement of a stretch of the text (`EditsLeave`), behind a snapshot of its
own or not; it starts a word (`StartsARun`), goes on with it (`GoesOn`), or ends the run, as every move does
(`Moves`), wherever the lines and words around the cursor are (`LinesAreAround`, `WordsAreAround`).

*Grid.* A window is a stretch of the columns that are shown (`Stretch`): what `fit_window` takes from some
start always includes the column it starts at, and with the frozen column in front or not, `Slide` moves the start back until the
selected column is in the stretch, or starts at it (`WindowsSlide`, `PlainWindows`, `FrozenWindows`). So the
property needs of the state that the selected column is one that is shown, which is `GridInv`; hiding the
selected column is the step where that is at stake (`ToggleKeeps`). `Visible` and `Costs` are recursions over any number of columns,
proved to have a value by the induction over sets of numbers (`Recursion`, `VisibleShows`, `ColumnsCost`).

Only model-checked: liveness (`ConnectingSettles`, `WaitsEnd`, and the fairness of
`KeepsPromise`), since the prover has no `ENABLED`; and `SortKeepsTheRow`, since two numbers compare as
numbers and any other two texts as texts: where a column mixes them, 2, 10 and 1x are in a circle, so that
nothing that holds of every table says that each row is placed once. An operator of the libraries that is defined by
recursion over a sequence is out of the prover's reach; where the recursion is a function of the model's own, as in
`Execution`, `HistoryFile`, `LineClients` and `Grid`, the induction over sets of numbers serves.

## Findings

Six sentences of the documents are not true of the code. Each has a run, in `PROJECT.json` with its
lines.

* *A late cancellation stops the next statement* (lifecycle_late_cancel). A job's identity protects
  the report of its cancellation and not its delivery: `spawn_cancel` compares the generation, then
  asks the server to cancel whatever the session is running.
* *A lost statement is not reported as unknown* (lifecycle_lost_outcome). The worker sends
  `ConnectionLost` first, and the reducer's handler makes the client idle, so the answer that carries
  the unknown outcome is discarded as stale, and is neither shown nor recorded.
* *Two exports to one destination put a file there that is not complete* (exports_overlap). They share the partial file
  (`src/query/export.rs:116`); the second one's `File::create` empties it (129) under the first, whose rename (183) then puts the
  file there that the second is still writing. `src/query/export.rs:7` says that a file at the destination is complete.
* *A cell's relation is not resolved in the executing session* (cell_relation). It is looked up in
  the second session when there is one, and with temporary tables left out: a bare name may be
  another relation there. The review names the schema it found; nothing compares it with the rows'.
* *A query is marked as saved with text that is not in its file* (saved_mark). `QuerySaved` marks whatever the
  editor holds when the answer is reduced (`src/app/update.rs:570`); a key between the effect and the answer is
  marked along.
* *A decimal sort puts 0.5 before 0* (grid_sort). `DecimalKey` keeps zero as the one digit 0 with no
  fraction, and the comparison of magnitudes gives it one place before the point and 0.5 none
  (`src/app/grid.rs:579`).

Others were met while modelling. They have no run of their own; the properties are stated so as not to
claim what they deny.

* A record appends after an unfinished line (`src/history.rs:280`), so an entry whose `record` answered
  `Written` is never read back once a crash has left half a line before it; the comment at 20–22 says
  that a partial write of the last line is survived. In `HistoryFile`: `Tear`, then `WriteText`.
* Two sessions' texts can end up on one line, since `writeln!` makes two writes; and the prune
  reads, then renames, without a lock, so what another session appends in between is lost
  (`src/history.rs:320-329`). A `history clear` between the two is undone by the rename.
* A listing of schemas carries no identity, so that an older one may be shown last
  (`src/app/update.rs:484`; `src/app/tree.rs:9-12` says that loads carry one).
* A dependency list that was asked for from a palette which was then closed with Enter opens again
  at its answer (`src/app/update.rs:3645`, 596–598).
* The reload after connecting is posted as a key (`src/cli/interactive.rs:1534`): with the palette, a
  panel or a chord open it goes to them, and the tree stays empty until the person reloads.
* A reload before there is a session marks the tree as loading with no load in flight
  (`src/cli/interactive.rs:1916`, `src/app/tree.rs:278`), and the sidebar's
  first opening (`src/app/update.rs:1080`) then asks for nothing.
* A termination signal is queued as an ordinary quit (`src/cli/interactive.rs:1432`): while a chord
  waits for its second key, `resolve_prefix` (`src/app/update.rs:3610`) takes it for that key and
  drops it, and the watcher has ended.
* A file that appears at an export's destination between the look at it and the renaming is replaced without `--force`
  (`src/query/export.rs:5-6`).
* The account of an interrupted export advises to look at the partial file in the same words whether or not the
  flush succeeded; only the count of rows is withheld.
* The order of the grid's values is not transitive where numbers and texts are mixed (`src/app/grid.rs:487`): a pair of
  numbers is compared by value and any other pair by text.
* A one-shot query whose reader closes the pipe exits with success even when a statement failed
  (`src/cli/mod.rs:1204`), while `src/exit_code.rs:11` says of that code that every statement succeeded; a broken pipe alone is
  meant to exit so (`specs/001-foundation-vertical-slice/tasks.md:68`). And an error while writing NDJSON hides the query's own.
* `\use` on an empty buffer leaves the completed word with no line end, so that the next line is glued to it
  (`src/cli/plain.rs:152`): in `LineClients`, `tail` is "cut" and `Fed` is what becomes of the line.
  `strip_comments` does not know literals.
* The text that values were bound to is prepared again to describe its columns (`src/postgres/session.rs:890`, 911) with no
  check in between, so that a statement that returns rows and changes `standard_conforming_strings` has it parsed by the other
  lexer. `docs/support/compatibility.md:241` promises a recheck before each separately sent statement. It is parsed,
  never carried out. In `Execution`: `misread` holds "described".
* When describing the columns fails inside a transaction block, the server aborts the transaction; `describe_columns` drops
  the error (`.ok()?`, `src/postgres/session.rs:911`), so the run is told as a success whose transaction has failed, with no reason.
* After `\complete` has failed to load the catalogue inside an open transaction, the plain client's prompt still tells the
  transaction as it was before (`src/cli/plain.rs:168-170`, `src/postgres/metadata.rs:476`).
* A checksum that does not match is refused by the commands that compare it, and changes no record to *blocked*, which
  `specs/008-release-experience/data-model.md:110` says it does.
* A service file's `passfile` is ignored without a word, while `docs/support/compatibility.md:142` says *Reported rather
  than ignored*. A service file's password ranks between the connection string's and `PGPASSWORD`; the documented order
  leaves it out.
* Options such as `--read-only` are not carried over to a profile picked in the interactive client, and
  the check of a target takes neither a profile nor `--auth`.

## Not modelled, and why

Pure functions of text or of the model (completion, palettes, plans, highlighting, what is drawn inside a
surface, diagnostics, redaction) have no steps that interleave, and the repository tests them over
many inputs; other modules use their verdicts as members of small sets. Terminal ownership, the clipboard's
write and the catalogue's queries are calls of libraries or text: what asks for them and what becomes of their
answers is in `Surfaces`, `ObjectReads` and `CellUpdate`. The notices' panel only pages through what `NoticeInbox`
delivers.

Within the components that are modelled: the extensions root and the columns of a relation in the tree; what
counts as a credential, pausing and disabling in the history; which SELECT may be refreshed or edited; the
spelling of connection strings, service files and password files; the inspector; names of saved
queries as paths; the manifest, the signatures and the bill of materials of a release, and the development tasks of `xtask`. `PROJECT.json` says so of each,
with its files.

One hazard has no property. A termination signal that is taken for the second key of a chord is
dropped (`src/app/update.rs:3610`); the documents say nothing of it, and quitting ends a behaviour of `Surfaces`.

## The order of the work

The lifecycle came first, because every other part of the client hangs from its generations; then the inbox,
which runs under the same gate, the reads beside the statement, and the longest chain of reviews; then the
surfaces, which all of these share; then the files, the runs and the line clients; the targets and the
release last. What would add most next: a refinement of `Surfaces` by `CellUpdate` and `Lifecycle`, whose
reviews it names; the delivery of notices to a screen that switches sessions, composed with `NoticeInbox`;
and a proof that the sort of a column of one kind keeps the row, which needs orders that are total.
