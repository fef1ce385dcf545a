----------------------------- MODULE CellUpdate -----------------------------
(***************************************************************************)
(* The generated UPDATE of a result's cell, and the refresh of a result     *)
(* (app/update.rs, cli/interactive.rs, query/update.rs).                    *)
(*                                                                         *)
(* A person selects a cell of the result that is kept and asks for its      *)
(* UPDATE.  The relation is looked up beside the session, a replacement is  *)
(* typed, the statement is reviewed and at last sent: meanwhile the result  *)
(* can be sorted, filtered, replaced or lost, another prompt opened and     *)
(* another cell asked about.                                                *)
(*                                                                         *)
(* A job is in flight from its effect to its answer; that the answer to any *)
(* other job is dropped is what Lifecycle checks, and such answers are left *)
(* out here.  A statement is one of four sources: see Bare, Asking.         *)
(***************************************************************************)
EXTENDS Integers, FiniteSets

CONSTANTS
    Row, Column,     \* the rows of a result and its columns, both in order
    Path,            \* what a bare name may come to find in a session: see Schemas
    MaxJob,          \* bound on the jobs started
    MaxRequest,      \* bound on the relations looked up
    MaxGeneration    \* bound on the connections begun

ASSUME GridAssumption ==
    /\ Row \subseteq Nat \ {0} /\ IsFiniteSet(Row) /\ 1 \in Row
    /\ Column \subseteq Nat \ {0} /\ 1 \in Column
    /\ "home" \in Path /\ Path \subseteq {"home", "away", "temporary"}
    /\ MaxJob \in Nat /\ MaxRequest \in Nat /\ MaxGeneration \in Nat \ {0}

\* A SELECT of one relation with and without its schema, one that asks for a parameter as
\* well, and everything else, which shows no rows and may change what a name resolves to.
Sources    == {"named", "bare", "asking", "other"}
Bare       == {"bare", "asking"}
Asking     == {"asking"}
Editable   == {"named", "bare", "asking"}   \* parse_source() accepts them
Refreshable == Editable                     \* one statement, and it reads

\* The schemas that have a relation of the name: the one written out, the one the search
\* path of a new session finds, another, and that of a temporary table in front of the second.
Schemas == {"written", "home", "away", "temporary"}

None == [none |-> TRUE]

VARIABLES
    generation, link,       \* "connecting", "connected" or "lost"
    guarded,                \* production, or read-only
    failedTx,               \* model.transaction is Failed
    path, meta,             \* what a bare name finds in the session; the second session
    phase,                  \* the job in flight, 0 when idle
    runningSql, runningCell, runningRefresh, refreshPending,
    execution, lastSql,     \* the result that is kept, and its SQL
    order, kept, selectedRow, selectedColumn,
    focus, plan,            \* "results" or "elsewhere"; whether the plan is shown
    parameters,             \* the SQL whose parameters are asked for
    overlay,                \* another owner of the keyboard: "none", "filter" or "other"
    lookup, prompt, pending,
    reads,                  \* the relations being looked up
    nextJob, nextRequest,
    sent                    \* what the job in flight sent

connection == <<generation, link, guarded>>
server  == <<path, meta>>
job     == <<phase, runningSql, runningCell, runningRefresh, nextJob, sent>>
grid    == <<order, kept, selectedRow, selectedColumn>>
result  == <<execution, lastSql, grid>>
keyboard == <<focus, plan, parameters, refreshPending, overlay>>
review  == <<lookup, prompt, pending>>
lookups == <<reads, nextRequest>>
vars    == <<connection, failedTx, server, job, result, keyboard, review, lookups>>

-----------------------------------------------------------------------------
(* The grid.                                                               *)

\* A sort gives every row a rank of its own; without one the rows are ranked as they came.
Orders  == {rank \in [Row -> Row] : \A r, q \in Row : rank[r] = rank[q] => r = q}
Natural == [r \in Row |-> r]

\* displayed_rows(): where a row is shown, among those the filter keeps.
Place(rank, r) == Cardinality({q \in kept : rank[q] <= rank[r]})
Displayed == IF execution.rows THEN kept ELSE {}

\* selected_source_row(), 0 when there is none.
Selected(r) == Place(order, r) = selectedRow
SelectedSourceRow ==
    IF \E r \in Displayed : Selected(r) THEN CHOOSE r \in Displayed : Selected(r) ELSE 0

ResetGrid ==
    /\ order' = Natural /\ kept' = Row
    /\ selectedRow' = 1 /\ selectedColumn' = 1

\* No review is in front of what the person types at, and the plan does not cover the grid.
NoReview == parameters = None /\ prompt = None /\ pending = None
Main == NoReview /\ overlay = "none"

\* Keys and clicks that move the selection; a click focuses the results as well.
Select(i, c) ==
    /\ NoReview /\ overlay \in {"none", "filter"} /\ ~plan /\ execution.rows
    /\ i \in 1..Cardinality(Displayed) \/ i = 1
    /\ selectedRow' = i /\ selectedColumn' = c
    /\ focus' \in {focus, "results"}
    /\ UNCHANGED <<connection, failedTx, server, job, execution, lastSql, order, kept,
                   plan, parameters,
                   refreshPending, overlay, review, lookups>>

\* The inspector moves to another column of the row it shows; a column that is hidden while
\* it is selected leaves the selection to another, and one shown again takes it.
MoveColumn(c) ==
    /\ NoReview /\ overlay \in {"none", "other"} /\ execution.rows
    /\ selectedColumn' = c
    /\ UNCHANGED <<connection, failedTx, server, job, execution, lastSql, order, kept,
                   selectedRow, keyboard, review, lookups>>

\* Every character typed into the filter, and clearing it, selects the first row left.
ResultFilter(rows) ==
    /\ NoReview /\ overlay = "filter"
    /\ kept' = rows /\ selectedRow' = 1
    /\ UNCHANGED <<connection, failedTx, server, job, execution, lastSql, order,
                   selectedColumn, keyboard, review, lookups>>

\* The source row that was selected stays selected, wherever it is shown now.
ToggleSort(rank) ==
    /\ NoReview /\ overlay \in {"none", "filter"} /\ execution.rows
    /\ order' = rank
    /\ selectedRow' = IF SelectedSourceRow \in Row THEN Place(rank, SelectedSourceRow) ELSE 1
    /\ UNCHANGED <<connection, failedTx, server, job, execution, lastSql, kept,
                   selectedColumn, keyboard, review, lookups>>

View ==
    \/ \E i \in 1..Cardinality(Row), c \in Column : Select(i, c)
    \/ \E c \in Column : MoveColumn(c)
    \/ \E rows \in SUBSET Row : ResultFilter(rows)
    \/ \E rank \in Orders : ToggleSort(rank)

-----------------------------------------------------------------------------
(* What owns the keyboard.                                                 *)

FocusNext ==
    /\ Main
    /\ focus' = IF focus = "results" THEN "elsewhere" ELSE "results"
    /\ UNCHANGED <<connection, failedTx, server, job, result, plan, parameters, refreshPending,
                   overlay, review, lookups>>

\* The filter, which acts on the grid, and everything else: the inspector, the palette, the
\* chord, help, the other prompts and reviews.
OpenOverlay(o) ==
    /\ Main
    /\ overlay' = o
    /\ UNCHANGED <<connection, failedTx, server, job, result, focus, plan, parameters,
                   refreshPending, review, lookups>>

CloseOverlay ==
    /\ NoReview /\ overlay # "none"
    /\ overlay' = "none"
    /\ UNCHANGED <<connection, failedTx, server, job, result, focus, plan, parameters,
                   refreshPending, review, lookups>>

\* A saved query or a list for the palette, asked for at any time before: the answer finds
\* whatever is open by now.
Loaded ==
    /\ \/ focus' = "elsewhere" /\ UNCHANGED overlay
       \/ overlay' = "other" /\ UNCHANGED focus
    /\ UNCHANGED <<connection, failedTx, server, job, result, plan, parameters, refreshPending,
                   review, lookups>>

Keyboard ==
    \/ FocusNext \/ CloseOverlay \/ Loaded
    \/ \E o \in {"filter", "other"} : OpenOverlay(o)

-----------------------------------------------------------------------------
(* Jobs.                                                                   *)

Idle == phase = 0 /\ link = "connected"

NoReviews == lookup' = None /\ prompt' = None /\ pending' = None

Start(what, sql) ==
    /\ nextJob < MaxJob
    /\ nextJob' = nextJob + 1 /\ phase' = nextJob + 1
    /\ sent' = what
    /\ runningSql' = sql
    /\ refreshPending' = FALSE
    /\ parameters' = None
    /\ NoReviews

\* start_with_parameters(): what is sent is the source, or the UPDATE that was reviewed.
StartWithParameters(sql, write, refreshing) ==
    /\ Start([sql |-> sql, write |-> write], sql)
    /\ runningCell' = (write # None) /\ runningRefresh' = refreshing
    /\ plan' = FALSE
    /\ UNCHANGED <<connection, failedTx, server, result, focus, overlay, lookups>>

\* A source with parameters asks for them first, and disturbs nothing else.
AskParameters(sql, refreshing) ==
    /\ parameters' = [sql |-> sql]
    /\ refreshPending' = refreshing
    /\ UNCHANGED <<connection, failedTx, server, job, result, focus, plan, overlay,
                   review, lookups>>

Run(sql) ==
    /\ Main /\ Idle
    /\ IF sql \in Asking
       THEN AskParameters(sql, refreshPending)
       ELSE StartWithParameters(sql, None, refreshPending)

BeginRefreshResult ==
    /\ Main /\ Idle
    /\ focus = "results" /\ ~plan /\ ~failedTx
    /\ execution.rows /\ lastSql \in Refreshable
    /\ IF lastSql \in Asking
       THEN AskParameters(lastSql, TRUE)
       ELSE StartWithParameters(lastSql, None, TRUE)

AcceptParameters ==
    /\ parameters # None
    /\ IF Idle
       THEN StartWithParameters(parameters.sql, None, refreshPending)
       ELSE /\ parameters' = None
            /\ UNCHANGED <<connection, failedTx, server, job, result, focus, plan,
                           refreshPending, overlay, review, lookups>>

\* Fault: the prompt is dropped and the refresh is not.
DismissParametersOnly ==
    /\ parameters # None
    /\ parameters' = None
    /\ UNCHANGED <<connection, failedTx, server, job, result, focus, plan, refreshPending,
                   overlay, review, lookups>>

\* Dismissed, or refused because a value cannot be sent.
DismissParameters ==
    /\ parameters # None
    /\ parameters' = None /\ refreshPending' = FALSE
    /\ UNCHANGED <<connection, failedTx, server, job, result, focus, plan, overlay,
                   review, lookups>>

BeginPlan ==
    /\ Main /\ Idle /\ ~failedTx
    /\ Start([sql |-> "plan", write |-> None], "none")
    /\ runningCell' = FALSE /\ runningRefresh' = FALSE
    /\ plan' = TRUE /\ focus' = "results"
    /\ UNCHANGED <<connection, failedTx, server, result, overlay, lookups>>

FinishPlan ==
    /\ phase # 0 /\ sent.sql = "plan"
    /\ phase' = 0 /\ sent' = [sql |-> "none", write |-> None]
    /\ focus' = "results" /\ failedTx' \in BOOLEAN
    /\ UNCHANGED <<connection, server, result, runningSql, runningCell, runningRefresh, nextJob,
                   plan, parameters,
                   refreshPending, overlay, review, lookups>>

ClosePlan ==
    /\ Main /\ plan /\ ~(phase # 0 /\ sent.sql = "plan")
    /\ plan' = FALSE
    /\ UNCHANGED <<connection, failedTx, server, job, result, focus, parameters, refreshPending,
                   overlay, review, lookups>>

\* The schema the server finds for a source: the session's temporary tables come first.
ReadFrom(sql) ==
    IF sql \notin Bare THEN "written" ELSE path

NothingRuns ==
    /\ phase' = 0 /\ sent' = [sql |-> "none", write |-> None]
    /\ runningSql' = "none" /\ runningCell' = FALSE /\ runningRefresh' = FALSE
    /\ UNCHANGED nextJob

\* The answer to the UPDATE of a cell leaves the result as the snapshot it was; any other
\* answer replaces it, and with it what acts on its rows.
ExecutionFinished ==
    /\ phase # 0 /\ sent.sql # "plan"
    /\ NothingRuns
    /\ refreshPending' = FALSE
    /\ failedTx' \in BOOLEAN
    /\ focus' \in {focus, "elsewhere"}
    /\ NoReviews
    /\ IF runningCell
       THEN UNCHANGED <<result, overlay>>
       ELSE /\ \E rows \in IF sent.sql \in Editable THEN BOOLEAN ELSE {FALSE} :
                 execution' = [job |-> phase, rows |-> rows, from |-> ReadFrom(sent.sql)]
            /\ lastSql' = runningSql
            /\ ResetGrid
            /\ overlay' \in IF overlay = "other" THEN {"other", "none"} ELSE {"none"}
    /\ IF sent.sql = "other" /\ sent.write = None
       THEN path' \in Path
       ELSE UNCHANGED path
    /\ UNCHANGED <<connection, meta, plan, parameters, lookups>>

Jobs ==
    \/ \E sql \in Sources : Run(sql)
    \/ BeginRefreshResult \/ AcceptParameters \/ DismissParameters
    \/ BeginPlan \/ FinishPlan \/ ClosePlan \/ ExecutionFinished

-----------------------------------------------------------------------------
(* The connection.                                                         *)

BeginConnection ==
    /\ Main /\ phase = 0 /\ link # "connecting"
    /\ generation < MaxGeneration
    /\ generation' = generation + 1 /\ link' = "connecting"
    /\ failedTx' = FALSE
    /\ NothingRuns
    /\ execution' = [job |-> 0, rows |-> FALSE, from |-> "none"]
    /\ ResetGrid
    /\ focus' = "elsewhere" /\ plan' = FALSE /\ refreshPending' = FALSE
    /\ NoReviews
    /\ UNCHANGED <<guarded, server, lastSql, parameters, overlay, lookups>>

\* A new session: whether it may be written to, and the names it starts with.
Connected ==
    /\ link = "connecting"
    /\ link' = "connected" /\ guarded' \in BOOLEAN
    /\ path' = "home" /\ meta' = FALSE
    /\ focus' = "elsewhere"
    /\ UNCHANGED <<generation, failedTx, job, result, plan, parameters,
                   refreshPending, overlay, review, lookups>>

\* Refused credentials are asked for again.
ConnectionFailed ==
    /\ link = "connecting"
    /\ link' = "lost"
    /\ phase' = 0
    /\ NoReviews
    /\ overlay' \in {overlay, "other"}
    /\ UNCHANGED <<generation, guarded, failedTx, server, runningSql, runningCell, runningRefresh,
                   nextJob, sent, result, focus, plan, parameters, refreshPending,
                   lookups>>

\* A second session, for the catalogue, with the search path of a new one.
MetadataConnected ==
    /\ link = "connected" /\ ~meta
    /\ meta' = TRUE
    /\ UNCHANGED <<connection, failedTx, path, job, result, keyboard, review, lookups>>

\* Every prompt that could send something goes with the connection.
ConnectionLost ==
    /\ link = "connected"
    /\ link' = "lost"
    /\ focus' = IF phase # 0 /\ sent.sql = "plan" THEN "results" ELSE focus
    /\ failedTx' = FALSE
    /\ NothingRuns
    /\ parameters' = None /\ refreshPending' = FALSE
    /\ NoReviews
    /\ overlay' \in IF overlay = "other" THEN {"other", "none"} ELSE {overlay}
    /\ UNCHANGED <<generation, guarded, server, result, plan, lookups>>

Connection ==
    BeginConnection \/ Connected \/ ConnectionFailed \/ MetadataConnected \/ ConnectionLost

-----------------------------------------------------------------------------
(* The UPDATE of a cell.                                                   *)

UpdateCandidateIsCurrent(c) ==
    /\ focus = "results" /\ phase = 0 /\ ~plan
    /\ execution.job = c.job /\ execution.rows
    /\ SelectedSourceRow = c.row /\ selectedColumn = c.column
    /\ lastSql = c.sql

BeginCellUpdate ==
    /\ Main /\ Idle
    /\ focus = "results" /\ ~plan /\ ~guarded /\ ~failedTx
    /\ execution.rows /\ SelectedSourceRow # 0
    /\ lastSql \in Editable
    /\ nextRequest < MaxRequest
    /\ nextRequest' = nextRequest + 1
    /\ lookup' = [request |-> nextRequest + 1,
                  cell |-> [job |-> execution.job, row |-> SelectedSourceRow,
                            column |-> selectedColumn, sql |-> lastSql]]
    /\ reads' = reads \cup {[request |-> nextRequest + 1, sql |-> lastSql, gen |-> generation,
                             slot |-> IF meta THEN "meta" ELSE "user"]}
    /\ UNCHANGED <<connection, failedTx, server, job, result, keyboard, prompt, pending>>

\* update_relation(): a name without a schema is looked for along the search path of the
\* session that is asked, which leaves temporary tables out.
UpdateRelation(r) ==
    IF r.sql \notin Bare THEN "written"
    ELSE IF r.slot = "meta" \/ path = "temporary" THEN "home" ELSE path

UpdateLookupHasNewerOwner == ~Main

\* Fault: the prompt is for whatever cell is selected by now.
FinishUpdateTargetForSelection(r, found) ==
    /\ r \in reads
    /\ reads' = reads \ {r}
    /\ IF lookup # None /\ lookup.request = r.request /\ r.gen = generation
       THEN /\ lookup' = None
            /\ IF ~UpdateLookupHasNewerOwner /\ focus = "results" /\ SelectedSourceRow # 0
                  /\ found # "refused"
               THEN prompt' = [cell |-> [lookup.cell EXCEPT !.row = SelectedSourceRow,
                                                            !.column = selectedColumn],
                               relation |-> found]
               ELSE UNCHANGED prompt
       ELSE UNCHANGED <<lookup, prompt>>
    /\ UNCHANGED <<connection, failedTx, server, job, result, keyboard, pending, nextRequest>>

\* Fault: what else has been opened meanwhile is not looked at.
FinishUpdateTargetOverOwner(r, found) ==
    /\ r \in reads
    /\ reads' = reads \ {r}
    /\ IF lookup # None /\ lookup.request = r.request /\ r.gen = generation
       THEN /\ lookup' = None
            /\ IF UpdateCandidateIsCurrent(lookup.cell) /\ found # "refused"
               THEN prompt' = [cell |-> lookup.cell, relation |-> found]
               ELSE UNCHANGED prompt
       ELSE UNCHANGED <<lookup, prompt>>
    /\ UNCHANGED <<connection, failedTx, server, job, result, keyboard, pending, nextRequest>>

\* The answer to the lookup that is waited for opens the prompt, when the cell is still the
\* one selected and nothing else has been opened; "refused" is an error, a view, a relation
\* that may not be read or written, or an empty slot.
FinishUpdateTarget(r, found) ==
    /\ r \in reads
    /\ reads' = reads \ {r}
    /\ IF lookup # None /\ lookup.request = r.request /\ r.gen = generation
       THEN /\ lookup' = None
            /\ IF ~UpdateLookupHasNewerOwner /\ UpdateCandidateIsCurrent(lookup.cell)
                  /\ found # "refused"
               THEN prompt' = [cell |-> lookup.cell, relation |-> found]
               ELSE UNCHANGED prompt
       ELSE UNCHANGED <<lookup, prompt>>
    /\ UNCHANGED <<connection, failedTx, server, job, result, keyboard, pending, nextRequest>>

PromptOwns  == prompt # None /\ parameters = None
PendingOwns == pending # None /\ prompt = None /\ parameters = None

\* Fault: the key is that of the row's place on the screen.
UpdatePromptActionByPlace ==
    /\ PromptOwns
    /\ prompt' = None
    /\ IF UpdateCandidateIsCurrent(prompt.cell)
       THEN pending' = [cell |-> prompt.cell, relation |-> prompt.relation, row |-> selectedRow]
       ELSE UNCHANGED pending
    /\ UNCHANGED <<connection, failedTx, server, job, result, keyboard, lookup, lookups>>

\* plan_update(): the key is taken from the selected row.  A replacement it refuses leaves
\* the prompt as it is.
UpdatePromptAction ==
    /\ PromptOwns
    /\ prompt' = None
    /\ IF UpdateCandidateIsCurrent(prompt.cell)
       THEN pending' = [cell |-> prompt.cell, relation |-> prompt.relation,
                        row |-> SelectedSourceRow]
       ELSE UNCHANGED pending
    /\ UNCHANGED <<connection, failedTx, server, job, result, keyboard, lookup, lookups>>

\* The person confirms what is under review, once.
PendingUpdateAction ==
    /\ PendingOwns
    /\ IF UpdateCandidateIsCurrent(pending.cell) /\ link = "connected" /\ ~guarded /\ ~failedTx
       THEN StartWithParameters("update", pending, refreshPending)
       ELSE /\ pending' = None
            /\ UNCHANGED <<connection, failedTx, server, job, result, keyboard, lookup, prompt,
                           lookups>>

DismissUpdate ==
    /\ \/ PromptOwns /\ prompt' = None /\ UNCHANGED pending
       \/ PendingOwns /\ pending' = None /\ UNCHANGED prompt
    /\ UNCHANGED <<connection, failedTx, server, job, result, keyboard, lookup, lookups>>

Update ==
    \/ BeginCellUpdate \/ UpdatePromptAction \/ PendingUpdateAction \/ DismissUpdate
    \/ \E r \in reads : \E found \in {"refused", UpdateRelation(r)} : FinishUpdateTarget(r, found)

-----------------------------------------------------------------------------
Init ==
    /\ generation = 1 /\ link = "connecting" /\ guarded = FALSE /\ failedTx = FALSE
    /\ path = "home" /\ meta = FALSE
    /\ phase = 0 /\ runningSql = "none" /\ runningCell = FALSE /\ runningRefresh = FALSE
    /\ nextJob = 0 /\ sent = [sql |-> "none", write |-> None]
    /\ execution = [job |-> 0, rows |-> FALSE, from |-> "none"] /\ lastSql = "none"
    /\ order = Natural /\ kept = Row
    /\ selectedRow = 1 /\ selectedColumn = 1
    /\ focus = "elsewhere" /\ plan = FALSE /\ parameters = None /\ refreshPending = FALSE
    /\ overlay = "none"
    /\ lookup = None /\ prompt = None /\ pending = None
    /\ reads = {} /\ nextRequest = 0

Next == View \/ Keyboard \/ Jobs \/ Connection \/ Update

Spec == Init /\ [][Next]_vars

-----------------------------------------------------------------------------
Cells == [job : 1..MaxJob, row : Row, column : Column, sql : Editable]

Prompts  == [cell : Cells, relation : Schemas]
Pendings == [cell : Cells, relation : Schemas, row : Row]

LinkTypes ==
    /\ generation \in 1..MaxGeneration /\ link \in {"connecting", "connected", "lost"}
    /\ path \in Path

FlagTypes ==
    /\ guarded \in BOOLEAN /\ failedTx \in BOOLEAN /\ meta \in BOOLEAN
    /\ runningCell \in BOOLEAN /\ runningRefresh \in BOOLEAN
    /\ plan \in BOOLEAN /\ refreshPending \in BOOLEAN

JobTypes ==
    /\ phase \in 0..nextJob /\ nextJob \in 0..MaxJob
    /\ runningSql \in Sources \cup {"none", "update"}
    /\ sent \in [sql : Sources \cup {"none", "plan", "update"}, write : {None} \cup Pendings]

ShownTypes ==
    /\ execution \in [job : 0..MaxJob, rows : BOOLEAN, from : Schemas \cup {"none"}]
    /\ lastSql \in Sources \cup {"none"}
    /\ order \in Orders /\ kept \subseteq Row
    /\ selectedColumn \in Column /\ selectedRow \in 1..Cardinality(Row)
    /\ focus \in {"results", "elsewhere"} /\ overlay \in {"none", "filter", "other"}

ReviewTypes ==
    /\ parameters \in {None} \cup [sql : Asking]
    /\ lookup \in {None} \cup [request : 1..MaxRequest, cell : Cells]
    /\ prompt \in {None} \cup Prompts
    /\ pending \in {None} \cup Pendings
    /\ reads \subseteq [request : 1..MaxRequest, sql : Editable, gen : 1..MaxGeneration,
                        slot : {"user", "meta"}]
    /\ nextRequest \in 0..MaxRequest

TypeOK == LinkTypes /\ FlagTypes /\ JobTypes /\ ShownTypes /\ ReviewTypes

\* From the key that asks for it to the answer to its write, an UPDATE is about one cell; it
\* leaves by the review alone and once, whatever is sorted, opened, answered or lost between.
Stage ==
    IF runningCell THEN "sent" ELSE IF pending # None THEN "review"
    ELSE IF prompt # None THEN "value" ELSE IF lookup # None THEN "relation" ELSE "none"

CellOf ==
    IF runningCell THEN sent.write.cell ELSE IF pending # None THEN pending.cell
    ELSE IF prompt # None THEN prompt.cell ELSE IF lookup # None THEN lookup.cell ELSE None

Review == INSTANCE CellReview WITH Cell <- Cells, NoCell <- None, stage <- Stage, cell <- CellOf
KeepsReview == Review!Spec

\* The key that is written is that of the row the person sees selected, in the result and the
\* column it was asked about, wherever sorting and filtering have put it; the relation is the
\* one the result was read from, when its source wrote the schema out.
WritesNameTheShownCell ==
    [][sent.write = None /\ sent'.write # None =>
         LET w == sent'.write IN
         /\ w.row = SelectedSourceRow /\ w.row = w.cell.row
         /\ w.cell.column = selectedColumn
         /\ w.cell.job = execution.job
         /\ lastSql \notin Bare => w.relation = execution.from]_vars

\* A refresh runs the source of the result that is kept, whatever was typed or run since it
\* was asked for, and a run that was not asked for as a refresh is not taken for one.
RefreshRunsTheRetainedSource ==
    /\ refreshPending => parameters # None /\ parameters.sql = lastSql
    /\ runningRefresh => sent.sql = lastSql /\ sent.write = None

\* No two of the prompts that can each send a statement are open together.
OneOwner == Cardinality({x \in {"parameters", "value", "review"} :
    \/ x = "parameters" /\ parameters # None
    \/ x = "value" /\ prompt # None
    \/ x = "review" /\ pending # None}) <= 1

\* The answer to a cell's UPDATE leaves the result as the snapshot it was read as, and no
\* other answer is lost: it is the result from then on.
SnapshotsStay ==
    [][phase # 0 /\ phase' = 0 /\ link' = link /\ sent.sql # "plan" =>
         IF sent.write # None THEN UNCHANGED <<execution, lastSql>>
                              ELSE execution'.job = phase /\ lastSql' = sent.sql]_vars

\* docs/security/threat-model.md: the relation is resolved in the executing session, so that
\* the UPDATE does not target another one than the result shows.
UpdatesTheRelationRead == sent.write # None => sent.write.relation = execution.from
=============================================================================
