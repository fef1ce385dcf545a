------------------------- MODULE CellUpdateTheorems -------------------------
(***************************************************************************)
(* The properties of CellUpdate for any rows and columns and any number of  *)
(* jobs, lookups and connections, from an invariant that says who may be    *)
(* open beside whom, what the job in flight was sent as, and which lookup   *)
(* an answer belongs to.                                                    *)
(***************************************************************************)
EXTENDS CellUpdate, FiniteSetTheorems, TLAPS

-----------------------------------------------------------------------------
(* The inductive invariant.                                                *)

\* A lookup, a prompt and a review of an UPDATE follow each other, nothing else that could
\* send a statement is open beside them, and none of them while a job is in flight.
OwnersFollow ==
    /\ parameters # None => prompt = None /\ pending = None
    /\ prompt # None => pending = None
    /\ prompt # None \/ pending # None => lookup = None
    /\ phase # 0 => parameters = None /\ lookup = None /\ prompt = None /\ pending = None

\* What is kept about a job is what was sent, until it ends.
JobsAreTold ==
    /\ phase # 0 => link = "connected"
    /\ phase = 0 => sent.write = None /\ ~runningRefresh
    /\ runningCell <=> sent.write # None
    /\ phase # 0 /\ sent.sql # "plan" => runningSql = sent.sql
    /\ sent.write # None <=> sent.sql = "update"
    /\ execution.rows => execution.job # 0

\* Parameters are asked for only where they can be sent, and a refresh with them is of the
\* source that is kept.
RefreshesAreMeant ==
    /\ parameters # None => link = "connected"
    /\ RefreshRunsTheRetainedSource

\* A source that names its schema is read from, looked up in and written to that schema.
RelationsAreRead ==
    /\ execution.rows /\ lastSql \notin Bare => execution.from = "written"
    /\ \A r \in reads : r.request <= nextRequest
    /\ lookup # None => \A r \in reads : r.request = lookup.request => r.sql = lookup.cell.sql
    /\ prompt # None /\ prompt.cell.sql \notin Bare => prompt.relation = "written"
    /\ pending # None /\ pending.cell.sql \notin Bare => pending.relation = "written"
    /\ pending # None => pending.row = pending.cell.row

IInv ==
    /\ TypeOK
    /\ OwnersFollow
    /\ JobsAreTold
    /\ RefreshesAreMeant
    /\ RelationsAreRead

-----------------------------------------------------------------------------
(* Facts about the grid.                                                   *)

\* The source row that is selected is one that is displayed, when there is one.
LEMMA SelectedIsDisplayed ==
    /\ SelectedSourceRow # 0 => SelectedSourceRow \in Displayed
    /\ kept \subseteq Row => SelectedSourceRow \in Row \cup {0}
                             /\ (SelectedSourceRow = 0 \/ SelectedSourceRow \in kept)
<1>1. CASE \E r \in Displayed : Selected(r)
  BY <1>1 DEF SelectedSourceRow, Displayed
<1>2. CASE ~\E r \in Displayed : Selected(r)
  BY <1>2 DEF SelectedSourceRow, Displayed
<1> QED
  BY <1>1, <1>2

\* Whatever the sort, the place of a row that is kept is one of the places of the grid.
LEMMA PlaceInGrid ==
    ASSUME NEW rank \in Orders, NEW r \in kept, kept \subseteq Row
    PROVE  Place(rank, r) \in 1..Cardinality(Row)
<1> DEFINE before == {q \in kept : rank[q] <= rank[r]}
<1>1. IsFiniteSet(Row) /\ Row \subseteq Nat
  BY GridAssumption
<1>2. rank[r] \in Nat /\ r \in before
  <2>1. rank \in [Row -> Row] /\ r \in Row
    BY DEF Orders
  <2>2. rank[r] \in Nat
    BY <1>1, <2>1
  <2> QED
    BY <2>2
<1>3. IsFiniteSet(before) /\ Cardinality(before) <= Cardinality(Row)
  BY <1>1, FS_Subset
<1>4. Cardinality(before) \in Nat /\ Cardinality(Row) \in Nat /\ Cardinality(before) # 0
  BY <1>1, <1>2, <1>3, FS_CardinalityType, FS_EmptySet
<1> QED
  BY <1>3, <1>4 DEF Place

\* A grid that is reset shows every row in its order, and selects the first cell.
LEMMA ResetGridTypes ==
    /\ Natural \in Orders
    /\ 1 \in 1..Cardinality(Row)
    /\ 1 \in Column
<1>1. Natural \in Orders
  BY DEF Natural, Orders
<1>2. Cardinality(Row) \in Nat /\ Cardinality(Row) # 0
  BY GridAssumption, FS_CardinalityType, FS_EmptySet
<1> QED
  BY <1>1, <1>2, GridAssumption

\* No record is mistaken for an absent one.
LEMMA Present ==
    /\ \A sql : [sql |-> sql] # None
    /\ None \notin Pendings /\ None \notin Prompts
<1>1. ASSUME NEW sql PROVE [sql |-> sql] # None
  <2>1. DOMAIN [sql |-> sql] = {"sql"} /\ DOMAIN None = {"none"}
    BY DEF None
  <2> QED
    BY <2>1
<1>2. ASSUME NEW p \in Pendings PROVE p # None
  <2>1. "cell" \in DOMAIN p /\ "cell" \notin DOMAIN None
    BY DEF Pendings, None
  <2> QED
    BY <2>1
<1>3. ASSUME NEW p \in Prompts PROVE p # None
  <2>1. "cell" \in DOMAIN p /\ "cell" \notin DOMAIN None
    BY DEF Prompts, None
  <2> QED
    BY <2>1
<1> QED
  BY <1>1, <1>2, <1>3

-----------------------------------------------------------------------------
(* The initial states, and the steps that change what is shown.            *)

\* Nothing is asked about and nothing has been sent.
LEMMA InitIInv == Init => IInv
<1> SUFFICES ASSUME Init PROVE IInv
  OBVIOUS
<1>a. LinkTypes
  BY GridAssumption DEF Init, LinkTypes
<1>e. FlagTypes
  BY DEF Init, FlagTypes
<1>b. JobTypes
  BY GridAssumption DEF Init, JobTypes
<1>c. ShownTypes
  BY ResetGridTypes, GridAssumption DEF Init, ShownTypes
<1>d. ReviewTypes
  BY GridAssumption DEF Init, ReviewTypes
<1>1. TypeOK
  BY <1>a, <1>b, <1>c, <1>d, <1>e DEF TypeOK
<1>2. OwnersFollow /\ JobsAreTold
  BY DEF Init, OwnersFollow, JobsAreTold, Editable
<1>3. RefreshesAreMeant /\ RelationsAreRead
  BY DEF Init, RefreshesAreMeant, RefreshRunsTheRetainedSource, RelationsAreRead, Bare
<1> QED
  BY <1>1, <1>2, <1>3 DEF IInv

\* Whatever moves the grid, the focus, the plan or another owner of the keyboard leaves the
\* statements that could be sent alone.
LEMMA ShownStep ==
    ASSUME IInv,
           UNCHANGED <<connection, failedTx, server, job, execution, lastSql, parameters,
                       refreshPending, review, lookups>>,
           order' \in Orders, kept' \subseteq Row,
           selectedRow' \in 1..Cardinality(Row), selectedColumn' \in Column,
           focus' \in {"results", "elsewhere"}, plan' \in BOOLEAN,
           overlay' \in {"none", "filter", "other"}
    PROVE  IInv'
<1> USE DEF connection, server, job, review, lookups
<1>1. TypeOK'
  <2>1. LinkTypes' /\ JobTypes' /\ ShownTypes' /\ ReviewTypes'
    BY DEF IInv, TypeOK, LinkTypes, JobTypes, ShownTypes, ReviewTypes
  <2>2. FlagTypes'
    BY DEF IInv, TypeOK, FlagTypes
  <2> QED
    BY <2>1, <2>2 DEF TypeOK
<1>2. OwnersFollow' /\ JobsAreTold'
  BY DEF IInv, OwnersFollow, JobsAreTold
<1>3. RefreshesAreMeant'
  BY DEF IInv, RefreshesAreMeant, RefreshRunsTheRetainedSource
<1>4. RelationsAreRead'
  BY DEF IInv, RelationsAreRead
<1> QED
  BY <1>1, <1>2, <1>3, <1>4 DEF IInv

\* Moving over, filtering and sorting the grid.
LEMMA ViewStep == IInv /\ View => IInv'
<1> SUFFICES ASSUME IInv, View PROVE IInv'
  OBVIOUS
<1> USE DEF IInv, TypeOK, FlagTypes, ShownTypes, ReviewTypes, keyboard
<1>1. CASE \E i \in 1..Cardinality(Row), c \in Column : Select(i, c)
  BY <1>1, ShownStep DEF Select
<1>2. CASE \E c \in Column : MoveColumn(c)
  BY <1>2, ShownStep DEF MoveColumn
<1>3. CASE \E rows \in SUBSET Row : ResultFilter(rows)
  BY <1>3, ShownStep, ResetGridTypes DEF ResultFilter
<1>4. ASSUME NEW rank \in Orders, ToggleSort(rank) PROVE IInv'
  <2>1. selectedRow' \in 1..Cardinality(Row)
    BY <1>4, SelectedIsDisplayed, PlaceInGrid, ResetGridTypes, GridAssumption DEF ToggleSort
  <2> QED
    BY <1>4, <2>1, ShownStep DEF ToggleSort
<1> QED
  BY <1>1, <1>2, <1>3, <1>4 DEF View

\* What else takes the keyboard, and closing the plan.
LEMMA KeyboardStep == IInv /\ (Keyboard \/ ClosePlan) => IInv'
<1> SUFFICES ASSUME IInv, Keyboard \/ ClosePlan PROVE IInv'
  OBVIOUS
<1> USE DEF IInv, TypeOK, FlagTypes, ShownTypes, result, grid
<1>1. CASE FocusNext
  BY <1>1, ShownStep DEF FocusNext
<1>2. CASE \E o \in {"filter", "other"} : OpenOverlay(o)
  BY <1>2, ShownStep DEF OpenOverlay
<1>3. CASE CloseOverlay
  BY <1>3, ShownStep DEF CloseOverlay
<1>4. CASE Loaded
  BY <1>4, ShownStep DEF Loaded
<1>5. CASE ClosePlan
  BY <1>5, ShownStep DEF ClosePlan
<1> QED
  BY <1>1, <1>2, <1>3, <1>4, <1>5 DEF Keyboard

-----------------------------------------------------------------------------
(* The steps of a job.                                                     *)

\* A statement that is sent closes every prompt, and is told from a refresh and from the
\* UPDATE of a cell.
LEMMA SendingStep ==
    ASSUME IInv, link = "connected",
           NEW sql \in Sources \cup {"update"}, NEW write \in {None} \cup Pendings,
           write # None <=> sql = "update",
           NEW refreshing \in BOOLEAN, refreshing => write = None /\ sql = lastSql,
           StartWithParameters(sql, write, refreshing)
    PROVE  IInv'
<1> USE DEF StartWithParameters, Start, NoReviews, connection, server, result, grid, lookups
<1>1. nextJob' \in 0..MaxJob /\ phase' \in 0..nextJob' /\ phase' # 0
  BY GridAssumption DEF IInv, TypeOK, JobTypes
<1>2. TypeOK'
  <2>1. LinkTypes' /\ ShownTypes'
    BY DEF IInv, TypeOK, LinkTypes, ShownTypes
  <2>2. JobTypes'
    BY <1>1 DEF JobTypes
  <2>3. ReviewTypes'
    BY DEF IInv, TypeOK, ReviewTypes
  <2>4. FlagTypes'
    BY DEF IInv, TypeOK, FlagTypes
  <2> QED
    BY <2>1, <2>2, <2>3, <2>4 DEF TypeOK
<1>3. OwnersFollow' /\ JobsAreTold'
  BY <1>1 DEF IInv, OwnersFollow, JobsAreTold
<1>4. RefreshesAreMeant' /\ RelationsAreRead'
  BY DEF IInv, RefreshesAreMeant, RefreshRunsTheRetainedSource, RelationsAreRead
<1> QED
  BY <1>2, <1>3, <1>4 DEF IInv

\* Parameters are asked for where nothing else is open and nothing runs.
LEMMA AskingStep ==
    ASSUME IInv, NoReview, Idle,
           NEW sql \in Asking, NEW refreshing \in BOOLEAN, refreshing => sql = lastSql,
           AskParameters(sql, refreshing)
    PROVE  IInv'
<1> USE DEF AskParameters, NoReview, Idle, connection, server, job, result, grid,
   review, lookups
<1>1. TypeOK'
  <2>1. LinkTypes' /\ JobTypes' /\ ShownTypes' /\ ReviewTypes'
    BY DEF IInv, TypeOK, LinkTypes, JobTypes, ShownTypes, ReviewTypes
  <2>2. FlagTypes'
    BY DEF IInv, TypeOK, FlagTypes
  <2> QED
    BY <2>1, <2>2 DEF TypeOK
<1>2. OwnersFollow' /\ JobsAreTold'
  BY DEF IInv, OwnersFollow, JobsAreTold
<1>3. RefreshesAreMeant'
  BY Present DEF IInv, RefreshesAreMeant, RefreshRunsTheRetainedSource, JobsAreTold
<1>4. RelationsAreRead'
  BY DEF IInv, RelationsAreRead
<1> QED
  BY <1>1, <1>2, <1>3, <1>4 DEF IInv

\* A source that is run, once no prompt is open.
LEMMA RunStep == IInv /\ (\E sql \in Sources : Run(sql)) => IInv'
<1> SUFFICES ASSUME IInv, NEW sql \in Sources, Run(sql) PROVE IInv'
  OBVIOUS
<1>1. refreshPending = FALSE /\ link = "connected" /\ sql # "update"
  BY DEF IInv, TypeOK, FlagTypes, RefreshesAreMeant, RefreshRunsTheRetainedSource, Run,
     Main, NoReview, Idle, Sources
<1>2. CASE sql \in Asking
  BY <1>1, <1>2, AskingStep DEF Run, Main
<1>3. CASE sql \notin Asking
  BY <1>1, <1>3, SendingStep DEF Run
<1> QED
  BY <1>2, <1>3

\* A refresh is of the source that is kept.
LEMMA RefreshStep == IInv /\ BeginRefreshResult => IInv'
<1> SUFFICES ASSUME IInv, BeginRefreshResult PROVE IInv'
  OBVIOUS
<1>1. link = "connected" /\ lastSql \in Sources /\ lastSql # "update"
  BY DEF BeginRefreshResult, Idle, Refreshable, Editable, Sources
<1>2. CASE lastSql \in Asking
  BY <1>1, <1>2, AskingStep DEF BeginRefreshResult, Main
<1>3. CASE lastSql \notin Asking
  BY <1>1, <1>3, SendingStep DEF BeginRefreshResult
<1> QED
  BY <1>2, <1>3

\* The parameters that are accepted are those of the source they were asked for.
LEMMA AcceptStep == IInv /\ AcceptParameters => IInv'
<1> SUFFICES ASSUME IInv, AcceptParameters PROVE IInv'
  OBVIOUS
<1>1. link = "connected" /\ phase = 0
  BY DEF IInv, TypeOK, FlagTypes, RefreshesAreMeant, OwnersFollow, AcceptParameters
<1>2. parameters.sql \in Sources /\ parameters.sql # "update"
  BY DEF IInv, TypeOK, ReviewTypes, AcceptParameters, Asking, Sources
<1>3. refreshPending \in BOOLEAN /\ (refreshPending => parameters.sql = lastSql)
  BY DEF IInv, TypeOK, FlagTypes, RefreshesAreMeant, RefreshRunsTheRetainedSource
<1>4. StartWithParameters(parameters.sql, None, refreshPending)
  BY <1>1 DEF AcceptParameters, Idle
<1> QED
  BY <1>1, <1>2, <1>3, <1>4, SendingStep

\* Dismissing the parameters dismisses the refresh they were asked for.
LEMMA DismissStep == IInv /\ DismissParameters => IInv'
<1> SUFFICES ASSUME IInv, DismissParameters PROVE IInv'
  OBVIOUS
<1> USE DEF DismissParameters, connection, server, job, result, grid, review, lookups
<1>1. TypeOK'
  <2>1. LinkTypes' /\ JobTypes' /\ ShownTypes' /\ ReviewTypes'
    BY DEF IInv, TypeOK, LinkTypes, JobTypes, ShownTypes, ReviewTypes
  <2>2. FlagTypes'
    BY DEF IInv, TypeOK, FlagTypes
  <2> QED
    BY <2>1, <2>2 DEF TypeOK
<1>2. OwnersFollow' /\ JobsAreTold'
  BY DEF IInv, OwnersFollow, JobsAreTold
<1>3. RefreshesAreMeant' /\ RelationsAreRead'
  BY DEF IInv, RefreshesAreMeant, RefreshRunsTheRetainedSource, RelationsAreRead
<1> QED
  BY <1>1, <1>2, <1>3 DEF IInv

\* A plan is a job of its own, which is neither a refresh nor the UPDATE of a cell.
LEMMA PlanStep == IInv /\ BeginPlan => IInv'
<1> SUFFICES ASSUME IInv, BeginPlan PROVE IInv'
  OBVIOUS
<1> USE DEF BeginPlan, Start, Idle, NoReviews, connection, server, result, grid, lookups
<1>0. nextJob' \in 0..MaxJob /\ phase' \in 0..nextJob' /\ phase' # 0
  BY GridAssumption DEF IInv, TypeOK, JobTypes
<1>1. TypeOK'
  <2>1. LinkTypes' /\ JobTypes' /\ ShownTypes' /\ ReviewTypes'
    BY <1>0 DEF IInv, TypeOK, LinkTypes, JobTypes, ShownTypes, ReviewTypes
  <2>2. FlagTypes'
    BY DEF IInv, TypeOK, FlagTypes
  <2> QED
    BY <2>1, <2>2 DEF TypeOK
<1>2. OwnersFollow' /\ JobsAreTold'
  BY <1>0 DEF IInv, OwnersFollow, JobsAreTold
<1>3. RefreshesAreMeant' /\ RelationsAreRead'
  BY DEF IInv, RefreshesAreMeant, RefreshRunsTheRetainedSource, RelationsAreRead,
     JobsAreTold, OwnersFollow
<1> QED
  BY <1>1, <1>2, <1>3 DEF IInv

\* The answer to a plan leaves the result and its source alone.
LEMMA FinishPlanStep == IInv /\ FinishPlan => IInv'
<1> SUFFICES ASSUME IInv, FinishPlan PROVE IInv'
  OBVIOUS
<1> USE DEF FinishPlan, connection, server, result, grid, review, lookups
<1>0. ~runningRefresh /\ ~runningCell
  BY DEF IInv, TypeOK, ShownTypes, Sources, RefreshesAreMeant,
     RefreshRunsTheRetainedSource, JobsAreTold
<1>1. TypeOK'
  <2>1. LinkTypes' /\ JobTypes' /\ ShownTypes' /\ ReviewTypes'
    BY DEF IInv, TypeOK, LinkTypes, JobTypes, ShownTypes, ReviewTypes
  <2>2. FlagTypes'
    BY DEF IInv, TypeOK, FlagTypes
  <2> QED
    BY <2>1, <2>2 DEF TypeOK
<1>2. OwnersFollow' /\ JobsAreTold'
  BY <1>0 DEF IInv, OwnersFollow, JobsAreTold
<1>3. RefreshesAreMeant' /\ RelationsAreRead'
  BY <1>0 DEF IInv, RefreshesAreMeant, RefreshRunsTheRetainedSource, RelationsAreRead,
     JobsAreTold, OwnersFollow
<1> QED
  BY <1>1, <1>2, <1>3 DEF IInv

\* The answer to a source becomes the result; the answer to the UPDATE of a cell does not.
LEMMA FinishStep == IInv /\ ExecutionFinished => IInv'
<1> SUFFICES ASSUME IInv, ExecutionFinished PROVE IInv'
  OBVIOUS
<1> USE DEF ExecutionFinished, NothingRuns, NoReviews, connection, lookups
<1>0. /\ path' \in Path
      /\ \/ UNCHANGED <<execution, lastSql, order, kept, selectedRow, selectedColumn, overlay>>
         \/ /\ sent.sql \in Sources \cup {"none"} /\ lastSql' = sent.sql
            /\ execution'.job = phase
            /\ execution' \in [job : 0..MaxJob, rows : BOOLEAN, from : {ReadFrom(sent.sql)}]
            /\ order' \in Orders /\ kept' = Row /\ selectedRow' = 1 /\ selectedColumn' = 1
            /\ overlay' \in {"none", "other"}
  <2>1. path' \in Path
    BY DEF IInv, TypeOK, LinkTypes
  <2>2. CASE runningCell
    BY <2>1, <2>2 DEF result, grid
  <2>3. CASE ~runningCell
    <3>1. sent.write = None /\ sent.sql # "update"
      BY <2>3 DEF IInv, JobsAreTold
    <3>2. sent.sql \in Sources \cup {"none"}
      BY <3>1 DEF IInv, TypeOK, JobTypes
    <3>3. lastSql' = sent.sql
      BY <2>3 DEF IInv, JobsAreTold
    <3>4. phase \in 0..MaxJob
      BY GridAssumption DEF IInv, TypeOK, JobTypes
    <3>5. PICK rows \in BOOLEAN :
              execution' = [job |-> phase, rows |-> rows, from |-> ReadFrom(sent.sql)]
      BY <2>3
    <3>6. /\ execution' \in [job : 0..MaxJob, rows : BOOLEAN, from : {ReadFrom(sent.sql)}]
          /\ execution'.job = phase
      BY <3>4, <3>5
    <3> QED
      BY <2>1, <2>3, <3>2, <3>3, <3>6, ResetGridTypes DEF ResetGrid
  <2> QED
    BY <2>2, <2>3
<1>1. TypeOK'
  <2>a. ReadFrom(sent.sql) \in Schemas \cup {"none"}
    BY GridAssumption DEF IInv, TypeOK, LinkTypes, ReadFrom, Schemas
  <2>b. execution' \in [job : 0..MaxJob, rows : BOOLEAN, from : Schemas \cup {"none"}]
    BY <1>0, <2>a DEF IInv, TypeOK, ShownTypes
  <2>c. ShownTypes'
    BY <1>0, <2>b, ResetGridTypes DEF IInv, TypeOK, ShownTypes
  <2>d. LinkTypes' /\ JobTypes' /\ ReviewTypes'
    BY <1>0 DEF IInv, TypeOK, LinkTypes, JobTypes, ReviewTypes
  <2>1. LinkTypes' /\ JobTypes' /\ ShownTypes' /\ ReviewTypes'
    BY <2>c, <2>d
  <2>2. FlagTypes'
    BY DEF IInv, TypeOK, FlagTypes
  <2> QED
    BY <2>1, <2>2 DEF TypeOK
<1>2. OwnersFollow' /\ JobsAreTold'
  BY <1>0 DEF IInv, OwnersFollow, JobsAreTold
<1>3. RefreshesAreMeant' /\ RelationsAreRead'
  BY <1>0 DEF ReadFrom, IInv, RefreshesAreMeant, RefreshRunsTheRetainedSource,
     RelationsAreRead, JobsAreTold, OwnersFollow
<1> QED
  BY <1>1, <1>2, <1>3 DEF IInv

-----------------------------------------------------------------------------
(* The steps of the connection.                                            *)

\* A new connection is begun where nothing runs and nothing is open, and forgets the result.
LEMMA BeginConnectionStep == IInv /\ BeginConnection => IInv'
<1> SUFFICES ASSUME IInv, BeginConnection PROVE IInv'
  OBVIOUS
<1> USE DEF BeginConnection, NothingRuns, NoReviews, ResetGrid, Main, NoReview, server,
   lookups
<1>1. TypeOK'
  <2>1. LinkTypes' /\ JobTypes' /\ ShownTypes' /\ ReviewTypes'
    BY ResetGridTypes, GridAssumption DEF IInv, TypeOK, LinkTypes, JobTypes,
       ShownTypes, ReviewTypes
  <2>2. FlagTypes'
    BY DEF IInv, TypeOK, FlagTypes
  <2> QED
    BY <2>1, <2>2 DEF TypeOK
<1>2. OwnersFollow' /\ JobsAreTold'
  BY DEF IInv, OwnersFollow, JobsAreTold
<1>3. RefreshesAreMeant' /\ RelationsAreRead'
  BY DEF IInv, RefreshesAreMeant, RefreshRunsTheRetainedSource, RelationsAreRead,
     JobsAreTold, OwnersFollow
<1> QED
  BY <1>1, <1>2, <1>3 DEF IInv

\* A session opens with nothing under review.
LEMMA ConnectedStep == IInv /\ Connected => IInv'
<1> SUFFICES ASSUME IInv, Connected PROVE IInv'
  OBVIOUS
<1> USE DEF Connected, job, result, grid, review, lookups
<1>1. TypeOK'
  <2>1. LinkTypes' /\ JobTypes' /\ ShownTypes' /\ ReviewTypes'
    BY GridAssumption DEF IInv, TypeOK, LinkTypes, JobTypes, ShownTypes, ReviewTypes
  <2>2. FlagTypes'
    BY DEF IInv, TypeOK, FlagTypes
  <2> QED
    BY <2>1, <2>2 DEF TypeOK
<1>2. OwnersFollow' /\ JobsAreTold'
  BY DEF IInv, OwnersFollow, JobsAreTold
<1>3. RefreshesAreMeant' /\ RelationsAreRead'
  BY DEF IInv, RefreshesAreMeant, RefreshRunsTheRetainedSource, RelationsAreRead,
     JobsAreTold, OwnersFollow
<1> QED
  BY <1>1, <1>2, <1>3 DEF IInv

\* A connection that fails had nothing in flight.
LEMMA ConnectionFailedStep == IInv /\ ConnectionFailed => IInv'
<1> SUFFICES ASSUME IInv, ConnectionFailed PROVE IInv'
  OBVIOUS
<1> USE DEF ConnectionFailed, NoReviews, server, result, grid, lookups
<1>1. TypeOK'
  <2>1. LinkTypes' /\ JobTypes' /\ ShownTypes' /\ ReviewTypes'
    BY DEF IInv, TypeOK, LinkTypes, JobTypes, ShownTypes, ReviewTypes
  <2>2. FlagTypes'
    BY DEF IInv, TypeOK, FlagTypes
  <2> QED
    BY <2>1, <2>2 DEF TypeOK
<1>2. OwnersFollow' /\ JobsAreTold'
  BY DEF IInv, OwnersFollow, JobsAreTold
<1>3. RefreshesAreMeant' /\ RelationsAreRead'
  BY DEF IInv, RefreshesAreMeant, RefreshRunsTheRetainedSource, RelationsAreRead,
     JobsAreTold, OwnersFollow
<1> QED
  BY <1>1, <1>2, <1>3 DEF IInv

\* The second session changes only where lookups are asked.
LEMMA MetadataStep == IInv /\ MetadataConnected => IInv'
<1> SUFFICES ASSUME IInv, MetadataConnected PROVE IInv'
  OBVIOUS
<1> USE DEF MetadataConnected, connection, job, result, grid, keyboard, review, lookups
<1>1. TypeOK'
  <2>1. LinkTypes' /\ JobTypes' /\ ShownTypes' /\ ReviewTypes'
    BY DEF IInv, TypeOK, LinkTypes, JobTypes, ShownTypes, ReviewTypes
  <2>2. FlagTypes'
    BY DEF IInv, TypeOK, FlagTypes
  <2> QED
    BY <2>1, <2>2 DEF TypeOK
<1>2. OwnersFollow' /\ JobsAreTold'
  BY DEF IInv, OwnersFollow, JobsAreTold
<1>3. RefreshesAreMeant' /\ RelationsAreRead'
  BY DEF IInv, RefreshesAreMeant, RefreshRunsTheRetainedSource, RelationsAreRead,
     JobsAreTold, OwnersFollow
<1> QED
  BY <1>1, <1>2, <1>3 DEF IInv

\* Everything that could be sent goes with the connection.
LEMMA ConnectionLostStep == IInv /\ ConnectionLost => IInv'
<1> SUFFICES ASSUME IInv, ConnectionLost PROVE IInv'
  OBVIOUS
<1> USE DEF ConnectionLost, NothingRuns, NoReviews, server, result, grid, lookups
<1>1. TypeOK'
  <2>1. LinkTypes' /\ JobTypes' /\ ShownTypes' /\ ReviewTypes'
    BY DEF IInv, TypeOK, LinkTypes, JobTypes, ShownTypes, ReviewTypes
  <2>2. FlagTypes'
    BY DEF IInv, TypeOK, FlagTypes
  <2> QED
    BY <2>1, <2>2 DEF TypeOK
<1>2. OwnersFollow' /\ JobsAreTold'
  BY DEF IInv, OwnersFollow, JobsAreTold
<1>3. RefreshesAreMeant' /\ RelationsAreRead'
  BY DEF IInv, RefreshesAreMeant, RefreshRunsTheRetainedSource, RelationsAreRead,
     JobsAreTold, OwnersFollow
<1> QED
  BY <1>1, <1>2, <1>3 DEF IInv

-----------------------------------------------------------------------------
(* The steps of the UPDATE of a cell.                                      *)

\* The cell a person asks about is one of the result that is kept.
LEMMA AskedCell ==
    ASSUME IInv, execution.rows, SelectedSourceRow # 0, lastSql \in Editable
    PROVE  [job |-> execution.job, row |-> SelectedSourceRow,
            column |-> selectedColumn, sql |-> lastSql] \in Cells
<1>1. execution.job \in 1..MaxJob
  BY GridAssumption DEF IInv, TypeOK, ShownTypes, JobsAreTold
<1>2. SelectedSourceRow \in Row
  BY SelectedIsDisplayed DEF IInv, TypeOK, ShownTypes
<1> QED
  BY <1>1, <1>2 DEF IInv, TypeOK, ShownTypes, Cells

\* A lookup is numbered after every one that is still being read.
LEMMA BeginCellUpdateStep == IInv /\ BeginCellUpdate => IInv'
<1> SUFFICES ASSUME IInv, BeginCellUpdate PROVE IInv'
  OBVIOUS
<1> USE DEF BeginCellUpdate, Main, NoReview, Idle, connection, server, job, result,
   grid, keyboard
<1> DEFINE cell == [job |-> execution.job, row |-> SelectedSourceRow,
                    column |-> selectedColumn, sql |-> lastSql]
           read == [request |-> nextRequest + 1, sql |-> lastSql, gen |-> generation,
                    slot |-> IF meta THEN "meta" ELSE "user"]
<1>1. cell \in Cells
  BY AskedCell
<1>2. nextRequest + 1 \in 1..MaxRequest /\ nextRequest \in Nat
  BY GridAssumption DEF IInv, TypeOK, ReviewTypes
<1>3. read \in [request : 1..MaxRequest, sql : Editable, gen : 1..MaxGeneration,
                slot : {"user", "meta"}]
  BY <1>2 DEF IInv, TypeOK, LinkTypes
<1>4. /\ lookup' = [request |-> nextRequest + 1, cell |-> cell]
      /\ reads' = reads \cup {read} /\ nextRequest' = nextRequest + 1
  OBVIOUS
<1> HIDE DEF cell, read
<1>t. TypeOK'
  <2>1. LinkTypes' /\ JobTypes' /\ ShownTypes' /\ ReviewTypes'
    BY <1>1, <1>2, <1>3, <1>4 DEF IInv, TypeOK, LinkTypes, JobTypes, ShownTypes, ReviewTypes
  <2>2. FlagTypes'
    BY DEF IInv, TypeOK, FlagTypes
  <2> QED
    BY <2>1, <2>2 DEF TypeOK
<1>o. OwnersFollow' /\ JobsAreTold'
  BY DEF IInv, OwnersFollow, JobsAreTold
<1>r. RefreshesAreMeant'
  BY DEF IInv, RefreshesAreMeant, RefreshRunsTheRetainedSource
<1>5. \A r \in reads : r.request \in Nat /\ r.request <= nextRequest
  BY GridAssumption DEF IInv, TypeOK, ReviewTypes, RelationsAreRead
<1>6. \A r \in reads' : r.request <= nextRequest'
  BY <1>2, <1>4, <1>5 DEF read
<1>7. \A r \in reads' : r.request = lookup'.request => r.sql = lookup'.cell.sql
  BY <1>2, <1>4, <1>5 DEF read, cell
<1>l. RelationsAreRead'
  BY <1>6, <1>7 DEF IInv, RelationsAreRead
<1> QED
  BY <1>t, <1>o, <1>r, <1>l DEF IInv

\* An answer opens the prompt of the lookup it was asked for.
LEMMA FinishUpdateStep ==
    ASSUME IInv, NEW r \in reads, NEW found \in {"refused", UpdateRelation(r)},
           FinishUpdateTarget(r, found)
    PROVE  IInv'
<1> USE DEF FinishUpdateTarget, connection, server, job, result, grid, keyboard
<1>1. /\ reads' \subseteq reads
      /\ lookup' \in {lookup, None}
      /\ \/ UNCHANGED prompt
         \/ /\ lookup # None /\ lookup' = None /\ lookup.request = r.request
            /\ Main /\ phase = 0 /\ found = UpdateRelation(r)
            /\ prompt' = [cell |-> lookup.cell, relation |-> found]
  BY DEF UpdateLookupHasNewerOwner, UpdateCandidateIsCurrent
<1>2. UpdateRelation(r) \in Schemas
  BY GridAssumption DEF IInv, TypeOK, LinkTypes, UpdateRelation, Schemas
<1>3. prompt' \in {None} \cup Prompts
  BY <1>1, <1>2 DEF IInv, TypeOK, ReviewTypes, Prompts
<1> USE DEF Main, NoReview
<1>t. TypeOK'
  <2>1. LinkTypes' /\ JobTypes' /\ ShownTypes' /\ ReviewTypes'
    BY <1>1, <1>3 DEF IInv, TypeOK, LinkTypes, JobTypes, ShownTypes, ReviewTypes
  <2>2. FlagTypes'
    BY DEF IInv, TypeOK, FlagTypes
  <2> QED
    BY <2>1, <2>2 DEF TypeOK
<1>o. OwnersFollow' /\ JobsAreTold'
  BY <1>1 DEF IInv, OwnersFollow, JobsAreTold
<1>r. RefreshesAreMeant'
  BY DEF IInv, RefreshesAreMeant, RefreshRunsTheRetainedSource
<1>4. prompt' # None /\ prompt'.cell.sql \notin Bare => prompt'.relation = "written"
  BY <1>1 DEF IInv, RelationsAreRead, UpdateRelation
<1>l. RelationsAreRead'
  BY <1>1, <1>4 DEF IInv, RelationsAreRead
<1> QED
  BY <1>t, <1>o, <1>r, <1>l DEF IInv

\* The row that is reviewed is that of the cell that was asked about.
LEMMA PromptStep == IInv /\ UpdatePromptAction => IInv'
<1> SUFFICES ASSUME IInv, UpdatePromptAction PROVE IInv'
  OBVIOUS
<1> USE DEF UpdatePromptAction, PromptOwns, connection, server, job, result, grid,
   keyboard, lookups
<1>1. /\ prompt \in Prompts
      /\ prompt.cell \in Cells /\ prompt.relation \in Schemas /\ prompt.cell.row \in Row
  BY DEF IInv, TypeOK, ReviewTypes, Prompts, Cells
<1>2. \/ pending' = [cell |-> prompt.cell, relation |-> prompt.relation,
                     row |-> prompt.cell.row]
      \/ UNCHANGED pending
  BY DEF UpdateCandidateIsCurrent
<1>3. pending' \in {None} \cup Pendings
  BY <1>1, <1>2 DEF IInv, TypeOK, ReviewTypes, Pendings
<1>t. TypeOK'
  <2>1. LinkTypes' /\ JobTypes' /\ ShownTypes' /\ ReviewTypes'
    BY <1>3 DEF IInv, TypeOK, LinkTypes, JobTypes, ShownTypes, ReviewTypes
  <2>2. FlagTypes'
    BY DEF IInv, TypeOK, FlagTypes
  <2> QED
    BY <2>1, <2>2 DEF TypeOK
<1>o. OwnersFollow' /\ JobsAreTold'
  BY DEF IInv, OwnersFollow, JobsAreTold
<1>r. RefreshesAreMeant'
  BY DEF IInv, RefreshesAreMeant, RefreshRunsTheRetainedSource
<1>l. RelationsAreRead'
  BY <1>2 DEF IInv, RelationsAreRead
<1> QED
  BY <1>t, <1>o, <1>r, <1>l DEF IInv

\* What is given up leaves nothing behind.
LEMMA DismissUpdateStep == IInv /\ DismissUpdate => IInv'
<1> SUFFICES ASSUME IInv, DismissUpdate PROVE IInv'
  OBVIOUS
<1> USE DEF DismissUpdate, PromptOwns, PendingOwns, connection, server, job, result,
   grid, keyboard, lookups
<1>t. TypeOK'
  <2>1. LinkTypes' /\ JobTypes' /\ ShownTypes' /\ ReviewTypes'
    BY DEF IInv, TypeOK, LinkTypes, JobTypes, ShownTypes, ReviewTypes
  <2>2. FlagTypes'
    BY DEF IInv, TypeOK, FlagTypes
  <2> QED
    BY <2>1, <2>2 DEF TypeOK
<1>o. OwnersFollow' /\ JobsAreTold'
  BY DEF IInv, OwnersFollow, JobsAreTold
<1>r. RefreshesAreMeant'
  BY DEF IInv, RefreshesAreMeant, RefreshRunsTheRetainedSource
<1>l. RelationsAreRead'
  BY DEF IInv, RelationsAreRead
<1> QED
  BY <1>t, <1>o, <1>r, <1>l DEF IInv

\* What is confirmed is sent, or given up.
LEMMA ConfirmStep == IInv /\ PendingUpdateAction => IInv'
<1> SUFFICES ASSUME IInv, PendingUpdateAction PROVE IInv'
  OBVIOUS
<1>1. pending # None /\ parameters = None /\ pending \in Pendings /\ prompt = None
  BY DEF PendingUpdateAction, PendingOwns, IInv, TypeOK, ReviewTypes
<1>2. refreshPending = FALSE
  BY <1>1 DEF IInv, TypeOK, FlagTypes, RefreshesAreMeant, RefreshRunsTheRetainedSource
<1>3. CASE StartWithParameters("update", pending, refreshPending) /\ link = "connected"
  BY <1>1, <1>2, <1>3, SendingStep
<1>4. CASE UNCHANGED <<connection, failedTx, server, job, result, keyboard, lookup, prompt, lookups>>
           /\ pending' = None
  <2> USE <1>4 DEF connection, server, job, result, grid, keyboard, lookups
  <2>1. DismissUpdate
    BY <1>1 DEF DismissUpdate, PendingOwns
  <2> QED
    BY <2>1, DismissUpdateStep
<1> QED
  BY <1>3, <1>4 DEF PendingUpdateAction

\* Every step keeps the invariant.
LEMMA NextIInv == IInv /\ [Next]_vars => IInv'
<1> SUFFICES ASSUME IInv, [Next]_vars PROVE IInv'
  OBVIOUS
<1>1. CASE UNCHANGED vars
  BY <1>1, ShownStep DEF vars, result, grid, keyboard, IInv, TypeOK, ShownTypes, FlagTypes
<1>2. CASE View \/ Keyboard
  BY <1>2, ViewStep, KeyboardStep
<1>3. CASE Jobs
  BY <1>3, RunStep, RefreshStep, AcceptStep, DismissStep, PlanStep, FinishPlanStep,
     KeyboardStep, FinishStep DEF Jobs
<1>4. CASE Connection
  BY <1>4, BeginConnectionStep, ConnectedStep, ConnectionFailedStep, MetadataStep,
     ConnectionLostStep DEF Connection
<1>5. CASE Update
  BY <1>5, BeginCellUpdateStep, PromptStep, ConfirmStep, DismissUpdateStep,
     FinishUpdateStep DEF Update
<1> QED
  BY <1>1, <1>2, <1>3, <1>4, <1>5 DEF Next

\* The invariant holds of every behaviour, for any rows, columns and bounds.
THEOREM CellInvariant == Spec => []IInv
  BY InitIInv, NextIInv, PTL DEF Spec

\* The variables have their types.
THEOREM CellTypes == Spec => []TypeOK
<1>1. IInv => TypeOK
  BY DEF IInv
<1> QED
  BY <1>1, CellInvariant, PTL

\* A refresh is of the source that is kept, from its key to its answer (begin_refresh_result,
\* parameter_action, start_with_parameters).
THEOREM RefreshesAreRetained == Spec => []RefreshRunsTheRetainedSource
<1>1. IInv => RefreshRunsTheRetainedSource
  BY DEF IInv, RefreshesAreMeant
<1> QED
  BY <1>1, CellInvariant, PTL

\* At most one of the prompts that can each send a statement is open (apply_action,
\* update_lookup_has_newer_owner).
THEOREM OwnersAreAlone == Spec => []OneOwner
<1> DEFINE open == {x \in {"parameters", "value", "review"} :
                      \/ x = "parameters" /\ parameters # None
                      \/ x = "value" /\ prompt # None
                      \/ x = "review" /\ pending # None}
<1>1. ASSUME IInv PROVE OneOwner
  <2>1. \E x : open \subseteq {x}
    BY <1>1 DEF IInv, OwnersFollow
  <2>2. PICK x : open \subseteq {x}
    BY <2>1
  <2>3. Cardinality(open) <= Cardinality({x}) /\ IsFiniteSet({x})
    BY <2>2, FS_Subset, FS_Singleton
  <2>4. Cardinality({x}) = 1
    BY FS_Singleton
  <2> QED
    BY <2>3, <2>4 DEF OneOwner
<1> QED
  BY <1>1, CellInvariant, PTL

-----------------------------------------------------------------------------
(* What leaves a review, and what an answer does.                          *)

\* What is sent names a write only when a review of it is confirmed.
LEMMA SentStep ==
    ASSUME IInv, [Next]_vars
    PROVE  \/ UNCHANGED sent \/ sent'.write = None
           \/ /\ PendingOwns /\ sent'.write = pending
              /\ UpdateCandidateIsCurrent(pending.cell)
<1> USE DEF connection, server, job, result, grid, keyboard, review, lookups
<1>1. CASE UNCHANGED vars
  BY <1>1 DEF vars
<1>2. CASE View \/ Keyboard
  BY <1>2 DEF View, Select, MoveColumn, ResultFilter, ToggleSort, Keyboard, FocusNext,
     CloseOverlay, Loaded, OpenOverlay
<1>3. CASE Jobs
  <2>1. CASE (\E sql \in Sources : Run(sql)) \/ BeginRefreshResult \/ AcceptParameters
    BY <2>1 DEF Run, BeginRefreshResult, AcceptParameters, AskParameters,
       StartWithParameters, Start
  <2>2. CASE DismissParameters \/ ClosePlan
    BY <2>2 DEF DismissParameters, ClosePlan
  <2>3. CASE BeginPlan \/ FinishPlan
    BY <2>3 DEF BeginPlan, FinishPlan, Start
  <2>4. CASE ExecutionFinished
    BY <2>4 DEF ExecutionFinished, NothingRuns
  <2> QED
    BY <1>3, <2>1, <2>2, <2>3, <2>4 DEF Jobs
<1>4. CASE Connection
  BY <1>4 DEF Connection, BeginConnection, Connected, ConnectionFailed, MetadataConnected,
     ConnectionLost, NothingRuns
<1>5. CASE Update
  BY <1>5 DEF Update, BeginCellUpdate, UpdatePromptAction, PendingUpdateAction,
     DismissUpdate,
     FinishUpdateTarget, StartWithParameters, Start
<1> QED
  BY <1>1, <1>2, <1>3, <1>4, <1>5 DEF Next

\* An UPDATE that is sent is for the cell that is shown selected, of the result it was asked
\* about, and for the relation the source names (update_candidate_is_current, plan_update).
THEOREM WritesAreOfTheShownCell == Spec => WritesNameTheShownCell
<1>1. ASSUME IInv, [Next]_vars, sent.write = None, sent'.write # None
      PROVE  /\ sent'.write.row = SelectedSourceRow
             /\ sent'.write.row = sent'.write.cell.row
             /\ sent'.write.cell.column = selectedColumn
             /\ sent'.write.cell.job = execution.job
             /\ lastSql \notin Bare => sent'.write.relation = execution.from
  <2>1. /\ pending # None /\ sent'.write = pending
        /\ UpdateCandidateIsCurrent(pending.cell)
    BY <1>1, SentStep DEF PendingOwns
  <2> QED
    BY <1>1, <2>1 DEF UpdateCandidateIsCurrent, IInv, RelationsAreRead
<1>2. IInv /\ [Next]_vars =>
        [sent.write = None /\ sent'.write # None =>
           LET w == sent'.write IN
           /\ w.row = SelectedSourceRow /\ w.row = w.cell.row
           /\ w.cell.column = selectedColumn
           /\ w.cell.job = execution.job
           /\ lastSql \notin Bare => w.relation = execution.from]_vars
  BY <1>1
<1> QED
  BY <1>2, CellInvariant, PTL DEF Spec, WritesNameTheShownCell

\* Only an answer ends a job while its connection stays.
LEMMA EndingStep ==
    ASSUME IInv, [Next]_vars, phase # 0, phase' = 0, link' = link, sent.sql # "plan"
    PROVE  ExecutionFinished
<1> USE DEF connection, server, job, result, grid, keyboard, review, lookups
<1>0. nextJob + 1 # 0
  BY GridAssumption DEF IInv, TypeOK, JobTypes
<1>1. CASE UNCHANGED vars
  BY <1>1 DEF vars
<1>2. CASE View \/ Keyboard
  BY <1>2 DEF View, Select, MoveColumn, ResultFilter, ToggleSort, Keyboard, FocusNext,
     CloseOverlay, Loaded, OpenOverlay
<1>3. CASE Jobs
  BY <1>0, <1>3 DEF Jobs, Run, BeginRefreshResult, AcceptParameters, DismissParameters,
     BeginPlan,
     FinishPlan, ClosePlan, AskParameters, StartWithParameters, Start, Idle
<1>4. CASE Connection
  BY <1>4 DEF Connection, BeginConnection, Connected, ConnectionFailed, MetadataConnected,
     ConnectionLost
<1>5. CASE Update
  BY <1>0, <1>5 DEF Update, BeginCellUpdate, UpdatePromptAction, PendingUpdateAction,
     DismissUpdate,
     FinishUpdateTarget, StartWithParameters, Start, Idle
<1> QED
  BY <1>1, <1>2, <1>3, <1>4, <1>5 DEF Next

\* The answer to a cell's UPDATE leaves the result alone, and any other answer becomes the
\* result (update, ExecutionFinished).
THEOREM ResultsAreSnapshots == Spec => SnapshotsStay
<1>1. ASSUME IInv, [Next]_vars, phase # 0, phase' = 0, link' = link, sent.sql # "plan"
      PROVE  IF sent.write # None THEN UNCHANGED <<execution, lastSql>>
                                  ELSE execution'.job = phase /\ lastSql' = sent.sql
  <2>1. ExecutionFinished
    BY <1>1, EndingStep
  <2>2. CASE runningCell
    <3>1. sent.write # None
      BY <1>1, <2>2 DEF IInv, JobsAreTold
    <3>2. UNCHANGED <<execution, lastSql>>
      BY <2>1, <2>2 DEF ExecutionFinished, result
    <3> QED
      BY <3>1, <3>2
  <2>3. CASE ~runningCell
    <3>1. sent.write = None /\ runningSql = sent.sql
      BY <1>1, <2>3 DEF IInv, JobsAreTold
    <3>2. lastSql' = runningSql
      BY <2>1, <2>3 DEF ExecutionFinished
    <3>3. PICK rows \in BOOLEAN :
              execution' = [job |-> phase, rows |-> rows, from |-> ReadFrom(sent.sql)]
      BY <2>1, <2>3 DEF ExecutionFinished
    <3> QED
      BY <3>1, <3>2, <3>3
  <2> QED
    BY <2>2, <2>3
<1>2. IInv /\ [Next]_vars =>
        [phase # 0 /\ phase' = 0 /\ link' = link /\ sent.sql # "plan" =>
           IF sent.write # None THEN UNCHANGED <<execution, lastSql>>
                                ELSE execution'.job = phase /\ lastSql' = sent.sql]_vars
  BY <1>1
<1> QED
  BY <1>2, CellInvariant, PTL DEF Spec, SnapshotsStay

-----------------------------------------------------------------------------
(* The UPDATE of a cell implements its review.                             *)

\* Where nothing is asked about, no cell is.
LEMMA NoStage ==
    /\ Stage = "none" <=> ~runningCell /\ pending = None /\ prompt = None /\ lookup = None
    /\ Stage = "none" => CellOf = None
  BY DEF Stage, CellOf

\* What touches neither a prompt nor the job leaves the review as it is.
LEMMA ReviewIdles ==
    ASSUME UNCHANGED <<sent, runningCell, lookup, prompt, pending>>
    PROVE  UNCHANGED <<Stage, CellOf>>
  BY DEF Stage, CellOf

\* What closes every prompt ends the review, if there was one.
LEMMA ReviewEnds ==
    ASSUME ~runningCell', lookup' = None, prompt' = None, pending' = None
    PROVE  [Review!Next]_<<Stage, CellOf>>
<1>1. Stage' = "none" /\ CellOf' = None
  BY DEF Stage, CellOf
<1>2. Stage = "none" => CellOf = None
  BY NoStage
<1> QED
  BY <1>1, <1>2 DEF Review!Next, Review!End

\* The keys of the review, and the answer to its lookup.
LEMMA ReviewKeys ==
    ASSUME IInv, Update
    PROVE  [Review!Next]_<<Stage, CellOf>>
<1> USE DEF connection, server, job, result, grid, keyboard, lookups
<1>1. CASE BeginCellUpdate
  <2>1. ~runningCell /\ prompt = None /\ pending = None
    BY <1>1 DEF BeginCellUpdate, Main, NoReview, Idle, IInv, JobsAreTold
  <2>2. /\ ~runningCell' /\ prompt' = None /\ pending' = None
        /\ lookup'.cell \in Cells /\ lookup' # None
    <3>1. ~runningCell' /\ prompt' = None /\ pending' = None
      BY <1>1, <2>1 DEF BeginCellUpdate
    <3>2. lookup' \in [request : {nextRequest + 1}, cell : Cells]
      BY <1>1, AskedCell DEF BeginCellUpdate
    <3>3. "cell" \in DOMAIN lookup' /\ "cell" \notin DOMAIN None
      BY <3>2 DEF None
    <3> QED
      BY <3>1, <3>2, <3>3
  <2>3. Stage \in {"none", "relation"} /\ Stage' = "relation" /\ CellOf' = lookup'.cell
    BY <2>1, <2>2 DEF Stage, CellOf
  <2> QED
    BY <2>2, <2>3 DEF Review!Next, Review!Ask
<1>2. ASSUME NEW r \in reads, NEW found \in {"refused", UpdateRelation(r)},
             FinishUpdateTarget(r, found)
      PROVE  [Review!Next]_<<Stage, CellOf>>
  <2>1. CASE UNCHANGED lookup /\ UNCHANGED prompt
    BY <1>2, <2>1, ReviewIdles DEF FinishUpdateTarget
  <2>2. CASE lookup # None /\ lookup' = None
    <3>1. prompt = None /\ pending = None /\ phase = 0 /\ ~runningCell
      BY <2>2 DEF IInv, TypeOK, JobTypes, OwnersFollow, JobsAreTold
    <3>2. Stage = "relation" /\ CellOf = lookup.cell
      BY <2>2, <3>1 DEF Stage, CellOf
    <3>3. ~runningCell' /\ pending' = None
      BY <1>2, <3>1 DEF FinishUpdateTarget
    <3>4. CASE UNCHANGED prompt
      BY <2>2, <3>1, <3>3, <3>4, ReviewEnds
    <3>5. CASE prompt' = [cell |-> lookup.cell, relation |-> found]
      <4>1. prompt' # None
        <5>1. "cell" \in DOMAIN prompt' /\ "cell" \notin DOMAIN None
          BY <3>5 DEF None
        <5> QED
          BY <5>1
      <4>2. Stage' = "value" /\ CellOf' = lookup.cell
        BY <3>3, <3>5, <4>1 DEF Stage, CellOf
      <4> QED
        BY <3>2, <4>2 DEF Review!Next, Review!Enter
    <3> QED
      BY <1>2, <3>4, <3>5 DEF FinishUpdateTarget
  <2> QED
    BY <1>2, <2>1, <2>2 DEF FinishUpdateTarget
<1>3. CASE UpdatePromptAction
  <2>1. prompt # None /\ pending = None /\ lookup = None /\ ~runningCell
    BY <1>3 DEF UpdatePromptAction, PromptOwns, IInv, OwnersFollow, JobsAreTold
  <2>2. prompt' = None /\ lookup' = None /\ ~runningCell'
    BY <1>3, <2>1 DEF UpdatePromptAction
  <2>3. Stage = "value" /\ CellOf = prompt.cell
    BY <2>1 DEF Stage, CellOf
  <2>4. CASE UNCHANGED pending
    BY <2>1, <2>2, <2>4, ReviewEnds
  <2>5. CASE pending' = [cell |-> prompt.cell, relation |-> prompt.relation,
                         row |-> SelectedSourceRow]
    <3>1. pending' # None
      <4>1. "cell" \in DOMAIN pending' /\ "cell" \notin DOMAIN None
        BY <2>5 DEF None
      <4> QED
        BY <4>1
    <3>2. Stage' = "review" /\ CellOf' = prompt.cell
      BY <2>2, <2>5, <3>1 DEF Stage, CellOf
    <3> QED
      BY <2>3, <3>2 DEF Review!Next, Review!Review
  <2> QED
    BY <1>3, <2>4, <2>5 DEF UpdatePromptAction
<1>4. CASE PendingUpdateAction
  <2>1. prompt = None /\ pending # None /\ lookup = None /\ ~runningCell
    BY <1>4 DEF PendingUpdateAction, PendingOwns, IInv, OwnersFollow, JobsAreTold
  <2>2. Stage = "review" /\ CellOf = pending.cell
    BY <2>1 DEF Stage, CellOf
  <2>3. CASE pending' = None /\ UNCHANGED <<job, lookup, prompt>>
    BY <2>1, <2>3, ReviewEnds
  <2>4. CASE StartWithParameters("update", pending, refreshPending)
    <3>1. runningCell' /\ sent'.write = pending
      BY <2>1, <2>4 DEF StartWithParameters, Start
    <3>2. Stage' = "sent" /\ CellOf' = pending.cell
      BY <3>1 DEF Stage, CellOf
    <3> QED
      BY <2>2, <3>2 DEF Review!Next, Review!Send
  <2> QED
    BY <1>4, <2>3, <2>4 DEF PendingUpdateAction
<1>5. CASE DismissUpdate
  <2>1. lookup = None /\ ~runningCell
    BY <1>5 DEF DismissUpdate, PromptOwns, PendingOwns, IInv, OwnersFollow, JobsAreTold
  <2>2. lookup' = None /\ prompt' = None /\ pending' = None /\ ~runningCell'
    BY <1>5, <2>1 DEF DismissUpdate, PromptOwns, PendingOwns, IInv, OwnersFollow
  <2> QED
    BY <2>2, ReviewEnds
<1> QED
  BY <1>1, <1>2, <1>3, <1>4, <1>5 DEF Update

\* Every step is a step of the review, or leaves it as it is.
LEMMA ReviewStep ==
    ASSUME IInv, [Next]_vars
    PROVE  [Review!Next]_<<Stage, CellOf>>
<1> USE DEF connection, server, job, result, grid, keyboard, review, lookups
<1>1. CASE UNCHANGED vars
  BY <1>1, ReviewIdles DEF vars
<1>2. CASE View \/ Keyboard
  BY <1>2, ReviewIdles DEF View, Select, MoveColumn, ResultFilter, ToggleSort, Keyboard,
     FocusNext, CloseOverlay, Loaded, OpenOverlay
<1>3. CASE Jobs
  <2>1. ASSUME NEW sql, NEW refreshing, StartWithParameters(sql, None, refreshing)
        PROVE  [Review!Next]_<<Stage, CellOf>>
    BY <2>1, ReviewEnds DEF StartWithParameters, Start, NoReviews
  <2>2. ASSUME NEW sql, NEW refreshing, AskParameters(sql, refreshing)
        PROVE  [Review!Next]_<<Stage, CellOf>>
    BY <2>2, ReviewIdles DEF AskParameters
  <2>3. CASE (\E sql \in Sources : Run(sql)) \/ BeginRefreshResult
    BY <2>1, <2>2, <2>3 DEF Run, BeginRefreshResult
  <2>4. CASE AcceptParameters \/ DismissParameters \/ ClosePlan
    BY <2>1, <2>4, ReviewIdles DEF AcceptParameters, DismissParameters, ClosePlan
  <2>5. CASE BeginPlan
    BY <2>5, ReviewEnds DEF BeginPlan, Start, NoReviews
  <2>6. CASE FinishPlan
    <3>1. ~runningCell
      BY <2>6 DEF FinishPlan, IInv, JobsAreTold
    <3>2. ~runningCell' /\ UNCHANGED <<runningCell, lookup, prompt, pending>>
      BY <2>6, <3>1 DEF FinishPlan
    <3> QED
      BY <3>1, <3>2 DEF Stage, CellOf
  <2>7. CASE ExecutionFinished
    BY <2>7, ReviewEnds DEF ExecutionFinished, NothingRuns, NoReviews
  <2> QED
    BY <1>3, <2>3, <2>4, <2>5, <2>6, <2>7 DEF Jobs
<1>4. CASE Connection
  <2>1. CASE BeginConnection \/ ConnectionLost
    BY <2>1, ReviewEnds DEF BeginConnection, ConnectionLost, NothingRuns, NoReviews
  <2>2. CASE Connected \/ MetadataConnected
    BY <2>2, ReviewIdles DEF Connected, MetadataConnected
  <2>3. CASE ConnectionFailed
    <3>1. ~runningCell
      BY <2>3 DEF ConnectionFailed, IInv, TypeOK, JobTypes, JobsAreTold
    <3>2. ~runningCell' /\ NoReviews
      BY <2>3, <3>1 DEF ConnectionFailed
    <3> QED
      BY <3>2, ReviewEnds DEF NoReviews
  <2> QED
    BY <1>4, <2>1, <2>2, <2>3 DEF Connection
<1>5. CASE Update
  BY <1>5, ReviewKeys
<1> QED
  BY <1>1, <1>2, <1>3, <1>4, <1>5 DEF Next

\* From its key to the answer to its write an UPDATE is about one cell, and leaves by its
\* review, once (begin_cell_update ... pending_update_action).
THEOREM UpdatesKeepTheirReview == Spec => KeepsReview
<1>1. Init => Review!Init
  BY NoStage DEF Init, Review!Init
<1>2. IInv /\ [Next]_vars => [Review!Next]_<<Stage, CellOf>>
  BY ReviewStep
<1> QED
  BY <1>1, <1>2, CellInvariant, PTL DEF Spec, KeepsReview, Review!Spec
=============================================================================
