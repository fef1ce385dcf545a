----------------------------- MODULE Lifecycle -----------------------------
(***************************************************************************)
(* The life of a connection and of the one foreground statement it runs,   *)
(* in the interactive client: the pure reducer (app/update.rs), the event  *)
(* loop that performs its effects (cli/interactive.rs), the asynchronous   *)
(* workers those effects spawn, and the PostgreSQL session they use.       *)
(*                                                                         *)
(* The reducer and the loop are one thread: a message is reduced, then its *)
(* effect is performed, then the next message is taken.  Workers run       *)
(* beside it and talk to it only through `inbox', the unbounded FIFO, and  *)
(* through the shared generation counter `rgen', the target slot and the   *)
(* session slot.  Every handler here yields at most one effect.            *)
(*                                                                         *)
(* Sessions are named by the connection attempt that opened them.          *)
(***************************************************************************)
EXTENDS Naturals, Sequences, FiniteSets

CONSTANTS
    MaxGeneration,  \* bound on model.connection_generation
    MaxJob,         \* bound on jobs the reducer allocates
    MaxAttempt      \* bound on connection attempts the loop spawns

ASSUME BoundsAssumption ==
    /\ MaxGeneration \in Nat \ {0}
    /\ MaxJob \in Nat \ {0}
    /\ MaxAttempt \in Nat \ {0}

Generation == 1 .. MaxGeneration
Job        == 1 .. MaxJob
Attempt    == 1 .. MaxAttempt
None       == 0                 \* no job, no session, no target

VARIABLES
    \* The model, written only by the reducer.
    gen,        \* connection_generation
    conn,       \* connection
    phase,      \* phase: the state and, when busy, its job
    issued,     \* the last job allocate_job returned
    plan,       \* the job plan.job() names while a plan is loading
    sqlOf,      \* running_sql, named by the job it was submitted as
    review,     \* which of pending_run, parameter_prompt, pending_plan are open
    prompt,     \* password_prompt is open
    txn,        \* transaction
    last,       \* the job of last_execution
    lastSql,    \* last_sql, named like sqlOf
    recorded,   \* what RecordHistory was asked to write
    \* The loop and the state it shares with the workers.
    effect,     \* the effect reduced but not yet performed
    exited,     \* the loop has returned
    rgen,       \* the shared connection_generation counter
    target,     \* the generation whose target current_target holds
    slot,       \* the session slot
    inbox,      \* the message queue
    \* The workers and the server.
    attempt,    \* connection attempts
    spawned,    \* how many attempts have been spawned
    task,       \* the worker of each job
    canceller,  \* the cancellation worker of each job
    open        \* sessions whose server side is still there

model   == <<gen, conn, phase, issued, plan, sqlOf, review, prompt, txn, last, lastSql, recorded>>
loop    == <<effect, exited>>
shared  == <<rgen, target, slot, inbox>>
workers == <<attempt, spawned, task, canceller, open>>
vars    == <<model, loop, shared, workers>>

-----------------------------------------------------------------------------
Idle      == [state |-> "idle", job |-> None]
Phases    == [state : {"idle", "running", "cancelRequested"}, job : Job \cup {None}]
Owners    == {"pending_run", "parameter_prompt", "pending_plan"}
Outcomes  == {"succeeded", "failed", "cancelled", "lost"}
TxnStates == {"settled", "failed", "unknown"}

Effects  == [kind : {"none", "connectProfile", "reconnect", "run", "explain", "cancel"},
             job : Job \cup {None}]
NoEffect == [kind |-> "none", job |-> None]

\* A message in its ForConnection envelope.  What an answer carries is read
\* from the worker of its job, which no longer changes once it has answered.
Messages == [kind : {"connectingStep", "connected", "connectFailed", "authFailed",
                     "connectionLost", "executionFinished", "planFinished"},
             gen : Generation, job : Job \cup {None}]
Envelope(kind, g, job) == [kind |-> kind, gen |-> g, job |-> job]
Send(messages) == inbox' = inbox \o messages

AttemptStates   == {"none", "preparing", "starting", "opening", "requested", "pending",
                    "acknowledged", "done"}
TaskStates      == {"none", "spawned", "ready", "waiting", "executing", "probing",
                    "answered", "done"}
CancellerStates == {"none", "spawned", "ready", "sent", "done"}

Attempts   == [pc : AttemptStates, gen : Generation]
Tasks      == [pc : TaskStates, kind : {"run", "explain"}, gen : Generation,
               sess : Attempt \cup {None}, out : Outcomes, txn : TxnStates]
Cancellers == [pc : CancellerStates, gen : Generation, sess : Attempt \cup {None}]

NoAttempt   == [pc |-> "none", gen |-> 1]
NoTask      == [pc |-> "none", kind |-> "run", gen |-> 1, sess |-> None,
                out |-> "succeeded", txn |-> "settled"]
NoCanceller == [pc |-> "none", gen |-> 1, sess |-> None]

\* The application starts with a resolved target and its attempt under way, or
\* with the picker and no connection.
Init ==
    /\ gen = 1 /\ rgen = 1
    /\ phase = Idle /\ issued = 0 /\ plan = None /\ sqlOf = None
    /\ review = {} /\ prompt = FALSE /\ txn = "unknown"
    /\ last = None /\ lastSql = None /\ recorded = {}
    /\ effect = NoEffect /\ exited = FALSE /\ slot = None /\ inbox = <<>>
    /\ task = [j \in Job |-> NoTask]
    /\ canceller = [j \in Job |-> NoCanceller]
    /\ open = {}
    /\ \/ /\ conn = "connecting" /\ target = 1 /\ spawned = 1
          /\ attempt = [a \in Attempt |->
                          IF a = 1 THEN [pc |-> "starting", gen |-> 1] ELSE NoAttempt]
       \/ /\ conn = "disconnected" /\ target = None /\ spawned = 0
          /\ attempt = [a \in Attempt |-> NoAttempt]

-----------------------------------------------------------------------------
(* Conditions the reducer tests.                                           *)

Usable == conn = "connected"

BusyUntilCancelled == phase.state = "running"   \* fault: a cancelled job counts as over
Busy   == phase.state # "idle"

\* The loop is between messages: nothing reduced is waiting to be performed.
Quiet == ~exited /\ effect = NoEffect

\* No owner that apply_action peels before the ordinary key handling is open.
BaseInput == ~prompt /\ review = {}

\* The review that receives input, when any is open.
TopReview(owner) ==
    /\ ~prompt
    /\ owner \in review
    /\ owner # "parameter_prompt" => "parameter_prompt" \notin review
    /\ owner = "pending_plan" => "pending_run" \notin review

-----------------------------------------------------------------------------
(* Starting work.  `rest' is the set of reviews still open once the caller *)
(* has closed its own.                                                     *)

StartWithParameters(rest) ==
    IF ~Usable \/ Busy
    THEN /\ review' = rest
         /\ UNCHANGED <<gen, conn, phase, issued, plan, sqlOf, prompt, txn, last, lastSql,
                        recorded, effect>>
    ELSE /\ issued < MaxJob
         /\ issued' = issued + 1
         /\ phase' = [state |-> "running", job |-> issued + 1]
         /\ plan' = None
         /\ sqlOf' = issued + 1
         /\ review' = rest \ {"pending_plan", "parameter_prompt"}
         /\ effect' = [kind |-> "run", job |-> issued + 1]
         /\ UNCHANGED <<gen, conn, prompt, txn, last, lastSql, recorded>>

\* start(): refused, stopped by a template error, asking for values, or begun.
Start(rest) ==
    \/ StartWithParameters(rest)
    \/ /\ Usable /\ ~Busy
       /\ review' \in {rest, rest \cup {"parameter_prompt"}}
       /\ UNCHANGED <<gen, conn, phase, issued, plan, sqlOf, prompt, txn, last, lastSql,
                      recorded, effect>>

\* Fault: the plan pane forgets which job it is loading.
StartPlanUnowned(rest) ==
    /\ Usable /\ ~Busy /\ txn # "failed" /\ issued < MaxJob
    /\ issued' = issued + 1
    /\ phase' = [state |-> "running", job |-> issued + 1]
    /\ plan' = None /\ sqlOf' = None /\ review' = rest
    /\ effect' = [kind |-> "explain", job |-> issued + 1]
    /\ UNCHANGED <<gen, conn, prompt, txn, last, lastSql, recorded>>

StartPlan(rest) ==
    IF ~Usable \/ Busy \/ txn = "failed"
    THEN /\ review' = rest
         /\ UNCHANGED <<gen, conn, phase, issued, plan, sqlOf, prompt, txn, last, lastSql,
                        recorded, effect>>
    ELSE /\ issued < MaxJob
         /\ issued' = issued + 1
         /\ phase' = [state |-> "running", job |-> issued + 1]
         /\ plan' = issued + 1
         /\ sqlOf' = None
         /\ review' = rest
         /\ effect' = [kind |-> "explain", job |-> issued + 1]
         /\ UNCHANGED <<gen, conn, prompt, txn, last, lastSql, recorded>>

-----------------------------------------------------------------------------
(* What a person can do.  Refused inputs change nothing and are left out.  *)

Run ==
    /\ BaseInput /\ Usable /\ ~Busy
    /\ Start({})

HoldForReview ==
    /\ BaseInput /\ Usable /\ ~Busy
    /\ review' = {"pending_run"}
    /\ UNCHANGED <<gen, conn, phase, issued, plan, sqlOf, prompt, txn, last, lastSql,
                   recorded, effect>>

BeginPlan ==
    /\ BaseInput /\ Usable /\ ~Busy /\ txn # "failed"
    /\ \/ StartPlan({})
       \/ /\ review' = {"pending_plan"}
          /\ UNCHANGED <<gen, conn, phase, issued, plan, sqlOf, prompt, txn, last, lastSql,
                         recorded, effect>>

\* Fault: confirming does not close the confirmation.
ConfirmRunLeavesOpen == TopReview("pending_run") /\ Start(review)

ConfirmRun ==
    /\ TopReview("pending_run")
    /\ Start(review \ {"pending_run"})

AcceptParameters ==
    /\ TopReview("parameter_prompt")
    /\ StartWithParameters(review \ {"parameter_prompt"})

ConfirmPlan ==
    /\ TopReview("pending_plan")
    /\ StartPlan(review \ {"pending_plan"})

\* Escape on the top review, and a parameter value the template refuses.
DismissReview ==
    /\ \E owner \in Owners : TopReview(owner) /\ review' = review \ {owner}
    /\ UNCHANGED <<gen, conn, phase, issued, plan, sqlOf, prompt, txn, last, lastSql,
                   recorded, effect>>

CancelQuery ==
    /\ BaseInput
    /\ phase.state = "running"
    /\ phase' = [phase EXCEPT !.state = "cancelRequested"]
    /\ effect' = [kind |-> "cancel", job |-> phase.job]
    /\ UNCHANGED <<gen, conn, issued, plan, sqlOf, review, prompt, txn, last, lastSql, recorded>>

\* Fault: a switch is allowed while a statement is in flight.
BeginConnectionWhileBusy ==
    /\ BaseInput /\ conn # "connecting"
    /\ gen < MaxGeneration /\ spawned < MaxAttempt
    /\ gen' = gen + 1 /\ conn' = "connecting" /\ phase' = Idle
    /\ plan' = None /\ sqlOf' = None /\ review' = {} /\ prompt' = FALSE
    /\ txn' = "unknown" /\ last' = None
    /\ effect' = [kind |-> "connectProfile", job |-> None]
    /\ UNCHANGED <<issued, lastSql, recorded>>

\* Fault: a switch keeps the result of the old connection on screen.
BeginConnectionKeepsResult ==
    /\ BaseInput /\ ~Busy /\ conn # "connecting"
    /\ gen < MaxGeneration /\ spawned < MaxAttempt
    /\ gen' = gen + 1 /\ conn' = "connecting" /\ phase' = Idle
    /\ plan' = None /\ sqlOf' = None /\ review' = {} /\ prompt' = FALSE
    /\ txn' = "unknown"
    /\ effect' = [kind |-> "connectProfile", job |-> None]
    /\ UNCHANGED <<issued, last, lastSql, recorded>>

\* begin_connection(): the picker's choice, refused while busy or connecting.
BeginConnection ==
    /\ BaseInput /\ ~Busy /\ conn # "connecting"
    /\ gen < MaxGeneration /\ spawned < MaxAttempt
    /\ gen' = gen + 1
    /\ conn' = "connecting"
    /\ phase' = Idle
    /\ plan' = None /\ sqlOf' = None
    /\ review' = review \ {"pending_run", "pending_plan"}
    /\ prompt' = FALSE
    /\ txn' = "unknown"
    /\ last' = None
    /\ effect' = [kind |-> "connectProfile", job |-> None]
    /\ UNCHANGED <<issued, lastSql, recorded>>

SubmitPassword ==
    /\ prompt /\ spawned < MaxAttempt
    /\ prompt' = FALSE
    /\ conn' = "connecting"
    /\ effect' = [kind |-> "reconnect", job |-> None]
    /\ UNCHANGED <<gen, phase, issued, plan, sqlOf, review, txn, last, lastSql, recorded>>

DismissPassword ==
    /\ prompt
    /\ prompt' = FALSE
    /\ UNCHANGED <<gen, conn, phase, issued, plan, sqlOf, review, txn, last, lastSql,
                   recorded, effect>>

UserAction ==
    /\ Quiet
    /\ \/ Run \/ HoldForReview \/ BeginPlan \/ ConfirmRun \/ AcceptParameters \/ ConfirmPlan
       \/ DismissReview \/ CancelQuery \/ BeginConnection \/ SubmitPassword \/ DismissPassword
    /\ UNCHANGED <<exited, shared, workers>>

\* Quit returns from the loop, and the runtime drops its workers.
Quit ==
    /\ Quiet
    /\ exited' = TRUE
    /\ UNCHANGED <<model, effect, shared, workers>>

-----------------------------------------------------------------------------
(* Answers from the workers, as the reducer takes them.                    *)

HandleConnectingStep ==
    /\ conn' = "connecting"
    /\ UNCHANGED <<gen, phase, issued, plan, sqlOf, review, prompt, txn, last, lastSql, recorded>>

HandleConnected ==
    /\ conn' = "connected"
    /\ UNCHANGED <<gen, phase, issued, plan, sqlOf, review, prompt, txn, last, lastSql, recorded>>

\* "authFailed" is an Authentication diagnostic with no credential provider.
HandleConnectionFailed(kind) ==
    /\ phase' = Idle
    /\ conn' = "failed"
    /\ prompt' = (prompt \/ kind = "authFailed")
    /\ UNCHANGED <<gen, issued, plan, sqlOf, review, txn, last, lastSql, recorded>>

\* connection.info() is there only once connected.
LoseConnection == IF conn = "connected" THEN "lost" ELSE conn

HandleConnectionLost ==
    /\ conn' = LoseConnection
    /\ plan' = None
    /\ phase' = Idle
    /\ txn' = "unknown"
    /\ review' = {}
    /\ sqlOf' = None
    /\ UNCHANGED <<gen, issued, prompt, last, lastSql, recorded>>

\* Outcome::from_status.
HistoryOutcomeCoarse(out) == IF out = "cancelled" THEN "failed" ELSE out   \* fault
HistoryOutcome(out) == out

HandleExecutionFinished(j) ==
    IF ~(Busy /\ phase.job = j)
    THEN UNCHANGED model
    ELSE /\ phase' = Idle
         /\ txn' = task[j].txn
         /\ conn' = IF task[j].out = "lost" THEN LoseConnection ELSE conn
         /\ last' = j
         /\ lastSql' = sqlOf
         /\ sqlOf' = None
         /\ recorded' = IF sqlOf = None THEN recorded
                        ELSE recorded \cup {[sql |-> sqlOf, out |-> HistoryOutcome(task[j].out)]}
         /\ UNCHANGED <<gen, issued, plan, review, prompt>>

HandlePlanFinished(j) ==
    IF ~(Busy /\ phase.job = j /\ plan = j)
    THEN UNCHANGED model
    ELSE /\ phase' = Idle
         /\ txn' = task[j].txn
         /\ conn' = IF task[j].out = "lost" THEN LoseConnection ELSE conn
         /\ plan' = None
         /\ UNCHANGED <<gen, issued, sqlOf, review, prompt, last, lastSql, recorded>>

Handle(m) ==
    CASE m.kind = "connectingStep"    -> HandleConnectingStep
      [] m.kind = "connected"         -> HandleConnected
      [] m.kind = "connectFailed"     -> HandleConnectionFailed(m.kind)
      [] m.kind = "authFailed"        -> HandleConnectionFailed(m.kind)
      [] m.kind = "connectionLost"    -> HandleConnectionLost
      [] m.kind = "executionFinished" -> HandleExecutionFinished(m.job)
      [] m.kind = "planFinished"      -> HandlePlanFinished(m.job)

\* The envelope: an answer of another generation is dropped.
AcceptEnvelope(m) == m.gen = gen

ReduceMessage ==
    /\ Quiet /\ inbox # <<>>
    /\ inbox' = Tail(inbox)
    /\ IF AcceptEnvelope(Head(inbox)) THEN Handle(Head(inbox)) ELSE UNCHANGED model
    /\ UNCHANGED <<loop, rgen, target, slot, workers>>

-----------------------------------------------------------------------------
(* The loop performs the effect it is holding.                             *)

\* Pending and queued installations of the old generation are refused before
\* the generation moves; the old target and session are dropped after it has.
PerformConnectProfile ==
    /\ effect.kind = "connectProfile"
    /\ rgen' = rgen + 1
    /\ target' = None /\ slot' = None
    /\ spawned' = spawned + 1
    /\ attempt' = [a \in Attempt |->
                     IF a = spawned + 1 THEN [pc |-> "preparing", gen |-> rgen + 1]
                     ELSE IF attempt[a].pc \in {"requested", "pending"}
                          THEN [attempt[a] EXCEPT !.pc = "done"]
                          ELSE attempt[a]]
    /\ UNCHANGED <<inbox, task, canceller, open>>

PerformReconnect ==
    /\ effect.kind = "reconnect"
    /\ IF target = None
       THEN UNCHANGED <<attempt, spawned>>
       ELSE /\ spawned' = spawned + 1
            /\ attempt' = [attempt EXCEPT ![spawned + 1] = [pc |-> "starting", gen |-> rgen]]
    /\ UNCHANGED <<shared, task, canceller, open>>

PerformExecute ==
    /\ effect.kind \in {"run", "explain"}
    /\ task' = [task EXCEPT ![effect.job] =
                  [NoTask EXCEPT !.pc = "spawned", !.kind = effect.kind, !.gen = rgen]]
    /\ UNCHANGED <<shared, attempt, spawned, canceller, open>>

PerformCancel ==
    /\ effect.kind = "cancel"
    /\ canceller' = [canceller EXCEPT ![effect.job] =
                       [NoCanceller EXCEPT !.pc = "spawned", !.gen = rgen]]
    /\ UNCHANGED <<shared, attempt, spawned, task, open>>

PerformEffect ==
    /\ ~exited
    /\ PerformConnectProfile \/ PerformReconnect \/ PerformExecute \/ PerformCancel
    /\ effect' = NoEffect
    /\ UNCHANGED <<model, exited>>

-----------------------------------------------------------------------------
(* Connection attempts.  A check of the generation and the send it guards   *)
(* are one step: the envelope carries the generation, so a switch between   *)
(* them changes nothing.  A check before an await is a step of its own.     *)

Current(g) == rgen = g

GoTo(a, pc) == attempt' = [attempt EXCEPT ![a].pc = pc]

\* prepare_profile_target() resolves a profile, or fails before any server is
\* asked; then the target is installed under its lock, rechecking.
PrepareTarget(a) ==
    /\ attempt[a].pc = "preparing"
    /\ \/ /\ Current(attempt[a].gen)
          /\ target' = attempt[a].gen
          /\ GoTo(a, "starting")
          /\ UNCHANGED inbox
       \/ /\ Current(attempt[a].gen)
          /\ Send(<<Envelope("connectFailed", attempt[a].gen, None)>>)
          /\ GoTo(a, "done")
          /\ UNCHANGED target
       \/ /\ ~Current(attempt[a].gen)
          /\ GoTo(a, "done")
          /\ UNCHANGED <<inbox, target>>
    /\ UNCHANGED <<rgen, slot, spawned, task, canceller, open>>

StartAttempt(a) ==
    /\ attempt[a].pc = "starting"
    /\ IF Current(attempt[a].gen)
       THEN Send(<<Envelope("connectingStep", attempt[a].gen, None)>>) /\ GoTo(a, "opening")
       ELSE GoTo(a, "done") /\ UNCHANGED inbox
    /\ UNCHANGED <<rgen, target, slot, spawned, task, canceller, open>>

\* The server lets the session in, and the worker asks the loop to install it.
OpenSession(a) ==
    /\ attempt[a].pc = "opening"
    /\ open' = open \cup {a}
    /\ GoTo(a, IF Current(attempt[a].gen) THEN "requested" ELSE "done")
    /\ UNCHANGED <<shared, spawned, task, canceller>>

\* Fault: a refused connection is not reported.
RefuseSessionSilently(a) ==
    /\ attempt[a].pc = "opening"
    /\ GoTo(a, "done")
    /\ UNCHANGED <<shared, spawned, task, canceller, open>>

RefuseSession(a) ==
    /\ attempt[a].pc = "opening"
    /\ GoTo(a, "done")
    /\ IF Current(attempt[a].gen)
       THEN \E kind \in {"connectFailed", "authFailed"} :
              Send(<<Envelope(kind, attempt[a].gen, None)>>)
       ELSE UNCHANGED inbox
    /\ UNCHANGED <<rgen, target, slot, spawned, task, canceller, open>>

AnnounceSession(a) ==
    /\ attempt[a].pc = "acknowledged"
    /\ GoTo(a, "done")
    /\ IF Current(attempt[a].gen)
       THEN Send(<<Envelope("connected", attempt[a].gen, None)>>)
       ELSE UNCHANGED inbox
    /\ UNCHANGED <<rgen, target, slot, spawned, task, canceller, open>>

AttemptStep(a) ==
    /\ ~exited
    /\ \/ PrepareTarget(a) \/ StartAttempt(a) \/ OpenSession(a) \/ RefuseSession(a)
       \/ AnnounceSession(a)
    /\ UNCHANGED <<model, loop>>

\* The loop admits a request to its pending place, refusing the one it replaces.
AdmitInstall(a) ==
    /\ Quiet /\ attempt[a].pc = "requested"
    /\ attempt' =
         IF attempt[a].gen # rgen \/ gen # rgen
         THEN [attempt EXCEPT ![a].pc = "done"]
         ELSE [b \in Attempt |->
                 IF b = a THEN [attempt[b] EXCEPT !.pc = "pending"]
                 ELSE IF attempt[b].pc = "pending" THEN [attempt[b] EXCEPT !.pc = "done"]
                 ELSE attempt[b]]
    /\ UNCHANGED <<model, loop, shared, spawned, task, canceller, open>>

\* Installation is retried until the slot's lock is free, then acknowledged.
InstallSession(a) ==
    /\ Quiet /\ attempt[a].pc = "pending"
    /\ IF attempt[a].gen # rgen \/ gen # rgen
       THEN GoTo(a, "done") /\ UNCHANGED slot
       ELSE GoTo(a, "acknowledged") /\ slot' = a
    /\ UNCHANGED <<model, loop, rgen, target, inbox, spawned, task, canceller, open>>

-----------------------------------------------------------------------------
(* The worker of a job: spawn_execute and spawn_explain.                   *)

Finish(j, messages) ==
    /\ task' = [task EXCEPT ![j].pc = "done"]
    /\ Send(messages)

\* The first generation check and the read of the session slot.  The check may
\* have passed before a switch whose effects the read then sees.
ReadSlot(j) ==
    /\ task[j].pc = "spawned"
    /\ \/ ~Current(task[j].gen) /\ Finish(j, <<>>)
       \/ /\ slot = None /\ task[j].kind = "run"
          /\ Finish(j, <<>>)
       \/ /\ slot = None /\ task[j].kind = "explain"
          /\ task' = [task EXCEPT ![j].pc = "done", ![j].out = "lost", ![j].txn = "unknown"]
          /\ Send(<<Envelope("planFinished", task[j].gen, j)>>)
       \/ /\ slot # None
          /\ task' = [task EXCEPT ![j].pc = "ready", ![j].sess = slot]
          /\ UNCHANGED inbox
    /\ UNCHANGED open

\* The second check, which a plan does not make, and the call that waits for the
\* session's user-SQL gate.
EnterSession(j) ==
    /\ task[j].pc = "ready"
    /\ LET goesOn == Current(task[j].gen) \/ task[j].kind = "explain"
       IN task' = [task EXCEPT ![j].pc = IF goesOn THEN "waiting" ELSE "done"]
    /\ UNCHANGED <<inbox, open>>

HoldsGate(k, s) == task[k].sess = s /\ task[k].pc \in {"executing", "probing"}

TakeGate(j) ==
    /\ task[j].pc = "waiting"
    /\ \A k \in Job : ~HoldsGate(k, task[j].sess)
    /\ task' = [task EXCEPT ![j].pc = "executing"]
    /\ UNCHANGED <<inbox, open>>

\* The server answers, or its connection is gone and the outcome is unknown.
EndStatement(j) ==
    /\ task[j].pc = "executing"
    /\ IF task[j].sess \in open
       THEN \E out \in {"succeeded", "failed"} :
              task' = [task EXCEPT ![j].pc = "probing", ![j].out = out]
       ELSE task' = [task EXCEPT ![j].pc = "answered", ![j].out = "lost", ![j].txn = "unknown"]
    /\ UNCHANGED <<inbox, open>>

\* transaction_state() asks the server once more before the gate is released.
ProbeTransaction(j) ==
    /\ task[j].pc = "probing"
    /\ \E t \in TxnStates :
         /\ t = "unknown" <=> task[j].sess \notin open
         /\ t = "failed" => task[j].out # "succeeded"
         /\ task' = [task EXCEPT ![j].pc = "answered", ![j].txn = t]
    /\ UNCHANGED <<inbox, open>>

Answer(j) ==
    /\ task[j].pc = "answered"
    /\ LET current == Current(task[j].gen)
           run     == task[j].kind = "run"
           lost    == Envelope("connectionLost", task[j].gen, None)
           done    == Envelope("executionFinished", task[j].gen, j)
           planned == Envelope("planFinished", task[j].gen, j)
       IN \/ ~current /\ Finish(j, <<>>)
          \/ current /\ ~run /\ Finish(j, <<planned>>)
          \/ current /\ run /\ task[j].out = "lost" /\ Finish(j, <<lost, done>>)
          \/ current /\ run /\ task[j].out # "lost" /\ Finish(j, <<done>>)
    /\ UNCHANGED open

TaskStep(j) ==
    /\ ~exited
    /\ \/ ReadSlot(j) \/ EnterSession(j) \/ TakeGate(j) \/ EndStatement(j)
       \/ ProbeTransaction(j) \/ Answer(j)
    /\ UNCHANGED <<model, loop, rgen, target, slot, attempt, spawned, canceller>>

-----------------------------------------------------------------------------
(* Cancellation travels on a connection of its own and names a session, not *)
(* a statement.  Its delivery report changes nothing modelled here.         *)

CancellerReadSlot(j) ==
    /\ canceller[j].pc = "spawned"
    /\ canceller' =
         IF slot = None THEN [canceller EXCEPT ![j].pc = "done"]
         ELSE [canceller EXCEPT ![j].pc = "ready", ![j].sess = slot]
    /\ UNCHANGED task

CancellerSend(j) ==
    /\ canceller[j].pc = "ready"
    /\ canceller' = [canceller EXCEPT ![j].pc = IF Current(canceller[j].gen) THEN "sent" ELSE "done"]
    /\ UNCHANGED task

\* The request never arrives, arrives when there is nothing to stop, stops the
\* statement the session is running, or stops the transaction probe after it.
CancelArrives(j) ==
    /\ canceller[j].pc = "sent"
    /\ canceller' = [canceller EXCEPT ![j].pc = "done"]
    /\ \/ UNCHANGED task
       \/ \E k \in Job :
            /\ task[k].sess = canceller[j].sess /\ canceller[j].sess \in open
            /\ \/ /\ task[k].pc = "executing"
                  /\ task' = [task EXCEPT ![k].pc = "probing", ![k].out = "cancelled"]
               \/ /\ task[k].pc = "probing"
                  /\ task' = [task EXCEPT ![k].pc = "answered", ![k].txn = "unknown"]

CancelStep(j) ==
    /\ ~exited
    /\ CancellerReadSlot(j) \/ CancellerSend(j) \/ CancelArrives(j)
    /\ UNCHANGED <<model, loop, shared, attempt, spawned, open>>

\* The network or the server ends a session at any moment.
SessionDies ==
    /\ ~exited
    /\ \E s \in open : open' = open \ {s}
    /\ UNCHANGED <<model, loop, shared, attempt, spawned, task, canceller>>

-----------------------------------------------------------------------------
Ended == exited /\ UNCHANGED vars

Next ==
    \/ Ended
    \/ UserAction \/ Quit \/ ReduceMessage \/ PerformEffect \/ SessionDies
    \/ \E a \in Attempt : AttemptStep(a) \/ AdmitInstall(a) \/ InstallSession(a)
    \/ \E j \in Job : TaskStep(j) \/ CancelStep(j)

Spec == Init /\ [][Next]_vars

\* The loop keeps turning, the runtime keeps polling its workers, and a server
\* asked something answers or goes away (the TCP connection is torn down).
\* Nothing is assumed of the person, of cancellation or of sessions dying.
Fairness ==
    /\ WF_vars(ReduceMessage) /\ WF_vars(PerformEffect)
    /\ \A a \in Attempt :
         WF_vars(AttemptStep(a)) /\ WF_vars(AdmitInstall(a)) /\ WF_vars(InstallSession(a))
    /\ \A j \in Job : WF_vars(TaskStep(j))

FairSpec == Spec /\ Fairness
-----------------------------------------------------------------------------
(* Type invariant.                                                         *)

TypeOK ==
    /\ gen \in Generation /\ rgen \in Generation
    /\ conn \in {"disconnected", "connecting", "connected", "lost", "failed"}
    /\ phase \in Phases
    /\ issued \in 0 .. MaxJob
    /\ plan \in Job \cup {None} /\ sqlOf \in Job \cup {None}
    /\ review \in SUBSET Owners /\ prompt \in BOOLEAN
    /\ txn \in TxnStates
    /\ last \in Job \cup {None} /\ lastSql \in Job \cup {None}
    /\ recorded \in SUBSET [sql : Job, out : Outcomes]
    /\ effect \in Effects /\ exited \in BOOLEAN
    /\ target \in Generation \cup {None} /\ slot \in Attempt \cup {None}
    /\ inbox \in Seq(Messages)
    /\ attempt \in [Attempt -> Attempts]
    /\ spawned \in 0 .. MaxAttempt
    /\ task \in [Job -> Tasks] /\ canceller \in [Job -> Cancellers]
    /\ open \in SUBSET Attempt

-----------------------------------------------------------------------------
(* Safety.                                                                 *)

\* The result on screen was produced by a statement sent in this connection
\* generation, on the session that is still the installed one: a switch never
\* leaves, and a late worker never restores, rows of another server.
ResultOfThisConnection ==
    last # None => task[last].gen = gen /\ task[last].sess = slot

\* While the status bar offers to run statements there is an installed session
\* of this generation.  spawn_execute gives no answer at all when it finds the
\* slot empty, so without this a statement could leave the client busy for good.
ConnectedHasSession ==
    conn = "connected" => slot # None /\ attempt[slot].gen = gen

\* The job the status bar calls running still has an answer coming in this
\* generation: its effect is unperformed, its worker is alive, or its answer is
\* queued.  The early returns of the workers never orphan it.
BusyJobIsAttended ==
    Busy =>
      \/ effect.kind \in {"run", "explain"} /\ effect.job = phase.job
      \/ /\ task[phase.job].pc \notin {"none", "done"}
         /\ task[phase.job].gen = gen
      \/ \E i \in 1 .. Len(inbox) :
           /\ inbox[i].gen = gen /\ inbox[i].job = phase.job
           /\ inbox[i].kind = "planFinished" => plan = phase.job

\* Two statements never meet at a session's gate: the reducer's one foreground
\* job, the generation and the early clearing of a lost connection together
\* keep a new statement from queueing behind an old one.
GateUncontended ==
    \A j, k \in Job :
        task[j].pc = "waiting" /\ j # k => ~HoldsGate(k, task[j].sess)

\* A password prompt is only ever open while the target to retry with is held:
\* the loop ignores a reconnect without one, and the client would say it is
\* connecting for ever.
PromptCanRetry == prompt => target = gen

\* History never credits one statement's SQL with another's outcome, and records
\* only statements whose worker really ended that way.
HistoryIsTruthful ==
    \A r \in recorded : task[r.sql].pc = "done" /\ task[r.sql].out = r.out

\* At most one review that can send work is open, and only while the connection
\* is one that could send it.
OneReviewOwner ==
    /\ Cardinality(review) <= 1
    /\ review # {} => Usable /\ ~Busy

\* A result replaces the one on screen only as the answer to the job in flight,
\* which ends with it; otherwise only a switch touches it, by removing it.
ResultsComeFromTheJobInFlight ==
    [][last' # last => \/ last' = None /\ gen' = gen + 1
                       \/ Busy /\ last' = phase.job /\ lastSql' = last' /\ phase' = Idle]_vars

-----------------------------------------------------------------------------
(* Liveness, under FairSpec.                                               *)

\* A connection attempt always comes to an end the person sees, whatever
\* switches, refused installations and password retries happen on the way.
ConnectingSettles == conn = "connecting" ~> (conn # "connecting" \/ exited)

-----------------------------------------------------------------------------
(* The lifecycle implements the promise of Foreground.                     *)

Promise == INSTANCE Foreground WITH
    MaxEpoch <- MaxGeneration, MaxMade <- MaxJob,
    epoch <- gen, made <- issued, cur <- phase.job, shown <- last, ended <- exited

\* Every step of the reducer, the loop and the workers is a step of Foreground or
\* leaves what it shows alone, and a job in flight ends.
KeepsPromise == Promise!FairSpec

-----------------------------------------------------------------------------
(* What the documents say and the code does not do.                        *)

\* docs/architecture/runtime-state.md: job identity protects cancel intent, which
\* only the matching operation accepts.  A statement is stopped only if its own
\* cancellation was requested.
OnlyRequestedJobsAreCancelled ==
    \A j \in Job :
        task[j].out = "cancelled" => canceller[j].pc # "none"

\* docs/architecture/runtime-state.md: a statement in flight when the connection is
\* lost reports an unknown outcome.  Once the answer of a lost statement has been
\* taken, in its own generation, that statement is the one shown.
LostStatementIsReported ==
    \A j \in Job :
        (/\ task[j].pc = "done" /\ task[j].kind = "run" /\ task[j].out = "lost"
         /\ task[j].gen = gen /\ rgen = gen /\ issued = j
         /\ \A i \in 1 .. Len(inbox) : inbox[i].kind \notin {"connectionLost", "executionFinished"})
            => last = j
=============================================================================
