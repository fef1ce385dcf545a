-------------------------- MODULE LifecycleTheorems --------------------------
(***************************************************************************)
(* Lifecycle keeps its promises for any number of generations, jobs and     *)
(* connection attempts: the invariant of LifecycleInvariant is inductive,   *)
(* and what follows from it.                                                *)
(***************************************************************************)
EXTENDS LifecycleInvariant, TLAPS

-----------------------------------------------------------------------------
(* The queue.                                                              *)

\* The queue without its first message.
LEMMA QueueTail ==
    ASSUME NEW S, NEW q \in Seq(S), q # <<>>
    PROVE  /\ Tail(q) \in Seq(S)
           /\ Head(q) \in S /\ Head(q) = q[1]
           /\ Len(q) \in Nat /\ 1 \in 1 .. Len(q)
           /\ \A i \in 1 .. Len(Tail(q)) : i + 1 \in 1 .. Len(q) /\ Tail(q)[i] = q[i + 1]
OBVIOUS

\* The queue with one more message at its end,
LEMMA QueueSend ==
    ASSUME NEW S, NEW q \in Seq(S), NEW m \in S
    PROVE  /\ q \o <<m>> \in Seq(S)
           /\ Len(q) \in Nat /\ Len(q \o <<m>>) = Len(q) + 1
           /\ \A i \in 1 .. Len(q) : (q \o <<m>>)[i] = q[i]
           /\ (q \o <<m>>)[Len(q) + 1] = m
OBVIOUS

\* with two,
LEMMA QueueSendTwo ==
    ASSUME NEW S, NEW q \in Seq(S), NEW m \in S, NEW n \in S
    PROVE  /\ q \o <<m, n>> \in Seq(S)
           /\ Len(q) \in Nat /\ Len(q \o <<m, n>>) = Len(q) + 2
           /\ \A i \in 1 .. Len(q) : (q \o <<m, n>>)[i] = q[i]
           /\ (q \o <<m, n>>)[Len(q) + 1] = m /\ (q \o <<m, n>>)[Len(q) + 2] = n
OBVIOUS

\* and with none.
LEMMA QueueSendNothing ==
    ASSUME NEW S, NEW q \in Seq(S)
    PROVE  q \o <<>> = q
OBVIOUS

-----------------------------------------------------------------------------
(* What a person's action can come to.                                     *)

\* The reviews alone change.
ReviewsChange ==
    /\ review' \in SUBSET Owners
    /\ UNCHANGED <<gen, conn, phase, issued, plan, sqlOf, prompt, txn, last, lastSql,
                   recorded, effect>>

\* A job of this kind is handed out and its effect is to be performed.
Submits(kind) ==
    /\ Usable /\ ~Busy /\ issued < MaxJob
    /\ issued' = issued + 1
    /\ phase' = [state |-> "running", job |-> issued + 1]
    /\ plan' = IF kind = "explain" THEN issued + 1 ELSE None
    /\ sqlOf' = IF kind = "run" THEN issued + 1 ELSE None
    /\ review' \in SUBSET Owners
    /\ effect' = [kind |-> kind, job |-> issued + 1]
    /\ UNCHANGED <<gen, conn, prompt, txn, last, lastSql, recorded>>

\* A statement whose values are given is submitted, or refused and its reviews change,
LEMMA StartWithParametersCases ==
    ASSUME NEW rest \in SUBSET Owners, StartWithParameters(rest)
    PROVE  ReviewsChange \/ Submits("run")
BY DEF StartWithParameters, ReviewsChange, Submits

\* so is a plan,
LEMMA StartPlanCases ==
    ASSUME NEW rest \in SUBSET Owners, StartPlan(rest)
    PROVE  ReviewsChange \/ Submits("explain")
BY DEF StartPlan, ReviewsChange, Submits

\* and so is a statement that may have to ask for its values first.
LEMMA StartCases ==
    ASSUME NEW rest \in SUBSET Owners, Start(rest)
    PROVE  ReviewsChange \/ Submits("run")
<1>1. CASE StartWithParameters(rest)
  BY <1>1, StartWithParametersCases
<1>2. CASE review' \in {rest, rest \cup {"parameter_prompt"}}
           /\ UNCHANGED <<gen, conn, phase, issued, plan, sqlOf, prompt, txn, last, lastSql,
                          recorded, effect>>
  BY <1>2 DEF ReviewsChange, Owners
<1> QED BY <1>1, <1>2 DEF Start

\* Every action of a person, but for the few that concern the connection or
\* cancellation, changes the reviews alone or submits one job.
LEMMA UserActionCases ==
    ASSUME TypeOK, UserAction
    PROVE  \/ ReviewsChange \/ Submits("run") \/ Submits("explain")
           \/ CancelQuery \/ BeginConnection \/ SubmitPassword \/ DismissPassword
<1>0. review \in SUBSET Owners
  BY DEF TypeOK
<1>1. CASE Run
  BY <1>1, StartCases DEF Run
<1>2. CASE HoldForReview
  BY <1>2 DEF HoldForReview, ReviewsChange, Owners
<1>3. CASE BeginPlan
  BY <1>3, StartPlanCases DEF BeginPlan, ReviewsChange, Owners
<1>4. CASE ConfirmRun
  BY <1>0, <1>4, StartCases DEF ConfirmRun
<1>5. CASE AcceptParameters
  BY <1>0, <1>5, StartWithParametersCases DEF AcceptParameters
<1>6. CASE ConfirmPlan
  BY <1>0, <1>6, StartPlanCases DEF ConfirmPlan
<1>7. CASE DismissReview
  BY <1>0, <1>7 DEF DismissReview, ReviewsChange
<1> QED
  BY <1>1, <1>2, <1>3, <1>4, <1>5, <1>6, <1>7 DEF UserAction

-----------------------------------------------------------------------------
(* Type correctness and the jobs.                                          *)

\* The types hold at the start,
LEMMA InitType == Init => TypeOK
<1> SUFFICES ASSUME Init PROVE TypeOK
  OBVIOUS
<1>1. 1 \in Generation /\ (1 \in Attempt) /\ None \notin Job
  BY BoundsAssumption DEF Generation, Attempt, None, Job
<1>2. /\ NoTask \in Tasks /\ NoCanceller \in Cancellers
      /\ NoAttempt \in Attempts /\ [pc |-> "starting", gen |-> 1] \in Attempts
  BY <1>1 DEF Tasks, Cancellers, Attempts, NoTask, NoCanceller, NoAttempt, TaskStates, AttemptStates, CancellerStates,
              Outcomes, TxnStates
<1>3. /\ phase \in Phases /\ effect \in Effects /\ txn \in TxnStates /\ review \in SUBSET Owners
      /\ inbox \in Seq(Messages)
  BY DEF Init, Idle, NoEffect, Phases, Effects, TxnStates
<1>4. /\ task \in [Job -> Tasks]
      /\ canceller \in [Job -> Cancellers]
  BY <1>2 DEF Init
<1>5. attempt \in [Attempt -> Attempts]
  BY <1>2 DEF Init
<1>6. issued \in 0 .. MaxJob /\ spawned \in 0 .. MaxAttempt
  BY BoundsAssumption DEF Init
<1> QED
  BY <1>1, <1>3, <1>4, <1>5, <1>6 DEF Init, TypeOK, None

\* and so does the invariant of the jobs.
LEMMA InitJobInv == Init => JobInv
<1> SUFFICES ASSUME Init PROVE JobInv
  OBVIOUS
<1>1. TypeOK
  BY InitType
<1>2. PhaseNamesItsJob
  BY BoundsAssumption DEF Init, PhaseNamesItsJob, Idle, NoTask, Busy, None
<1>3. GenerationsAgree /\ EffectStartsTheJob /\ JobIsPlanOrRun
  BY DEF Init, GenerationsAgree, EffectStartsTheJob, JobIsPlanOrRun, Idle, NoEffect, Busy
<1>4. AnswersComeFromWorkers /\ HistoryIsTruthful
  BY DEF Init, AnswersComeFromWorkers, HistoryIsTruthful
<1> QED
  BY <1>1, <1>2, <1>3, <1>4 DEF JobInv

\* A job that is submitted is numbered and has no worker yet.
LEMMA SubmitsKeepsJobInv ==
    ASSUME NEW kind \in {"run", "explain"}, JobInv, Quiet, Submits(kind),
           UNCHANGED <<exited, shared, workers>>
    PROVE  JobInv'
<1> USE DEF JobInv, shared, workers
<1>1. issued + 1 \in Job /\ issued + 1 \in 0 .. MaxJob /\ issued \in Nat /\ None \notin Job
  BY BoundsAssumption DEF Submits, TypeOK, Job, None
<1>2. TypeOK'
  BY <1>1 DEF TypeOK, Submits, Phases, Effects
<1>3. PhaseNamesItsJob'
  BY <1>1 DEF TypeOK, Submits, PhaseNamesItsJob, Busy, Job
<1>4. GenerationsAgree' /\ EffectStartsTheJob'
  BY <1>1 DEF Submits, GenerationsAgree, EffectStartsTheJob, PhaseNamesItsJob, Quiet, NoEffect
<1>5. JobIsPlanOrRun'
  BY <1>1 DEF Submits, JobIsPlanOrRun, Begun
<1>6. AnswersComeFromWorkers' /\ HistoryIsTruthful'
  BY DEF Submits, AnswersComeFromWorkers, HistoryIsTruthful
<1> QED
  BY <1>2, <1>3, <1>4, <1>5, <1>6

\* What the person does keeps the invariant of the jobs,
LEMMA UserActionKeepsJobInv ==
    ASSUME JobInv, UserAction
    PROVE  JobInv'
<1> USE DEF JobInv, shared, workers
<1>1. UNCHANGED <<exited, shared, workers>> /\ Quiet /\ effect = NoEffect
  BY DEF UserAction, Quiet
<1>2. CASE ReviewsChange
  <2>1. TypeOK'
    BY <1>1, <1>2 DEF TypeOK, ReviewsChange
  <2> QED
    BY <1>1, <1>2, <2>1 DEF ReviewsChange, PhaseNamesItsJob, GenerationsAgree, EffectStartsTheJob,
       JobIsPlanOrRun, Begun, Busy, AnswersComeFromWorkers, HistoryIsTruthful
<1>3. CASE Submits("run") \/ Submits("explain")
  BY <1>1, <1>3, SubmitsKeepsJobInv
<1>4. CASE CancelQuery
  <2>1. TypeOK'
    BY <1>1, <1>4 DEF TypeOK, CancelQuery, Phases, Effects
  <2>2. phase.job' = phase.job /\ Busy /\ Busy'
    BY <1>4 DEF CancelQuery, Busy, TypeOK, Phases
  <2>3. JobIsPlanOrRun'
    BY <1>1, <1>4, <2>2 DEF JobIsPlanOrRun, Begun, CancelQuery, NoEffect
  <2> QED
    BY <1>1, <1>4, <2>1, <2>2, <2>3 DEF CancelQuery, PhaseNamesItsJob, GenerationsAgree, NoEffect,
       EffectStartsTheJob, AnswersComeFromWorkers, HistoryIsTruthful
<1>5. CASE BeginConnection
  <2>1. gen' \in Generation
    BY <1>5, BoundsAssumption DEF BeginConnection, TypeOK, Generation
  <2>2. TypeOK'
    BY <1>1, <1>5, <2>1 DEF TypeOK, BeginConnection, Phases, Effects, Idle, TxnStates, Owners
  <2> QED
    BY <1>1, <1>5, <2>2 DEF BeginConnection, PhaseNamesItsJob, GenerationsAgree, NoEffect, Idle,
       Busy, None, TypeOK, EffectStartsTheJob, JobIsPlanOrRun, AnswersComeFromWorkers,
       HistoryIsTruthful
<1>6. CASE SubmitPassword
  <2>1. TypeOK'
    BY <1>1, <1>6 DEF TypeOK, SubmitPassword, Effects
  <2>2. JobIsPlanOrRun'
    BY <1>1, <1>6 DEF JobIsPlanOrRun, Begun, SubmitPassword, NoEffect, Busy
  <2> QED
    BY <1>1, <1>6, <2>1, <2>2 DEF SubmitPassword, PhaseNamesItsJob, GenerationsAgree, NoEffect,
       Busy, EffectStartsTheJob, AnswersComeFromWorkers, HistoryIsTruthful
<1>7. CASE DismissPassword
  <2>1. TypeOK'
    BY <1>1, <1>7, ZenonT(60) DEF TypeOK, DismissPassword
  <2> QED
    BY <1>1, <1>7, <2>1 DEF DismissPassword, PhaseNamesItsJob, GenerationsAgree, Busy, Begun,
       EffectStartsTheJob, JobIsPlanOrRun, AnswersComeFromWorkers, HistoryIsTruthful
<1> QED
  BY <1>2, <1>3, <1>4, <1>5, <1>6, <1>7, UserActionCases

\* what the reducer does with a message,
LEMMA ReduceKeepsJobInv ==
    ASSUME JobInv, ReduceMessage
    PROVE  JobInv'
<1> DEFINE m == Head(inbox)
<1> USE DEF JobInv, workers, loop
<1>1. /\ Quiet /\ effect = NoEffect /\ inbox # <<>> /\ inbox' = Tail(inbox)
      /\ UNCHANGED <<loop, rgen, target, slot, workers>>
  BY DEF ReduceMessage, Quiet
<1>2. /\ inbox \in Seq(Messages) /\ inbox' \in Seq(Messages)
      /\ m \in Messages /\ m = inbox[1] /\ 1 \in 1 .. Len(inbox)
      /\ \A i \in 1 .. Len(inbox') : i + 1 \in 1 .. Len(inbox) /\ inbox'[i] = inbox[i + 1]
  <2>1. inbox \in Seq(Messages)
    BY DEF TypeOK
  <2> QED
    BY <1>1, <2>1, QueueTail
<1>3. AnswersComeFromWorkers'
  BY <1>1, <1>2 DEF AnswersComeFromWorkers
<1>4. EffectStartsTheJob'
  BY <1>1 DEF EffectStartsTheJob, NoEffect
<1>5. CASE m.kind = "executionFinished" /\ HandleExecutionFinished(m.job)
  <2>1. CASE ~(Busy /\ phase.job = m.job)
    BY <1>1, <1>2, <1>3, <1>4, <1>5, <2>1
       DEF HandleExecutionFinished, model, TypeOK, PhaseNamesItsJob, GenerationsAgree, Busy, Begun,
           JobIsPlanOrRun, HistoryIsTruthful
  <2>2. CASE Busy /\ phase.job = m.job
    <3>1. m.job \in Job /\ task[m.job].pc = "done" /\ task[m.job].kind = "run"
      BY <1>2, <1>5 DEF AnswersComeFromWorkers
    <3>2. task[m.job].out \in Outcomes /\ task[m.job].txn \in TxnStates
      BY <3>1 DEF TypeOK, Tasks
    <3>3. sqlOf = m.job
      BY <1>1, <2>2, <3>1 DEF JobIsPlanOrRun, Begun, NoEffect
    <3>4. TypeOK'
      BY <1>1, <1>2, <1>5, <2>2, <3>1, <3>2, <3>3
         DEF HandleExecutionFinished, TypeOK, Idle, Phases, LoseConnection, HistoryOutcome, Outcomes
    <3>5. HistoryIsTruthful'
      BY <1>1, <1>5, <2>2, <3>1, <3>3
         DEF HandleExecutionFinished, HistoryIsTruthful, HistoryOutcome
    <3> QED
      BY <1>1, <1>3, <1>4, <1>5, <2>2, <3>4, <3>5
         DEF HandleExecutionFinished, PhaseNamesItsJob, GenerationsAgree, Busy, JobIsPlanOrRun,
             Idle, None, TypeOK
  <2> QED
    BY <2>1, <2>2
<1>6. CASE m.kind = "planFinished" /\ HandlePlanFinished(m.job)
  <2>1. CASE ~(Busy /\ phase.job = m.job /\ plan = m.job)
    BY <1>1, <1>2, <1>3, <1>4, <1>6, <2>1
       DEF HandlePlanFinished, model, TypeOK, PhaseNamesItsJob, GenerationsAgree, Busy, Begun,
           JobIsPlanOrRun, HistoryIsTruthful
  <2>2. CASE Busy /\ phase.job = m.job /\ plan = m.job
    <3>1. task[m.job].txn \in TxnStates
      BY <1>2, <1>6 DEF TypeOK, Tasks, AnswersComeFromWorkers
    <3>2. TypeOK'
      BY <1>1, <1>2, <1>6, <2>2, <3>1
         DEF HandlePlanFinished, TypeOK, Idle, Phases, LoseConnection
    <3> QED
      BY <1>1, <1>3, <1>4, <1>6, <2>2, <3>2
         DEF HandlePlanFinished, PhaseNamesItsJob, GenerationsAgree, Busy, JobIsPlanOrRun,
             Idle, None, TypeOK, HistoryIsTruthful
  <2> QED
    BY <2>1, <2>2
<1>7. CASE HandleConnectionLost
  <2>1. TypeOK'
    BY <1>1, <1>2, <1>7 DEF HandleConnectionLost, TypeOK, Idle, Phases, LoseConnection, TxnStates
  <2> QED
    BY <1>1, <1>3, <1>4, <1>7, <2>1
       DEF HandleConnectionLost, PhaseNamesItsJob, GenerationsAgree, Busy, JobIsPlanOrRun, Idle,
           None, TypeOK, HistoryIsTruthful
<1>8. CASE HandleConnectionFailed(m.kind)
  <2>1. TypeOK'
    BY <1>1, <1>2, <1>8 DEF HandleConnectionFailed, TypeOK, Idle, Phases
  <2> QED
    BY <1>1, <1>3, <1>4, <1>8, <2>1
       DEF HandleConnectionFailed, PhaseNamesItsJob, GenerationsAgree, Busy, JobIsPlanOrRun, Idle,
           None, TypeOK, HistoryIsTruthful
<1>9. CASE HandleConnectingStep \/ HandleConnected \/ UNCHANGED model
  <2>1. TypeOK'
    BY <1>1, <1>2, <1>9 DEF HandleConnectingStep, HandleConnected, model, TypeOK
  <2> QED
    BY <1>1, <1>3, <1>4, <1>9, <2>1
       DEF HandleConnectingStep, HandleConnected, model, PhaseNamesItsJob, GenerationsAgree, Busy,
           JobIsPlanOrRun, Begun, HistoryIsTruthful
<1>10. \/ m.kind = "executionFinished" /\ HandleExecutionFinished(m.job)
       \/ m.kind = "planFinished" /\ HandlePlanFinished(m.job)
       \/ HandleConnectionLost \/ HandleConnectionFailed(m.kind)
       \/ HandleConnectingStep \/ HandleConnected \/ UNCHANGED model
  <2>1. Handle(m) \/ UNCHANGED model
    BY DEF ReduceMessage
  <2>2. m.kind \in {"connectingStep", "connected", "connectFailed", "authFailed",
                    "connectionLost", "executionFinished", "planFinished"}
    BY <1>2 DEF Messages
  <2> QED
    BY <2>1, <2>2 DEF Handle
<1> QED
  BY <1>5, <1>6, <1>7, <1>8, <1>9, <1>10

\* what the loop does for an effect,
LEMMA PerformKeepsJobInv ==
    ASSUME JobInv, PerformEffect
    PROVE  JobInv'
<1> USE DEF JobInv, model, shared
<1>1. effect' = NoEffect /\ UNCHANGED <<model, exited>>
  BY DEF PerformEffect
<1>2. CASE PerformConnectProfile
  <2>1. rgen + 1 \in Generation /\ spawned + 1 \in Attempt /\ spawned + 1 \in 0 .. MaxAttempt
    BY <1>2, BoundsAssumption
       DEF PerformConnectProfile, GenerationsAgree, TypeOK, Generation, Attempt
  <2>2. TypeOK'
    BY <1>1, <1>2, <2>1 DEF PerformConnectProfile, TypeOK, NoEffect, Effects, Attempts, AttemptStates
  <2> QED
    BY <1>1, <1>2, <2>2 DEF PerformConnectProfile, PhaseNamesItsJob, GenerationsAgree, NoEffect,
       EffectStartsTheJob, JobIsPlanOrRun, Begun, Busy, AnswersComeFromWorkers, HistoryIsTruthful
<1>3. CASE PerformReconnect
  <2>1. spawned + 1 \in 0 .. MaxAttempt
    BY <1>3, BoundsAssumption DEF PerformReconnect, GenerationsAgree, TypeOK
  <2>2. TypeOK'
    BY <1>1, <1>3, <2>1 DEF PerformReconnect, TypeOK, NoEffect, Effects, Attempts, AttemptStates
  <2> QED
    BY <1>1, <1>3, <2>2 DEF PerformReconnect, PhaseNamesItsJob, GenerationsAgree, NoEffect,
       EffectStartsTheJob, JobIsPlanOrRun, Begun, Busy, AnswersComeFromWorkers, HistoryIsTruthful
<1>4. CASE PerformExecute
  <2>1. effect.job \in Job /\ phase.job = effect.job /\ task[effect.job].pc = "none"
    BY <1>4 DEF PerformExecute, EffectStartsTheJob
  <2>2. TypeOK'
    <3>1. [NoTask EXCEPT !.pc = "spawned", !.kind = effect.kind, !.gen = rgen]
          \in Tasks
      BY <1>4 DEF PerformExecute, TypeOK, Tasks, NoTask, TaskStates, TxnStates, Outcomes
    <3>2. NoEffect \in Effects
      BY DEF NoEffect, Effects
    <3> QED
      BY <1>1, <1>4, <3>1, <3>2, ZenonT(60) DEF PerformExecute, TypeOK
  <2>3. \A j \in Job : j # effect.job => task'[j] = task[j]
    BY <1>4 DEF PerformExecute, TypeOK
  <2>4. task'[effect.job].pc = "spawned" /\ task'[effect.job].kind = effect.kind
    BY <1>4, <2>1 DEF PerformExecute, TypeOK, NoTask
  <2>5. PhaseNamesItsJob'
    BY <1>1, <2>1, <2>3 DEF PhaseNamesItsJob, Busy, TypeOK, Job
  <2>6. JobIsPlanOrRun'
    BY <1>1, <1>4, <2>1, <2>4 DEF PerformExecute, JobIsPlanOrRun, Begun, Busy
  <2>7. AnswersComeFromWorkers'
    BY <1>4, <2>1, <2>3 DEF PerformExecute, AnswersComeFromWorkers
  <2>8. HistoryIsTruthful'
    BY <1>1, <2>1, <2>3 DEF HistoryIsTruthful, TypeOK
  <2> QED
    BY <1>1, <1>4, <2>2, <2>5, <2>6, <2>7, <2>8
       DEF PerformExecute, GenerationsAgree, NoEffect, EffectStartsTheJob
<1>5. CASE PerformCancel
  <2>1. TypeOK'
    <3>1. [NoCanceller EXCEPT !.pc = "spawned", !.gen = rgen]
          \in Cancellers
      BY DEF TypeOK, Cancellers, NoCanceller, CancellerStates
    <3>2. NoEffect \in Effects
      BY DEF NoEffect, Effects
    <3> QED
      BY <1>1, <1>5, <3>1, <3>2, ZenonT(60) DEF PerformCancel, TypeOK
  <2> QED
    BY <1>1, <1>5, <2>1 DEF PerformCancel, PhaseNamesItsJob, GenerationsAgree, NoEffect,
       EffectStartsTheJob, JobIsPlanOrRun, Begun, Busy, AnswersComeFromWorkers, HistoryIsTruthful
<1> QED
  BY <1>2, <1>3, <1>4, <1>5 DEF PerformEffect

\* A worker's answer, of a kind that names no job, joins the queue.
LEMMA SendKeepsAnswers ==
    ASSUME JobInv, NEW kind, NEW g, Send(<<Envelope(kind, g, None)>>),
           kind \in {"connectingStep", "connected", "connectFailed", "authFailed",
                     "connectionLost"},
           g \in Generation, UNCHANGED task
    PROVE  inbox' \in Seq(Messages) /\ AnswersComeFromWorkers'
<1> DEFINE e == Envelope(kind, g, None)
<1>1. e \in Messages /\ e.kind = kind /\ inbox \in Seq(Messages)
  BY DEF Messages, Envelope, JobInv, TypeOK
<1>2. /\ inbox' \in Seq(Messages) /\ Len(inbox) \in Nat /\ Len(inbox') = Len(inbox) + 1
      /\ \A i \in 1 .. Len(inbox) : inbox'[i] = inbox[i]
      /\ inbox'[Len(inbox) + 1] = e
  <2> HIDE DEF e
  <2> QED BY <1>1, QueueSend DEF Send, e
<1>3. \A i \in 1 .. Len(inbox') : i \in 1 .. Len(inbox) \/ inbox'[i] = e
  BY <1>2
<1> QED
  BY <1>1, <1>2, <1>3 DEF JobInv, AnswersComeFromWorkers

\* An attempt goes to another state, and the others stay.
LEMMA GoToFacts ==
    ASSUME TypeOK, NEW a \in Attempt, NEW pc \in AttemptStates, GoTo(a, pc)
    PROVE  /\ attempt' \in [Attempt -> Attempts]
           /\ attempt'[a].pc = pc /\ attempt'[a].gen = attempt[a].gen
           /\ \A b \in Attempt : b # a => attempt'[b] = attempt[b]
BY DEF TypeOK, GoTo, Attempts

\* a step of a connection attempt,
LEMMA AttemptKeepsJobInv ==
    ASSUME JobInv, NEW a \in Attempt, AttemptStep(a) \/ AdmitInstall(a) \/ InstallSession(a)
    PROVE  JobInv'
<1> USE DEF JobInv, model, loop, shared
<1>1. /\ UNCHANGED <<model, loop, rgen, spawned, task, canceller>>
      /\ attempt[a].gen \in Generation
  <2>1. attempt[a].gen \in Generation
    BY DEF TypeOK, Attempts
  <2>2. CASE AdmitInstall(a)
    BY <2>1, <2>2 DEF AdmitInstall
  <2>3. CASE InstallSession(a)
    BY <2>1, <2>3 DEF InstallSession
  <2>4. CASE AttemptStep(a)
    BY <2>1, <2>4
       DEF AttemptStep, PrepareTarget, StartAttempt, OpenSession, RefuseSession, AnnounceSession
  <2> QED
    BY <2>2, <2>3, <2>4
<1>2. /\ attempt' \in [Attempt -> Attempts]
      /\ open' \in SUBSET Attempt
      /\ target' \in Generation \cup {None} /\ slot' \in Attempt \cup {None}
  <2>1. CASE AdmitInstall(a)
    BY <2>1 DEF AdmitInstall, TypeOK, Attempts, AttemptStates
  <2>2. CASE InstallSession(a)
    <3>1. \E pc \in AttemptStates : GoTo(a, pc)
      BY <2>2 DEF InstallSession, AttemptStates
    <3>2. attempt' \in [Attempt -> Attempts]
      BY <3>1, GoToFacts
    <3> QED
      BY <2>2, <3>2 DEF InstallSession, TypeOK
  <2>3. CASE AttemptStep(a)
    <3>1. \E pc \in AttemptStates : GoTo(a, pc)
      BY <2>3 DEF AttemptStep, PrepareTarget, StartAttempt, OpenSession, RefuseSession,
                  AnnounceSession, AttemptStates
    <3>2. attempt' \in [Attempt -> Attempts]
      BY <3>1, GoToFacts
    <3>3. target' \in {target, attempt[a].gen} /\ slot' = slot /\ open' \in {open, open \cup {a}}
      BY <2>3 DEF AttemptStep, PrepareTarget, StartAttempt, OpenSession, RefuseSession,
                  AnnounceSession
    <3> QED
      BY <1>1, <3>2, <3>3 DEF TypeOK
  <2> QED
    BY <2>1, <2>2, <2>3
<1>3. \/ UNCHANGED inbox
      \/ \E kind \in {"connectingStep", "connected", "connectFailed", "authFailed"} :
           Send(<<Envelope(kind, attempt[a].gen, None)>>)
  BY DEF AdmitInstall, InstallSession, AttemptStep, PrepareTarget, StartAttempt, OpenSession,
         RefuseSession, AnnounceSession
<1>4. inbox' \in Seq(Messages) /\ AnswersComeFromWorkers'
  <2>1. CASE UNCHANGED inbox
    BY <1>1, <2>1 DEF TypeOK, AnswersComeFromWorkers
  <2>2. ASSUME NEW kind \in {"connectingStep", "connected", "connectFailed", "authFailed"},
               Send(<<Envelope(kind, attempt[a].gen, None)>>)
        PROVE  inbox' \in Seq(Messages) /\ AnswersComeFromWorkers'
    BY <1>1, <2>2, SendKeepsAnswers
  <2> QED
    BY <1>3, <2>1, <2>2
<1>5. TypeOK'
  BY <1>1, <1>2, <1>4 DEF TypeOK
<1> QED
  BY <1>1, <1>4, <1>5 DEF PhaseNamesItsJob, GenerationsAgree, Busy, EffectStartsTheJob,
     JobIsPlanOrRun, Begun, HistoryIsTruthful

\* What any step of a job's worker does to the worker: it has begun, it is not done,
\* and it stays the worker of the same kind and generation.
WorkerMoves(j) ==
    /\ task' \in [Job -> Tasks]
    /\ task[j].pc \notin {"none", "done"} /\ task'[j].pc # "none"
    /\ task'[j].kind = task[j].kind /\ task'[j].gen = task[j].gen
    /\ \A k \in Job : k # j => task'[k] = task[k]

\* A step of a worker, and what it sends.
LEMMA TaskStepCases ==
    ASSUME TypeOK, NEW j \in Job, TaskStep(j)
    PROVE  /\ WorkerMoves(j)
           /\ UNCHANGED <<model, loop, rgen, target, slot, attempt, spawned, canceller, open>>
           /\ \/ UNCHANGED inbox
              \/ /\ task'[j].pc = "done"
                 /\ \/ /\ task[j].kind = "explain"
                       /\ Send(<<Envelope("planFinished", task[j].gen, j)>>)
                    \/ /\ task[j].kind = "run"
                       /\ \/ Send(<<Envelope("executionFinished", task[j].gen, j)>>)
                          \/ Send(<<Envelope("connectionLost", task[j].gen, None),
                                    Envelope("executionFinished", task[j].gen, j)>>)
<1>0. /\ task \in [Job -> Tasks] /\ task[j] \in Tasks
      /\ inbox \in Seq(Messages) /\ slot \in Attempt \cup {None}
  BY DEF TypeOK
<1>1. UNCHANGED <<model, loop, rgen, target, slot, attempt, spawned, canceller, open>>
  BY DEF TaskStep, ReadSlot, EnterSession, TakeGate, EndStatement, ProbeTransaction, Answer
<1>2. CASE ReadSlot(j)
  <2>1. WorkerMoves(j)
    <3> USE <1>0 DEF Finish, WorkerMoves, Tasks, TaskStates, Outcomes, TxnStates
    <3>1. CASE task' = [task EXCEPT ![j].pc = "done"]
      BY <1>2, <3>1 DEF ReadSlot
    <3>2. CASE task' = [task EXCEPT ![j].pc = "done", ![j].out = "lost", ![j].txn = "unknown"]
      BY <1>2, <3>2 DEF ReadSlot
    <3>3. CASE task' = [task EXCEPT ![j].pc = "ready", ![j].sess = slot]
      BY <1>2, <3>3 DEF ReadSlot
    <3> QED
      BY <1>2, <3>1, <3>2, <3>3 DEF ReadSlot
  <2>2. UNCHANGED inbox \/ /\ task'[j].pc = "done" /\ task[j].kind = "explain"
                           /\ Send(<<Envelope("planFinished", task[j].gen, j)>>)
    BY <1>0, <1>2, QueueSendNothing DEF ReadSlot, Finish, Send, Tasks
  <2> QED
    BY <1>1, <2>1, <2>2
<1>3. CASE EnterSession(j)
  BY <1>0, <1>1, <1>3 DEF EnterSession, WorkerMoves, Tasks, TaskStates
<1>4. CASE TakeGate(j)
  BY <1>0, <1>1, <1>4 DEF TakeGate, WorkerMoves, Tasks, TaskStates
<1>5. CASE EndStatement(j)
  <2>1. CASE task[j].sess \in open
    <3>1. PICK out \in {"succeeded", "failed"} :
            task' = [task EXCEPT ![j].pc = "probing", ![j].out = out]
      BY <1>5, <2>1 DEF EndStatement
    <3> QED
      BY <1>0, <1>1, <1>5, <3>1 DEF EndStatement, WorkerMoves, Tasks, TaskStates, Outcomes
  <2>2. CASE task[j].sess \notin open
    <3>1. task' = [task EXCEPT ![j].pc = "answered", ![j].out = "lost", ![j].txn = "unknown"]
      BY <1>5, <2>2 DEF EndStatement
    <3> QED
      BY <1>0, <1>1, <1>5, <3>1 DEF EndStatement, WorkerMoves, Tasks, TaskStates, Outcomes, TxnStates
  <2> QED
    BY <2>1, <2>2
<1>6. CASE ProbeTransaction(j)
  <2>1. PICK t \in TxnStates : task' = [task EXCEPT ![j].pc = "answered", ![j].txn = t]
    BY <1>6 DEF ProbeTransaction
  <2> QED
    BY <1>0, <1>1, <1>6, <2>1 DEF ProbeTransaction, WorkerMoves, Tasks, TaskStates
<1>7. CASE Answer(j)
  <2>1. WorkerMoves(j) /\ task'[j].pc = "done"
    BY <1>0, <1>7 DEF Answer, Finish, WorkerMoves, Tasks, TaskStates
  <2>2. task[j].kind \in {"run", "explain"}
    BY <1>0 DEF Tasks
  <2>3. CASE Send(<<>>)
    BY <1>0, <1>1, <2>1, <2>3, QueueSendNothing DEF Send
  <2>4. CASE ~Send(<<>>)
    BY <1>1, <1>7, <2>1, <2>2, <2>4 DEF Answer, Finish
  <2> QED
    BY <2>3, <2>4
<1> QED
  BY <1>2, <1>3, <1>4, <1>5, <1>6, <1>7 DEF TaskStep

\* While a worker moves, every part of the invariant that is not about the queue holds.
LEMMA WorkerMovesKeepsJobs ==
    ASSUME JobInv, NEW j \in Job, WorkerMoves(j), UNCHANGED <<model, loop, rgen, spawned>>
    PROVE  /\ PhaseNamesItsJob' /\ GenerationsAgree' /\ EffectStartsTheJob' /\ JobIsPlanOrRun'
           /\ HistoryIsTruthful'
           /\ \A k \in Job : task[k].pc = "done" =>
                task'[k].pc = "done" /\ task'[k].kind = task[k].kind
<1> USE DEF JobInv, model, loop
<1>1. /\ task[j].pc \notin {"none", "done"} /\ task'[j].pc # "none"
      /\ task'[j].kind = task[j].kind
      /\ \A k \in Job : k # j => task'[k] = task[k]
  BY DEF WorkerMoves
<1>2. PhaseNamesItsJob' /\ GenerationsAgree'
  BY <1>1 DEF PhaseNamesItsJob, Busy, GenerationsAgree
<1>3. EffectStartsTheJob'
  BY <1>1 DEF EffectStartsTheJob
<1>4. JobIsPlanOrRun'
  <2>1. Busy => phase.job \in Job
    BY DEF PhaseNamesItsJob, TypeOK, Phases
  <2> QED
    BY <1>1, <2>1 DEF JobIsPlanOrRun, Begun, Busy
<1>5. HistoryIsTruthful'
  BY <1>1 DEF HistoryIsTruthful, TypeOK
<1> QED
  BY <1>1, <1>2, <1>3, <1>4, <1>5

\* a step of a worker,
LEMMA TaskStepKeepsJobInv ==
    ASSUME JobInv, NEW j \in Job, TaskStep(j)
    PROVE  JobInv'
<1> DEFINE plan1 == Envelope("planFinished", task[j].gen, j)
           done1 == Envelope("executionFinished", task[j].gen, j)
           lost1 == Envelope("connectionLost", task[j].gen, None)
<1>1. TypeOK
  BY DEF JobInv
<1>2. /\ WorkerMoves(j)
      /\ UNCHANGED <<model, loop, rgen, target, slot, attempt, spawned, canceller, open>>
      /\ \/ UNCHANGED inbox
         \/ /\ task'[j].pc = "done"
            /\ \/ task[j].kind = "explain" /\ Send(<<plan1>>)
               \/ task[j].kind = "run" /\ (Send(<<done1>>) \/ Send(<<lost1, done1>>))
  BY <1>1, TaskStepCases
<1>3. /\ PhaseNamesItsJob' /\ GenerationsAgree' /\ EffectStartsTheJob' /\ JobIsPlanOrRun'
      /\ HistoryIsTruthful'
      /\ \A k \in Job : task[k].pc = "done" =>
           task'[k].pc = "done" /\ task'[k].kind = task[k].kind
  BY <1>2, WorkerMovesKeepsJobs DEF model, loop
<1>4. /\ task' \in [Job -> Tasks]
      /\ task'[j].kind = task[j].kind
  BY <1>2 DEF WorkerMoves
<1>5. /\ inbox \in Seq(Messages)
      /\ plan1 \in Messages /\ done1 \in Messages /\ lost1 \in Messages
      /\ plan1.kind = "planFinished" /\ done1.kind = "executionFinished"
      /\ lost1.kind = "connectionLost" /\ plan1.job = j /\ done1.job = j
  BY <1>1 DEF TypeOK, Tasks, Messages, Envelope
<1>6. inbox' \in Seq(Messages) /\ AnswersComeFromWorkers'
  <2> HIDE DEF plan1, done1, lost1
  <2>0. AnswersComeFromWorkers
    BY DEF JobInv
  <2>1. CASE UNCHANGED inbox
    BY <1>3, <1>5, <2>0, <2>1 DEF AnswersComeFromWorkers
  <2>2. ASSUME NEW e \in {plan1, done1}, Send(<<e>>), task'[j].pc = "done",
               e = plan1 => task[j].kind = "explain", e = done1 => task[j].kind = "run"
        PROVE  inbox' \in Seq(Messages) /\ AnswersComeFromWorkers'
    <3>1. /\ inbox' \in Seq(Messages) /\ Len(inbox) \in Nat /\ Len(inbox') = Len(inbox) + 1
          /\ \A i \in 1 .. Len(inbox) : inbox'[i] = inbox[i]
          /\ inbox'[Len(inbox) + 1] = e
      BY <1>5, <2>2, QueueSend DEF Send
    <3>2. \A i \in 1 .. Len(inbox') : i \in 1 .. Len(inbox) \/ inbox'[i] = e
      BY <3>1
    <3> QED
      BY <1>3, <1>4, <1>5, <2>0, <2>2, <3>1, <3>2 DEF AnswersComeFromWorkers
  <2>3. ASSUME Send(<<lost1, done1>>), task'[j].pc = "done", task[j].kind = "run"
        PROVE  inbox' \in Seq(Messages) /\ AnswersComeFromWorkers'
    <3>1. /\ inbox' \in Seq(Messages) /\ Len(inbox) \in Nat /\ Len(inbox') = Len(inbox) + 2
          /\ \A i \in 1 .. Len(inbox) : inbox'[i] = inbox[i]
          /\ inbox'[Len(inbox) + 1] = lost1 /\ inbox'[Len(inbox) + 2] = done1
      BY <1>5, <2>3, QueueSendTwo DEF Send
    <3>2. \A i \in 1 .. Len(inbox') : i \in 1 .. Len(inbox) \/ inbox'[i] \in {lost1, done1}
      BY <3>1
    <3> QED
      BY <1>3, <1>4, <1>5, <2>0, <2>3, <3>1, <3>2 DEF AnswersComeFromWorkers
  <2> QED
    BY <1>2, <1>5, <2>1, <2>2, <2>3
<1>7. TypeOK'
  BY <1>1, <1>2, <1>4, <1>6 DEF TypeOK, model, loop
<1> QED
  BY <1>3, <1>6, <1>7 DEF JobInv

\* a step of a cancellation,
LEMMA CancelStepKeepsJobInv ==
    ASSUME JobInv, NEW j \in Job, CancelStep(j)
    PROVE  JobInv'
<1>1. TypeOK /\ UNCHANGED <<model, loop, shared, attempt, spawned, open>>
  BY DEF JobInv, CancelStep
<1>2. canceller' \in [Job -> Cancellers]
  <2>1. CASE CancellerReadSlot(j)
    BY <1>1, <2>1, ZenonT(60) DEF CancellerReadSlot, TypeOK, Cancellers, CancellerStates
  <2>2. CASE CancellerSend(j)
    <3>1. PICK pc \in {"sent", "done"} : canceller' = [canceller EXCEPT ![j].pc = pc]
      BY <2>2 DEF CancellerSend
    <3> QED
      BY <1>1, <3>1 DEF TypeOK, Cancellers, CancellerStates
  <2>3. CASE CancelArrives(j)
    <3>1. canceller' = [canceller EXCEPT ![j].pc = "done"]
      BY <2>3 DEF CancelArrives
    <3> QED
      BY <1>1, <3>1 DEF TypeOK, Cancellers, CancellerStates
  <2> QED
    BY <2>1, <2>2, <2>3 DEF CancelStep
<1>3. UNCHANGED task \/ \E k \in Job : WorkerMoves(k)
  <2>1. SUFFICES ASSUME CancelArrives(j), task' # task
                 PROVE  \E k \in Job : WorkerMoves(k)
    BY DEF CancelStep, CancellerReadSlot, CancellerSend
  <2>2. PICK k \in Job :
          \/ /\ task[k].pc = "executing"
             /\ task' = [task EXCEPT ![k].pc = "probing", ![k].out = "cancelled"]
          \/ /\ task[k].pc = "probing"
             /\ task' = [task EXCEPT ![k].pc = "answered", ![k].txn = "unknown"]
    BY <2>1 DEF CancelArrives
  <2>3. WorkerMoves(k)
    BY <1>1, <2>2 DEF WorkerMoves, TypeOK, Tasks, TaskStates, Outcomes, TxnStates
  <2> QED
    BY <2>3
<1>4. CASE UNCHANGED task
  BY <1>1, <1>2, <1>4 DEF JobInv, TypeOK, model, loop, shared, PhaseNamesItsJob, Busy,
     GenerationsAgree, EffectStartsTheJob, JobIsPlanOrRun, Begun, AnswersComeFromWorkers,
     HistoryIsTruthful
<1>5. ASSUME NEW k \in Job, WorkerMoves(k)
      PROVE  JobInv'
  <2>1. task' \in [Job -> Tasks]
    BY <1>5 DEF WorkerMoves
  <2>2. TypeOK'
    BY <1>1, <1>2, <2>1 DEF TypeOK, model, loop, shared
  <2>3. /\ PhaseNamesItsJob' /\ GenerationsAgree' /\ EffectStartsTheJob' /\ JobIsPlanOrRun'
        /\ HistoryIsTruthful'
        /\ \A i \in Job : task[i].pc = "done" =>
             task'[i].pc = "done" /\ task'[i].kind = task[i].kind
    BY <1>1, <1>5, WorkerMovesKeepsJobs DEF shared
  <2>4. AnswersComeFromWorkers'
    BY <1>1, <2>3 DEF AnswersComeFromWorkers, JobInv, shared
  <2> QED
    BY <2>2, <2>3, <2>4 DEF JobInv
<1> QED
  BY <1>3, <1>4, <1>5

\* and so every step does.
LEMMA StepKeepsJobInv == JobInv /\ [Next]_vars => JobInv'
<1> SUFFICES ASSUME JobInv, [Next]_vars PROVE JobInv'
  OBVIOUS
<1>1. CASE UNCHANGED vars
  BY <1>1 DEF vars, JobInv, TypeOK, model, loop, shared, workers, PhaseNamesItsJob, Busy,
     GenerationsAgree, EffectStartsTheJob, JobIsPlanOrRun, Begun, AnswersComeFromWorkers,
     HistoryIsTruthful
<1>2. CASE Quit
  BY <1>2 DEF Quit, JobInv, TypeOK, model, loop, shared, workers, PhaseNamesItsJob, Busy,
     GenerationsAgree, EffectStartsTheJob, JobIsPlanOrRun, Begun, AnswersComeFromWorkers,
     HistoryIsTruthful
<1>3. CASE SessionDies
  BY <1>3 DEF SessionDies, JobInv, TypeOK, model, loop, shared, PhaseNamesItsJob, Busy,
     GenerationsAgree, EffectStartsTheJob, JobIsPlanOrRun, Begun, AnswersComeFromWorkers,
     HistoryIsTruthful
<1>4. CASE UserAction
  BY <1>4, UserActionKeepsJobInv
<1>5. CASE ReduceMessage
  BY <1>5, ReduceKeepsJobInv
<1>6. CASE PerformEffect
  BY <1>6, PerformKeepsJobInv
<1>7. ASSUME NEW a \in Attempt, AttemptStep(a) \/ AdmitInstall(a) \/ InstallSession(a)
      PROVE  JobInv'
  BY <1>7, AttemptKeepsJobInv
<1>8. ASSUME NEW j \in Job, TaskStep(j) \/ CancelStep(j)
      PROVE  JobInv'
  BY <1>8, TaskStepKeepsJobInv, CancelStepKeepsJobInv
<1> QED
  BY <1>1, <1>2, <1>3, <1>4, <1>5, <1>6, <1>7, <1>8 DEF Next, Ended

\* The first half of the invariant: types, and the bookkeeping of jobs.
THEOREM JobInvHolds == Spec => []JobInv
BY InitJobInv, StepKeepsJobInv, PTL DEF Spec

\* Every variable keeps its type: in particular no step of the reducer or of the
\* loop goes past a bound the step that asked for it had not left room for.
THEOREM TypeCorrect == Spec => []TypeOK
<1>1. JobInv => TypeOK
  BY DEF JobInv
<1> QED
  BY <1>1, JobInvHolds, PTL

\* History never credits one statement's SQL with the outcome of another.
THEOREM HistoryCorrect == Spec => []HistoryIsTruthful
<1>1. JobInv => HistoryIsTruthful
  BY DEF JobInv
<1> QED
  BY <1>1, JobInvHolds, PTL

-----------------------------------------------------------------------------
(* What the steps do to what Foreground shows: the connection, the jobs, the *)
(* result, and whether the client has been left.                            *)

\* What each step that changes one of these variables does, given the invariant.
LEMMA VisibleSteps ==
    ASSUME JobInv, [Next]_vars
    PROVE  \/ UNCHANGED <<gen, issued, phase, last, lastSql, exited>>
           \/ Quit
           \/ UserAction /\ CancelQuery
           \/ UserAction /\ BeginConnection
           \/ UserAction /\ (Submits("run") \/ Submits("explain"))
           \/ /\ ReduceMessage
              /\ phase' = Idle /\ UNCHANGED <<gen, issued, exited>>
              /\ \/ UNCHANGED <<last, lastSql>>
                 \/ Busy /\ last' = phase.job /\ lastSql' = phase.job
<1>1. CASE UNCHANGED vars
  BY <1>1 DEF vars, model, loop
<1>2. CASE SessionDies \/ Quit
  BY <1>2 DEF SessionDies, Quit, model, loop
<1>3. CASE PerformEffect
  BY <1>3 DEF PerformEffect, model
<1>4. ASSUME NEW a \in Attempt, AttemptStep(a) \/ AdmitInstall(a) \/ InstallSession(a)
      PROVE  UNCHANGED <<gen, issued, phase, last, lastSql, exited>>
  BY <1>4 DEF AttemptStep, AdmitInstall, InstallSession, model, loop
<1>5. ASSUME NEW j \in Job, TaskStep(j) \/ CancelStep(j)
      PROVE  UNCHANGED <<gen, issued, phase, last, lastSql, exited>>
  BY <1>5 DEF TaskStep, CancelStep, model, loop
<1>6. CASE UserAction
  <2>1. TypeOK /\ UNCHANGED exited
    BY <1>6 DEF JobInv, UserAction
  <2> QED
    BY <1>6, <2>1, UserActionCases DEF ReviewsChange, SubmitPassword, DismissPassword
<1>7. CASE ReduceMessage
  <2> DEFINE m == Head(inbox)
  <2>1. /\ effect = NoEffect /\ inbox # <<>> /\ UNCHANGED exited
        /\ Handle(m) \/ UNCHANGED model
    BY <1>7 DEF ReduceMessage, Quiet, loop
  <2>2. m \in Messages /\ m = inbox[1] /\ 1 \in 1 .. Len(inbox)
    <3>1. inbox \in Seq(Messages)
      BY DEF JobInv, TypeOK
    <3> QED
      BY <2>1, <3>1, QueueTail
  <2>3. m.kind \in {"connectingStep", "connected", "connectFailed", "authFailed",
                    "connectionLost", "executionFinished", "planFinished"}
    BY <2>2 DEF Messages
  <2>4. CASE UNCHANGED model \/ HandleConnectingStep \/ HandleConnected
    BY <2>1, <2>4 DEF model, HandleConnectingStep, HandleConnected
  <2>5. CASE HandleConnectionLost \/ HandleConnectionFailed(m.kind)
    BY <1>7, <2>1, <2>5 DEF HandleConnectionLost, HandleConnectionFailed
  <2>6. CASE HandlePlanFinished(m.job)
    BY <1>7, <2>1, <2>6 DEF HandlePlanFinished, model
  <2>7. CASE m.kind = "executionFinished" /\ HandleExecutionFinished(m.job)
    <3>1. CASE ~(Busy /\ phase.job = m.job)
      BY <2>1, <2>7, <3>1 DEF HandleExecutionFinished, model
    <3>2. CASE Busy /\ phase.job = m.job
      <4>1. m.job \in Job /\ task[m.job].kind = "run"
        BY <2>2, <2>7 DEF JobInv, AnswersComeFromWorkers
      <4>2. sqlOf = m.job
        BY <2>1, <3>2, <4>1 DEF JobInv, JobIsPlanOrRun, Begun, NoEffect
      <4> QED
        BY <1>7, <2>1, <2>7, <3>2, <4>2 DEF HandleExecutionFinished
    <3> QED
      BY <3>1, <3>2
  <2> QED
    BY <2>1, <2>3, <2>4, <2>5, <2>6, <2>7 DEF Handle
<1> QED
  BY <1>1, <1>2, <1>3, <1>4, <1>5, <1>6, <1>7 DEF Next, Ended

\* The result on screen is replaced only by that of the job in flight, together with
\* the SQL that produced it, and is otherwise only removed, by a switch.
THEOREM ResultsAreInFlight == Spec => ResultsComeFromTheJobInFlight
<1>1. ASSUME JobInv, [Next]_vars
      PROVE  [last' # last => \/ last' = None /\ gen' = gen + 1
                              \/ /\ Busy /\ last' = phase.job /\ lastSql' = last'
                                 /\ phase' = Idle]_vars
  BY <1>1, VisibleSteps DEF Quit, model, CancelQuery, BeginConnection, Submits
<1> QED
  BY <1>1, JobInvHolds, PTL DEF Spec, ResultsComeFromTheJobInFlight

\* The client keeps the safety part of the promise of Foreground: jobs are submitted
\* one at a time and in order, each ends at most once, what is shown is what has just
\* ended, and connections are switched between jobs only.
THEOREM KeepsForeground == Spec => Promise!Spec
<1>1. Init => Promise!Init
  BY DEF Init, Promise!Init, Idle, None
<1>2. ASSUME JobInv, [Next]_vars
      PROVE  [Promise!Next]_(Promise!vars)
  <2> USE DEF JobInv, Promise!Next, Promise!vars
  <2>1. Busy <=> phase.job # 0
    BY <1>2 DEF PhaseNamesItsJob, None
  <2>2. CASE UNCHANGED <<gen, issued, phase, last, exited>>
    BY <2>2
  <2>3. CASE Quit
    BY <2>3 DEF Quit, Quiet, model, Promise!Leave
  <2>4. CASE UserAction /\ CancelQuery
    BY <2>4 DEF UserAction, CancelQuery, TypeOK, Phases
  <2>5. CASE UserAction /\ BeginConnection
    BY <2>1, <2>5 DEF UserAction, Quiet, BeginConnection, Promise!Switch, Idle, None
  <2>6. CASE UserAction /\ (Submits("run") \/ Submits("explain"))
    BY <2>1, <2>6 DEF UserAction, Quiet, Submits, Promise!Submit
  <2>7. CASE /\ ReduceMessage
             /\ phase' = Idle /\ UNCHANGED <<gen, issued, exited>>
             /\ \/ UNCHANGED <<last, lastSql>>
                \/ Busy /\ last' = phase.job /\ lastSql' = phase.job
    BY <2>1, <2>7 DEF ReduceMessage, Quiet, Promise!Settle, Promise!Abandon, Idle, None
  <2> QED
    BY <1>2, <2>2, <2>3, <2>4, <2>5, <2>6, <2>7, VisibleSteps
<1> QED
  BY <1>1, <1>2, JobInvHolds, PTL DEF Spec, Promise!Spec

=============================================================================
