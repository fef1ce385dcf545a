---------------------------- MODULE WorkTheorems ----------------------------
(***************************************************************************)
(* The connection and the work of Lifecycle, for any number of             *)
(* connections, jobs and attempts.  First the second half of the           *)
(* invariant of LifecycleInvariant: one connection attempt at a time, what *)
(* that says of the slots, and so which session a result comes from.  Then *)
(* what builds on it: a job in flight is attended, meets no other at its   *)
(* session's gate and leaves no review behind.  LifecycleInvariant says    *)
(* which worker a job has; the invariant here says that no worker outlives *)
(* its job.                                                                *)
(***************************************************************************)
EXTENDS LifecycleTheorems, FiniteSetTheorems

-----------------------------------------------------------------------------
(* The connection attempts.                                                *)

\* Nothing is asked for and nobody works at the start.
LEMMA InitConnectionInv == Init => ConnectionInv
<1> SUFFICES ASSUME Init PROVE ConnectionInv
  OBVIOUS
<1>1. OneAttempt
  BY BoundsAssumption DEF Init, OneAttempt, Asking, NoEffect, Live, NoAttempt, Attempt
<1>2. SlotsFollow
  BY BoundsAssumption DEF Init, SlotsFollow, NoEffect, Live, NoAttempt, Attempt, Busy, Idle, None
<1>3. WorkersUseTheSession
  BY DEF Init, WorkersUseTheSession, NoTask, InSession
<1> QED
  BY <1>1, <1>2, <1>3 DEF ConnectionInv

-----------------------------------------------------------------------------
(* A person's actions.                                                     *)

\* What the person does keeps the invariant of the connections,
LEMMA UserActionKeepsConnectionInv ==
    ASSUME IInv, UserAction
    PROVE  ConnectionInv'
<1> USE DEF IInv, ConnectionInv, shared, workers
<1>1. TypeOK /\ effect = NoEffect /\ UNCHANGED <<exited, shared, workers>> /\ ~Asking
  BY DEF JobInv, UserAction, Quiet, NoEffect, Asking
<1>2. CASE ReviewsChange \/ DismissPassword
  BY <1>1, <1>2 DEF ReviewsChange, DismissPassword, OneAttempt, SlotsFollow,
     WorkersUseTheSession, Asking, Live, Busy
<1>3. CASE Submits("run") \/ Submits("explain")
  BY <1>1, <1>3 DEF Submits, OneAttempt, SlotsFollow, WorkersUseTheSession, Asking, Live, Busy, Usable
<1>4. CASE CancelQuery
  BY <1>1, <1>4 DEF CancelQuery, OneAttempt, SlotsFollow, WorkersUseTheSession, Asking, Live, Busy
<1>5. CASE BeginConnection
  BY <1>1, <1>5 DEF BeginConnection, OneAttempt, SlotsFollow, WorkersUseTheSession, Asking, Live,
     Busy, Idle
<1>6. CASE SubmitPassword
  BY <1>1, <1>6 DEF SubmitPassword, OneAttempt, SlotsFollow, WorkersUseTheSession, Asking, Live, Busy
<1> QED
  BY <1>1, <1>2, <1>3, <1>4, <1>5, <1>6, UserActionCases

-----------------------------------------------------------------------------
(* Answers taken.                                                          *)

\* What is left of the queue is a part of it, in the same order.
LEMMA TakenFromTheQueue ==
    ASSUME TypeOK, ReduceMessage
    PROVE  /\ Head(inbox) \in Messages /\ Head(inbox) = inbox[1] /\ 1 \in 1 .. Len(inbox)
           /\ \A i \in 1 .. Len(inbox') :
                i \in Nat /\ i + 1 \in 1 .. Len(inbox) /\ inbox'[i] = inbox[i + 1]
<1>1. inbox \in Seq(Messages) /\ inbox # <<>> /\ inbox' = Tail(inbox)
  BY DEF TypeOK, ReduceMessage
<1> QED
  BY <1>1, QueueTail

\* and so does what the reducer does with a message,
LEMMA ReduceKeepsConnectionInv ==
    ASSUME IInv, ReduceMessage
    PROVE  ConnectionInv'
<1> DEFINE m == Head(inbox)
<1>1. /\ TypeOK /\ AnswersComeFromWorkers /\ OneAttempt /\ SlotsFollow /\ WorkersUseTheSession
      /\ effect = NoEffect /\ ~Asking /\ gen = rgen
  BY DEF IInv, JobInv, ConnectionInv, ReduceMessage, Quiet, NoEffect, Asking, GenerationsAgree
<1>2. UNCHANGED <<effect, exited, rgen, target, slot, attempt, spawned, task, canceller, open>>
  BY DEF ReduceMessage, loop, workers
<1>3. /\ m \in Messages /\ m = inbox[1] /\ 1 \in 1 .. Len(inbox)
      /\ \A i \in 1 .. Len(inbox') :
           i \in Nat /\ i + 1 \in 1 .. Len(inbox) /\ inbox'[i] = inbox[i + 1]
  BY <1>1, TakenFromTheQueue
<1>4. /\ ~Asking' /\ effect' = NoEffect
      /\ \A a \in Attempt : Live(a)' <=> Live(a)
      /\ \A i \in 1 .. Len(inbox') : i + 1 \in 1 .. Len(inbox) /\ inbox'[i] = inbox[i + 1]
  BY <1>1, <1>2, <1>3 DEF Asking, Live
<1>a. \A i, k \in 1 .. Len(inbox') :
        inbox'[i].kind \in Settling /\ inbox'[k].kind \in Settling \cup {"connectingStep"} => k <= i
  <2> SUFFICES ASSUME NEW i \in 1 .. Len(inbox'), NEW k \in 1 .. Len(inbox'),
                      inbox'[i].kind \in Settling,
                      inbox'[k].kind \in Settling \cup {"connectingStep"}
               PROVE  k <= i
    OBVIOUS
  <2>1. k + 1 <= i + 1
    BY <1>1, <1>4 DEF OneAttempt
  <2> QED
    BY <1>3, <2>1
<1>5. CASE UNCHANGED model
  <2>1. OneAttempt'
    BY <1>1, <1>2, <1>4, <1>a, <1>5, SMTT(30) DEF model, OneAttempt
  <2>2. SlotsFollow'
    BY <1>1, <1>2, <1>4, <1>5 DEF model, SlotsFollow, Busy
  <2>3. WorkersUseTheSession'
    BY <1>1, <1>2, <1>4, <1>5 DEF model, WorkersUseTheSession
  <2> QED
    BY <2>1, <2>2, <2>3 DEF ConnectionInv
<1>6. CASE HandleConnectingStep /\ m.kind = "connectingStep"
  <2>0. conn = "connecting"
    BY <1>1, <1>3, <1>6 DEF OneAttempt
  <2> QED
    BY <1>5, <1>6, <2>0 DEF HandleConnectingStep, model
<1>7. CASE HandleConnected /\ m.kind = "connected"
  <2>a. m.kind \in Settling /\ m.kind = inbox[1].kind
    BY <1>3, <1>7 DEF Settling
  <2>b. slot # None
    BY <1>1, <1>3, <1>7 DEF SlotsFollow
  <2>c. /\ conn = "connecting" /\ \A a \in Attempt : ~Live(a)
        /\ \A k \in 1 .. Len(inbox) : inbox[k].kind \in Settling \cup {"connectingStep"} => k <= 1
    BY <1>1, <1>3, <2>a DEF OneAttempt
  <2>0. /\ slot # None /\ conn = "connecting"
        /\ \A i \in 1 .. Len(inbox') : inbox'[i].kind \notin Settling \cup {"connectingStep"}
        /\ \A a \in Attempt : ~Live(a)
    BY <1>3, <2>b, <2>c
  <2>1. OneAttempt'
    BY <1>1, <1>2, <1>4, <1>7, <2>0 DEF OneAttempt, HandleConnected
  <2>2. SlotsFollow'
    BY <1>1, <1>2, <1>4, <1>7, <2>0
       DEF HandleConnected, SlotsFollow, Busy, Settling, Failing, NoEffect
  <2>3. WorkersUseTheSession'
    BY <1>1, <1>2, <1>4, <1>7 DEF HandleConnected, WorkersUseTheSession
  <2> QED
    BY <2>1, <2>2, <2>3 DEF ConnectionInv
<1>8. CASE HandleConnectionFailed(m.kind) /\ m.kind \in Failing
  <2>a. m.kind \in Settling /\ m.kind = inbox[1].kind
    BY <1>3, <1>8 DEF Settling, Failing
  <2>b. slot = None /\ (m.kind = "authFailed" => target = rgen)
    BY <1>1, <1>3, <1>8, <2>a DEF SlotsFollow
  <2>c. /\ conn = "connecting" /\ \A a \in Attempt : ~Live(a)
        /\ \A k \in 1 .. Len(inbox) : inbox[k].kind \in Settling \cup {"connectingStep"} => k <= 1
    BY <1>1, <1>3, <2>a DEF OneAttempt
  <2>0. /\ slot = None /\ conn = "connecting" /\ (m.kind = "authFailed" => target = rgen)
        /\ \A i \in 1 .. Len(inbox') : inbox'[i].kind \notin Settling \cup {"connectingStep"}
        /\ \A a \in Attempt : ~Live(a)
    BY <1>3, <2>b, <2>c
  <2>1. OneAttempt'
    BY <1>1, <1>2, <1>4, <1>8, <2>0 DEF OneAttempt
  <2>2. SlotsFollow'
    BY <1>1, <1>2, <1>4, <1>8, <2>0
       DEF HandleConnectionFailed, SlotsFollow, Busy, Idle, Settling, Failing, NoEffect
  <2>3. WorkersUseTheSession'
    BY <1>1, <1>2, <1>4, <1>8 DEF HandleConnectionFailed, WorkersUseTheSession
  <2> QED
    BY <2>1, <2>2, <2>3 DEF ConnectionInv
<1>9. CASE HandleConnectionLost
  <2>0. conn = "connecting" <=> conn' = "connecting"
    BY <1>9 DEF HandleConnectionLost, LoseConnection
  <2>1. OneAttempt'
    BY <1>1, <1>2, <1>4, <1>a, <2>0 DEF OneAttempt
  <2>2. SlotsFollow'
    BY <1>1, <1>2, <1>4, <1>9, <2>0 DEF HandleConnectionLost, LoseConnection, SlotsFollow, Busy, Idle
  <2>3. WorkersUseTheSession'
    BY <1>1, <1>2, <1>4, <1>9 DEF HandleConnectionLost, WorkersUseTheSession
  <2> QED
    BY <2>1, <2>2, <2>3 DEF ConnectionInv
<1>10. CASE HandlePlanFinished(m.job) /\ ~UNCHANGED model
  <2>0. Busy /\ conn = "connected" /\ conn' \in {"connected", "lost"}
        /\ phase' = Idle /\ UNCHANGED <<gen, prompt, last>>
    BY <1>1, <1>10 DEF HandlePlanFinished, LoseConnection, SlotsFollow
  <2>1. OneAttempt'
    BY <1>1, <1>2, <1>4, <1>a, <2>0 DEF OneAttempt
  <2>2. SlotsFollow'
    BY <1>1, <1>2, <1>4, <2>0 DEF SlotsFollow, Busy, Idle
  <2>3. WorkersUseTheSession'
    BY <1>1, <1>2, <1>4, <2>0 DEF WorkersUseTheSession
  <2> QED
    BY <2>1, <2>2, <2>3 DEF ConnectionInv
<1>11. CASE /\ HandleExecutionFinished(m.job) /\ m.kind = "executionFinished" /\ m.gen = gen
            /\ ~UNCHANGED model
  <2>0. Busy /\ conn = "connected" /\ conn' \in {"connected", "lost"}
        /\ phase' = Idle /\ last' = m.job /\ UNCHANGED <<gen, prompt>>
    BY <1>1, <1>11 DEF HandleExecutionFinished, LoseConnection, SlotsFollow
  <2>1. OneAttempt'
    BY <1>1, <1>2, <1>4, <1>a, <2>0 DEF OneAttempt
  <2>2. SlotsFollow'
    BY <1>1, <1>2, <1>4, <2>0 DEF SlotsFollow, Busy, Idle
  <2>3. /\ task[m.job].pc = "done" /\ task[m.job].gen = gen
        /\ slot # None /\ task[m.job].sess = slot
    BY <1>1, <1>3, <1>11 DEF AnswersComeFromWorkers, WorkersUseTheSession
  <2>4. WorkersUseTheSession'
    BY <1>1, <1>2, <1>4, <2>0, <2>3 DEF WorkersUseTheSession
  <2> QED
    BY <2>1, <2>2, <2>4 DEF ConnectionInv
<1>12. UNCHANGED model \/ (Handle(m) /\ m.gen = gen)
  BY DEF ReduceMessage, AcceptEnvelope
<1>13. m.kind \in {"connectingStep", "connected", "connectFailed", "authFailed",
                   "connectionLost", "executionFinished", "planFinished"}
  BY <1>3 DEF Messages
<1> QED
  BY <1>5, <1>6, <1>7, <1>8, <1>9, <1>10, <1>11, <1>12, <1>13 DEF Handle, Failing

-----------------------------------------------------------------------------
(* Effects performed.                                                      *)

\* and what the loop does for an effect.
LEMMA PerformKeepsConnectionInv ==
    ASSUME IInv, PerformEffect
    PROVE  ConnectionInv'
<1>1. /\ TypeOK /\ AnswersComeFromWorkers /\ OneAttempt /\ SlotsFollow /\ WorkersUseTheSession
      /\ GenerationsAgree /\ EffectStartsTheJob /\ TypeOK'
  BY PerformKeepsJobInv DEF IInv, JobInv, ConnectionInv
<1>2. /\ effect' = NoEffect /\ ~Asking' /\ UNCHANGED inbox
      /\ UNCHANGED <<gen, conn, phase, prompt, last>> /\ Busy' = Busy
  BY DEF PerformEffect, PerformConnectProfile, PerformReconnect, PerformExecute, PerformCancel,
         model, shared, NoEffect, Asking, Busy
<1>3. CASE PerformConnectProfile
  <2>1. /\ Asking /\ conn = "connecting" /\ gen = rgen + 1 /\ rgen' = rgen + 1
        /\ rgen \in Nat /\ spawned + 1 \in Attempt /\ spawned' = spawned + 1
    BY <1>1, <1>3, BoundsAssumption
       DEF PerformConnectProfile, GenerationsAgree, OneAttempt, Asking, TypeOK, Generation, Attempt
  <2>2. /\ attempt'[spawned + 1] = [pc |-> "preparing", gen |-> rgen + 1]
        /\ \A a \in Attempt : Live(a)' <=> a = spawned + 1
        /\ target' = None /\ slot' = None /\ UNCHANGED task
    BY <1>1, <1>3, <2>1 DEF PerformConnectProfile, OneAttempt, Live
  <2>3. OneAttempt'
    BY <1>1, <1>2, <2>1, <2>2 DEF OneAttempt, Settling
  <2>4. SlotsFollow'
    BY <1>1, <1>2, <2>1, <2>2
       DEF SlotsFollow, OneAttempt, Settling, Failing, NoEffect
  <2>5. last = None /\ \A j \in Job : task[j].pc # "none" => task[j].gen # rgen + 1
                                                             /\ task[j].gen <= rgen + 1
    <3>1. last = None
      BY <1>1, <2>1 DEF WorkersUseTheSession
    <3>2. \A j \in Job : task[j].gen \in Nat
      BY <1>1 DEF TypeOK, Tasks, Generation
    <3> QED
      BY <1>1, <2>1, <3>1, <3>2 DEF WorkersUseTheSession
  <2>6. WorkersUseTheSession'
    BY <1>1, <1>2, <2>1, <2>2, <2>5 DEF WorkersUseTheSession, AnswersComeFromWorkers, InSession
  <2> QED
    BY <2>3, <2>4, <2>6 DEF ConnectionInv
<1>4. CASE PerformReconnect
  <2>1. /\ Asking /\ conn = "connecting" /\ gen = rgen /\ target = rgen /\ slot = None
        /\ spawned + 1 \in Attempt /\ target # None
    BY <1>1, <1>4, BoundsAssumption
       DEF PerformReconnect, GenerationsAgree, OneAttempt, SlotsFollow, Asking, TypeOK, Attempt,
           Generation, None
  <2>2. /\ attempt'[spawned + 1] = [pc |-> "starting", gen |-> rgen]
        /\ \A a \in Attempt : Live(a)' <=> a = spawned + 1
        /\ spawned' = spawned + 1 /\ UNCHANGED <<rgen, target, slot, task>>
    BY <1>1, <1>4, <2>1 DEF PerformReconnect, OneAttempt, Live, shared, TypeOK
  <2>3. OneAttempt'
    BY <1>1, <1>2, <2>1, <2>2 DEF OneAttempt, Settling, TypeOK
  <2>4. SlotsFollow'
    BY <1>1, <1>2, <2>1, <2>2 DEF SlotsFollow, OneAttempt, Settling, Failing, NoEffect
  <2>5. WorkersUseTheSession'
    BY <1>1, <1>2, <2>1, <2>2 DEF WorkersUseTheSession
  <2> QED
    BY <2>3, <2>4, <2>5 DEF ConnectionInv
<1>5. CASE PerformExecute \/ PerformCancel
  <2>1. /\ ~Asking /\ gen = rgen /\ UNCHANGED <<rgen, target, slot, attempt, spawned>>
        /\ \A a \in Attempt : Live(a)' <=> Live(a)
    BY <1>1, <1>5
       DEF PerformExecute, PerformCancel, Asking, GenerationsAgree, shared, Live
  <2>2. OneAttempt'
    BY <1>1, <1>2, <2>1 DEF OneAttempt
  <2>3. SlotsFollow'
    BY <1>1, <1>2, <2>1 DEF SlotsFollow, NoEffect
  <2>4. CASE PerformCancel
    BY <1>1, <1>2, <2>1, <2>2, <2>3, <2>4 DEF PerformCancel, ConnectionInv, WorkersUseTheSession
  <2>5. CASE PerformExecute
    <3>1. /\ effect.job \in Job /\ task[effect.job].pc = "none"
          /\ task'[effect.job].pc = "spawned" /\ task'[effect.job].gen = rgen
          /\ \A j \in Job : j # effect.job => task'[j] = task[j]
          /\ rgen <= rgen
      BY <1>1, <2>5 DEF PerformExecute, EffectStartsTheJob, TypeOK, NoTask, Generation
    <3>2. WorkersUseTheSession'
      BY <1>1, <1>2, <2>1, <3>1, ZenonT(60)
         DEF WorkersUseTheSession, AnswersComeFromWorkers, InSession, TypeOK
    <3> QED
      BY <2>2, <2>3, <3>2 DEF ConnectionInv
  <2> QED
    BY <1>5, <2>4, <2>5
<1> QED
  BY <1>3, <1>4, <1>5 DEF PerformEffect

-----------------------------------------------------------------------------
(* Workers.                                                                *)

\* A message that is sent is the last one, the others stay where they are.
LEMMA SendOne ==
    ASSUME TypeOK, NEW e \in Messages, Send(<<e>>)
    PROVE  \A i \in 1 .. Len(inbox') :
             /\ i \in Nat
             /\ \/ i \in 1 .. Len(inbox) /\ inbox'[i] = inbox[i]
                \/ inbox'[i] = e /\ \A k \in 1 .. Len(inbox') : k <= i
<1>1. /\ Len(inbox) \in Nat /\ Len(inbox') = Len(inbox) + 1
      /\ \A i \in 1 .. Len(inbox) : inbox'[i] = inbox[i]
      /\ inbox'[Len(inbox) + 1] = e
  BY QueueSend DEF TypeOK, Send
<1> QED
  BY <1>1

\* A step of a job's worker leaves the connection alone, and a worker that is in a
\* session has found it in the slot at this step or was in it before.
LEMMA WorkerStepKeepsConnectionInv ==
    ASSUME IInv, NEW j \in Job, WorkerMoves(j),
           UNCHANGED <<model, loop, rgen, target, slot, attempt, spawned>>,
           task'[j].pc \in InSession =>
             \/ slot # None /\ task'[j].sess = slot
             \/ task[j].pc \in InSession /\ task'[j].sess = task[j].sess,
           \A i \in 1 .. Len(inbox') :
             /\ i \in Nat
             /\ \/ i \in 1 .. Len(inbox) /\ inbox'[i] = inbox[i]
                \/ /\ inbox'[i].kind \notin Settling \cup {"connectingStep"}
                   /\ inbox'[i].kind = "executionFinished" =>
                        /\ inbox'[i].job = j /\ inbox'[i].gen = task[j].gen
                        /\ task[j].pc = "answered" /\ task'[j].sess = task[j].sess
    PROVE  ConnectionInv'
<1>1. /\ TypeOK /\ AnswersComeFromWorkers /\ OneAttempt /\ SlotsFollow /\ WorkersUseTheSession
  BY DEF IInv, JobInv, ConnectionInv
<1>2. /\ UNCHANGED <<gen, conn, phase, prompt, last, effect>> /\ Busy' = Busy /\ Asking' = Asking
      /\ \A a \in Attempt : Live(a)' <=> Live(a)
  BY DEF model, loop, Busy, Asking, Live
<1>3. /\ task[j].pc \notin {"none", "done"} /\ task'[j].pc # "none"
      /\ task'[j].gen = task[j].gen /\ \A k \in Job : k # j => task'[k] = task[k]
  BY DEF WorkerMoves
<1>4. OneAttempt'
  BY <1>1, <1>2 DEF OneAttempt
<1>5. SlotsFollow'
  BY <1>1, <1>2 DEF SlotsFollow, Settling, Failing
<1>6. WorkersUseTheSession'
  <2>1. \A k \in Job : task'[k].pc # "none" => task'[k].gen <= rgen
    BY <1>1, <1>3 DEF WorkersUseTheSession
  <2>2. ASSUME NEW k \in Job, task'[k].pc \in InSession, task'[k].gen = rgen
        PROVE  slot # None /\ task'[k].sess = slot
    BY <1>1, <1>3, <2>2 DEF WorkersUseTheSession
  <2>3. ASSUME NEW i \in 1 .. Len(inbox'), inbox'[i].kind = "executionFinished"
        PROVE  /\ inbox'[i].gen = task'[inbox'[i].job].gen
               /\ inbox'[i].gen = rgen => slot # None /\ task'[inbox'[i].job].sess = slot
    <3>1. CASE i \in 1 .. Len(inbox) /\ inbox'[i] = inbox[i]
      BY <1>1, <1>3, <2>3, <3>1 DEF WorkersUseTheSession, AnswersComeFromWorkers
    <3>2. CASE /\ inbox'[i].job = j /\ inbox'[i].gen = task[j].gen
               /\ task[j].pc = "answered" /\ task'[j].sess = task[j].sess
      BY <1>1, <1>3, <2>3, <3>2 DEF WorkersUseTheSession, InSession
    <3> QED
      BY <2>3, <3>1, <3>2
  <2>4. last # None =>
          /\ task'[last].pc = "done" /\ task'[last].gen = gen /\ gen = rgen
          /\ slot # None /\ task'[last].sess = slot
    BY <1>1, <1>3 DEF WorkersUseTheSession, TypeOK
  <2> QED
    BY <1>2, <2>1, <2>2, <2>3, <2>4 DEF WorkersUseTheSession
<1> QED
  BY <1>4, <1>5, <1>6 DEF ConnectionInv

\* A worker takes the session that is in the slot, keeps it, and says what it found with its
\* own generation.
LEMMA TaskStepSessions ==
    ASSUME TypeOK, NEW j \in Job, TaskStep(j)
    PROVE  /\ task'[j].pc \in InSession =>
                \/ slot # None /\ task'[j].sess = slot
                \/ task[j].pc \in InSession /\ task'[j].sess = task[j].sess
           /\ \/ UNCHANGED inbox
              \/ Send(<<Envelope("planFinished", task[j].gen, j)>>)
              \/ /\ task[j].pc = "answered" /\ task'[j].sess = task[j].sess
                 /\ \/ Send(<<Envelope("executionFinished", task[j].gen, j)>>)
                    \/ Send(<<Envelope("connectionLost", task[j].gen, None),
                              Envelope("executionFinished", task[j].gen, j)>>)
<1>0. task \in [Job -> Tasks] /\ inbox \in Seq(Messages)
  BY DEF TypeOK
<1>1. CASE ReadSlot(j)
  <2>1. task'[j].pc \in InSession => slot # None /\ task'[j].sess = slot
    BY <1>0, <1>1 DEF ReadSlot, Finish, InSession, Tasks
  <2>2. UNCHANGED inbox \/ Send(<<Envelope("planFinished", task[j].gen, j)>>)
    BY <1>0, <1>1, QueueSendNothing DEF ReadSlot, Finish, Send
  <2> QED
    BY <2>1, <2>2
<1>2. CASE EnterSession(j)
  BY <1>0, <1>2 DEF EnterSession, InSession, Tasks
<1>3. CASE TakeGate(j)
  BY <1>0, <1>3 DEF TakeGate, InSession, Tasks
<1>4. CASE EndStatement(j)
  <2>1. task[j].pc = "executing" /\ UNCHANGED inbox
    BY <1>4 DEF EndStatement
  <2>2. \/ \E out \in {"succeeded", "failed"} :
             task' = [task EXCEPT ![j].pc = "probing", ![j].out = out]
        \/ task' = [task EXCEPT ![j].pc = "answered", ![j].out = "lost", ![j].txn = "unknown"]
    BY <1>4 DEF EndStatement
  <2> QED
    BY <1>0, <2>1, <2>2 DEF InSession, Tasks
<1>5. CASE ProbeTransaction(j)
  <2>1. PICK t \in TxnStates : task' = [task EXCEPT ![j].pc = "answered", ![j].txn = t]
    BY <1>5 DEF ProbeTransaction
  <2> QED
    BY <1>0, <1>5, <2>1 DEF ProbeTransaction, InSession, Tasks
<1>6. CASE Answer(j)
  <2>1. task[j].pc = "answered" /\ task'[j].pc = "done" /\ task'[j].sess = task[j].sess
    BY <1>0, <1>6 DEF Answer, Finish, Tasks
  <2>2. CASE Send(<<>>)
    BY <1>0, <2>1, <2>2, QueueSendNothing DEF Send, InSession
  <2>3. CASE ~Send(<<>>)
    BY <1>6, <2>1, <2>3 DEF Answer, Finish, InSession
  <2> QED
    BY <2>2, <2>3
<1> QED
  BY <1>1, <1>2, <1>3, <1>4, <1>5, <1>6 DEF TaskStep

\* So a step of a worker keeps the invariant of the connections,
LEMMA TaskStepKeepsConnectionInv ==
    ASSUME IInv, NEW j \in Job, TaskStep(j)
    PROVE  ConnectionInv'
<1> DEFINE plan1 == Envelope("planFinished", task[j].gen, j)
           done1 == Envelope("executionFinished", task[j].gen, j)
           lost1 == Envelope("connectionLost", task[j].gen, None)
           new(i) ==
             /\ inbox'[i].kind \notin Settling \cup {"connectingStep"}
             /\ inbox'[i].kind = "executionFinished" =>
                  /\ inbox'[i].job = j /\ inbox'[i].gen = task[j].gen
                  /\ task[j].pc = "answered" /\ task'[j].sess = task[j].sess
<1>1. TypeOK /\ inbox \in Seq(Messages)
  BY DEF IInv, JobInv, TypeOK
<1>2. WorkerMoves(j) /\ UNCHANGED <<model, loop, rgen, target, slot, attempt, spawned>>
  BY <1>1, TaskStepCases
<1>3. /\ plan1 \in Messages /\ done1 \in Messages /\ lost1 \in Messages
      /\ plan1.kind = "planFinished" /\ lost1.kind = "connectionLost"
      /\ done1.kind = "executionFinished" /\ done1.job = j /\ done1.gen = task[j].gen
  BY <1>1 DEF TypeOK, Tasks, Messages, Envelope
<1>4. \A i \in 1 .. Len(inbox') :
        i \in Nat /\ ((i \in 1 .. Len(inbox) /\ inbox'[i] = inbox[i]) \/ new(i))
  <2>1. CASE UNCHANGED inbox
    BY <2>1
  <2>2. CASE Send(<<plan1>>)
    BY <1>1, <1>3, <2>2, SendOne DEF Settling
  <2>3. CASE /\ task[j].pc = "answered" /\ task'[j].sess = task[j].sess
             /\ Send(<<done1>>)
    BY <1>1, <1>3, <2>3, SendOne DEF Settling
  <2>4. CASE /\ task[j].pc = "answered" /\ task'[j].sess = task[j].sess
             /\ Send(<<lost1, done1>>)
    <3>1. /\ Len(inbox) \in Nat /\ Len(inbox') = Len(inbox) + 2
          /\ \A i \in 1 .. Len(inbox) : inbox'[i] = inbox[i]
          /\ inbox'[Len(inbox) + 1] = lost1 /\ inbox'[Len(inbox) + 2] = done1
      BY <1>1, <1>3, <2>4, QueueSendTwo DEF Send
    <3>2. \A i \in 1 .. Len(inbox') :
            i \in Nat /\ (i \in 1 .. Len(inbox) \/ inbox'[i] \in {lost1, done1})
      BY <3>1
    <3> QED
      BY <1>3, <2>4, <3>1, <3>2 DEF Settling
  <2> QED
    BY <1>1, <2>1, <2>2, <2>3, <2>4, TaskStepSessions
<1>5. task'[j].pc \in InSession =>
        \/ slot # None /\ task'[j].sess = slot
        \/ task[j].pc \in InSession /\ task'[j].sess = task[j].sess
  BY <1>1, TaskStepSessions
<1> QED
  BY <1>2, <1>4, <1>5, WorkerStepKeepsConnectionInv

\* a step of a cancellation does,
LEMMA CancelStepKeepsConnectionInv ==
    ASSUME IInv, NEW j \in Job, CancelStep(j)
    PROVE  ConnectionInv'
<1>1. TypeOK /\ UNCHANGED <<model, loop, shared, attempt, spawned, open>>
  BY DEF IInv, JobInv, CancelStep
<1>2. CASE UNCHANGED task
  BY <1>1, <1>2 DEF IInv, ConnectionInv, model, loop, shared, OneAttempt, SlotsFollow,
     WorkersUseTheSession, Asking, Live, Busy
<1>3. CASE ~UNCHANGED task
  <2>1. PICK k \in Job :
          \/ /\ task[k].pc = "executing"
             /\ task' = [task EXCEPT ![k].pc = "probing", ![k].out = "cancelled"]
          \/ /\ task[k].pc = "probing"
             /\ task' = [task EXCEPT ![k].pc = "answered", ![k].txn = "unknown"]
    BY <1>3 DEF CancelStep, CancellerReadSlot, CancellerSend, CancelArrives
  <2>2. WorkerMoves(k) /\ task[k].pc \in InSession /\ task'[k].sess = task[k].sess
    <3>1. CASE /\ task[k].pc = "executing"
               /\ task' = [task EXCEPT ![k].pc = "probing", ![k].out = "cancelled"]
      BY <1>1, <3>1, ZenonT(60) DEF WorkerMoves, TypeOK, Tasks, TaskStates, Outcomes, InSession
    <3>2. CASE /\ task[k].pc = "probing"
               /\ task' = [task EXCEPT ![k].pc = "answered", ![k].txn = "unknown"]
      BY <1>1, <3>2, ZenonT(60) DEF WorkerMoves, TypeOK, Tasks, TaskStates, TxnStates, InSession
    <3> QED
      BY <2>1, <3>1, <3>2
  <2>3. \A i \in 1 .. Len(inbox') : i \in Nat /\ i \in 1 .. Len(inbox) /\ inbox'[i] = inbox[i]
    BY <1>1 DEF shared
  <2> QED
    BY <1>1, <2>2, <2>3, WorkerStepKeepsConnectionInv DEF shared
<1> QED
  BY <1>2, <1>3

\* What a step of the one live attempt does: it goes on, and the target and the slot
\* follow; or it ends, and what it says is the end of it.
LEMMA AttemptMovesKeepsConnectionInv ==
    ASSUME IInv, NEW a \in Attempt, Live(a), attempt'[a].pc # "none",
           attempt'[a].gen = attempt[a].gen,
           \A b \in Attempt : b # a => attempt'[b] = attempt[b],
           UNCHANGED <<model, loop, rgen, spawned, task>>,
           attempt'[a].pc # "preparing",
           attempt'[a].pc = "starting" => attempt[a].pc = "preparing",
           target' = IF attempt'[a].pc = "done" THEN target ELSE rgen,
           slot' = IF attempt'[a].pc = "acknowledged" THEN a ELSE slot,
           slot' = a => slot = a \/ slot = None,
           attempt'[a].pc \notin {"acknowledged", "done"} => slot = None,
           \/ UNCHANGED inbox
           \/ \E e \in Messages :
                /\ Send(<<e>>) /\ e.gen = rgen
                /\ \/ e.kind = "connectingStep" /\ attempt'[a].pc = "opening"
                   \/ /\ e.kind \in Settling /\ attempt'[a].pc = "done"
                      /\ e.kind = "connected" => slot # None
                      /\ e.kind \in Failing => slot = None
                      /\ e.kind = "authFailed" => target = rgen
    PROVE  ConnectionInv'
<1> DEFINE pc == attempt'[a].pc
           says(i) ==
             /\ inbox'[i].gen = rgen /\ \A k \in 1 .. Len(inbox') : k <= i
             /\ \/ inbox'[i].kind = "connectingStep" /\ pc = "opening"
                \/ /\ inbox'[i].kind \in Settling /\ pc = "done"
                   /\ inbox'[i].kind = "connected" => slot # None
                   /\ inbox'[i].kind \in Failing => slot = None
                   /\ inbox'[i].kind = "authFailed" => target = rgen
<1>1. /\ TypeOK /\ OneAttempt /\ SlotsFollow /\ WorkersUseTheSession /\ AnswersComeFromWorkers
  BY DEF IInv, JobInv, ConnectionInv
<1>2. /\ UNCHANGED <<gen, conn, phase, prompt, last, effect>> /\ Busy' = Busy /\ Asking' = Asking
  BY DEF model, loop, Busy, Asking
<1>3. /\ conn = "connecting" /\ attempt[a].gen = rgen /\ a <= spawned /\ ~Asking
      /\ \A b \in Attempt : Live(b) => b = a
      /\ \A i \in 1 .. Len(inbox) : inbox[i].kind \notin Settling
      /\ \A b \in Attempt : Live(b)' => b = a
      /\ Live(a)' <=> pc # "done"
  BY <1>1 DEF OneAttempt, Live
<1>4. \A i \in 1 .. Len(inbox') :
        i \in Nat /\ ((i \in 1 .. Len(inbox) /\ inbox'[i] = inbox[i]) \/ says(i))
  <2>1. CASE UNCHANGED inbox
    BY <2>1
  <2>2. ASSUME NEW e \in Messages, Send(<<e>>), e.gen = rgen,
               \/ e.kind = "connectingStep" /\ attempt'[a].pc = "opening"
               \/ /\ e.kind \in Settling /\ attempt'[a].pc = "done"
                  /\ e.kind = "connected" => slot # None
                  /\ e.kind \in Failing => slot = None
                  /\ e.kind = "authFailed" => target = rgen
        PROVE  \A i \in 1 .. Len(inbox') :
                 i \in Nat /\ ((i \in 1 .. Len(inbox) /\ inbox'[i] = inbox[i]) \/ says(i))
    BY <1>1, <2>2, SendOne
  <2> QED
    BY <2>1, <2>2
<1>5. OneAttempt'
  <2>1. /\ Asking' = FALSE
        /\ \A b \in Attempt : Live(b)' =>
             /\ conn' = "connecting" /\ attempt'[b].gen = rgen /\ b <= spawned
             /\ \A c \in Attempt : Live(c)' => c = b
             /\ \A i \in 1 .. Len(inbox') : inbox'[i].kind \notin Settling
             /\ attempt'[b].pc \in {"preparing", "starting"} =>
                  \A i \in 1 .. Len(inbox') : inbox'[i].kind # "connectingStep"
    BY <1>1, <1>2, <1>3, <1>4 DEF OneAttempt, Settling
  <2>2. \A i \in 1 .. Len(inbox') : inbox'[i].kind \in Settling \cup {"connectingStep"} =>
          conn' = "connecting" /\ inbox'[i].gen = rgen
    BY <1>1, <1>2, <1>3, <1>4 DEF OneAttempt
  <2>3. \A i, k \in 1 .. Len(inbox') :
          inbox'[i].kind \in Settling /\ inbox'[k].kind \in Settling \cup {"connectingStep"} => k <= i
    BY <1>3, <1>4
  <2> QED
    BY <2>1, <2>2, <2>3 DEF OneAttempt
<1>6. SlotsFollow'
  <2>1. slot \in {None, a} /\ (slot' # None => slot' = a)
    BY <1>1, <1>3 DEF SlotsFollow
  <2>2. slot' # None => slot' \in Attempt /\ attempt'[slot'].gen = rgen
    BY <1>3, <2>1
  <2>3. \A b \in Attempt : Live(b)' =>
          /\ slot' = IF attempt'[b].pc = "acknowledged" THEN b ELSE None
          /\ target' = IF attempt'[b].pc = "preparing" THEN None ELSE rgen
    BY <1>3, <2>1
  <2>4. \A i \in 1 .. Len(inbox') :
          /\ inbox'[i].kind = "connected"   => slot' # None
          /\ inbox'[i].kind \in Failing     => slot' = None
          /\ inbox'[i].kind = "authFailed"  => target' = rgen
    BY <1>3, <1>4 DEF Settling, Failing
  <2>5. /\ conn' \notin {"connected", "lost", "failed"} /\ effect'.kind # "reconnect"
        /\ ~prompt' /\ ~Busy'
    BY <1>1, <1>2, <1>3 DEF SlotsFollow, Asking
  <2> QED
    BY <1>2, <2>2, <2>3, <2>4, <2>5 DEF SlotsFollow
<1>7. WorkersUseTheSession'
  <2>1. slot' = slot \/ slot = None
    BY <1>1, <1>3 DEF SlotsFollow
  <2>2. \A i \in 1 .. Len(inbox') : inbox'[i].kind = "executionFinished" =>
          i \in 1 .. Len(inbox) /\ inbox'[i] = inbox[i]
    BY <1>4 DEF Settling
  <2> QED
    BY <1>1, <1>2, <2>1, <2>2 DEF WorkersUseTheSession
<1> QED
  BY <1>5, <1>6, <1>7 DEF ConnectionInv

\* a step of an attempt to connect does,
LEMMA AttemptKeepsConnectionInv ==
    ASSUME IInv, NEW a \in Attempt, AttemptStep(a) \/ AdmitInstall(a) \/ InstallSession(a)
    PROVE  ConnectionInv'
<1> USE DEF shared
<1>1. /\ TypeOK /\ UNCHANGED <<model, loop, rgen, spawned, task>>
      /\ OneAttempt /\ SlotsFollow /\ WorkersUseTheSession
  BY DEF IInv, JobInv, ConnectionInv, AttemptStep, AdmitInstall, InstallSession, PrepareTarget,
     StartAttempt, OpenSession, RefuseSession, AnnounceSession
<1>2. attempt[a].pc \notin {"none", "done"}
  BY DEF AttemptStep, AdmitInstall, InstallSession, PrepareTarget,
     StartAttempt, OpenSession, RefuseSession, AnnounceSession
<1>3. /\ Live(a) /\ attempt[a].gen = rgen /\ Current(attempt[a].gen)
      /\ \A b \in Attempt : Live(b) => b = a
      /\ slot = IF attempt[a].pc = "acknowledged" THEN a ELSE None
      /\ target = IF attempt[a].pc = "preparing" THEN None ELSE rgen
      /\ a # None
  BY <1>1, <1>2 DEF OneAttempt, SlotsFollow, Live, Current, Attempt, None
<1>4. /\ conn = "connecting" /\ ~Asking /\ gen = rgen
  BY <1>1, <1>3 DEF OneAttempt, IInv, JobInv, GenerationsAgree, Asking
<1>5. /\ attempt[a].gen \in Generation
      /\ \A kind \in {"connectingStep", "connected", "connectFailed", "authFailed"} :
           /\ Envelope(kind, rgen, None) \in Messages
           /\ Envelope(kind, rgen, None).kind = kind /\ Envelope(kind, rgen, None).gen = rgen
  BY <1>1 DEF TypeOK, Attempts, Messages, Envelope
<1>6. ASSUME NEW pc \in {"starting", "opening", "requested", "pending", "acknowledged", "done"},
             GoTo(a, pc), pc = "starting" => attempt[a].pc = "preparing",
             target' = IF pc = "done" THEN target ELSE rgen,
             slot' = IF pc = "acknowledged" THEN a ELSE slot,
             pc \notin {"acknowledged", "done"} => slot = None,
             \/ UNCHANGED inbox
             \/ \E e \in Messages :
                  /\ Send(<<e>>) /\ e.gen = rgen
                  /\ \/ e.kind = "connectingStep" /\ pc = "opening"
                     \/ /\ e.kind \in Settling /\ pc = "done"
                        /\ e.kind = "connected" => slot # None
                        /\ e.kind \in Failing => slot = None
                        /\ e.kind = "authFailed" => target = rgen
      PROVE  ConnectionInv'
  <2>1. pc \in AttemptStates
    BY DEF AttemptStates
  <2>2. /\ attempt'[a].pc = pc /\ attempt'[a].gen = attempt[a].gen
        /\ \A b \in Attempt : b # a => attempt'[b] = attempt[b]
    BY <1>1, <1>6, <2>1, GoToFacts
  <2>3. slot \in {None, a}
    BY <1>3
  <2> QED
    BY <1>1, <1>3, <1>6, <2>2, <2>3, AttemptMovesKeepsConnectionInv
<1>7. CASE PrepareTarget(a)
  <2>1. CASE GoTo(a, "starting") /\ target' = attempt[a].gen /\ UNCHANGED inbox
    BY <1>3, <1>6, <1>7, <2>1 DEF PrepareTarget
  <2>2. CASE /\ GoTo(a, "done") /\ Send(<<Envelope("connectFailed", attempt[a].gen, None)>>)
             /\ UNCHANGED target
    <3>1. slot = None
      BY <1>3, <1>7 DEF PrepareTarget
    <3> QED
      BY <1>3, <1>5, <1>6, <1>7, <2>2, <3>1 DEF PrepareTarget, Settling, Failing
  <2> QED
    BY <1>3, <1>7, <2>1, <2>2 DEF PrepareTarget
<1>8. CASE StartAttempt(a)
  <2>1. /\ Send(<<Envelope("connectingStep", rgen, None)>>) /\ GoTo(a, "opening")
        /\ UNCHANGED <<target, slot>> /\ slot = None /\ target = rgen
    BY <1>3, <1>8 DEF StartAttempt
  <2> QED
    BY <1>5, <1>6, <2>1
<1>9. CASE OpenSession(a)
  BY <1>3, <1>6, <1>9 DEF OpenSession
<1>10. CASE RefuseSession(a)
  <2>1. PICK kind \in {"connectFailed", "authFailed"} : Send(<<Envelope(kind, rgen, None)>>)
    BY <1>3, <1>10 DEF RefuseSession
  <2>2. GoTo(a, "done") /\ UNCHANGED <<target, slot>> /\ slot = None /\ target = rgen
    BY <1>3, <1>10 DEF RefuseSession
  <2> QED
    BY <1>5, <1>6, <2>1, <2>2 DEF Settling, Failing
<1>11. CASE AnnounceSession(a)
  <2>1. /\ GoTo(a, "done") /\ UNCHANGED <<target, slot>> /\ slot # None
        /\ Send(<<Envelope("connected", rgen, None)>>)
    BY <1>3, <1>11 DEF AnnounceSession
  <2> QED
    BY <1>5, <1>6, <2>1 DEF Settling, Failing
<1>12. CASE AdmitInstall(a)
  <2>1. /\ attempt[a].pc = "requested" /\ UNCHANGED <<target, slot, inbox>>
        /\ attempt' = [b \in Attempt |->
                        IF b = a THEN [attempt[b] EXCEPT !.pc = "pending"]
                        ELSE IF attempt[b].pc = "pending" THEN [attempt[b] EXCEPT !.pc = "done"]
                        ELSE attempt[b]]
    BY <1>3, <1>4, <1>12 DEF AdmitInstall
  <2>2. \A b \in Attempt : b # a => attempt[b].pc # "pending"
    BY <1>3 DEF Live
  <2>3. GoTo(a, "pending")
    BY <1>1, <2>1, <2>2 DEF GoTo, TypeOK
  <2> QED
    BY <1>3, <1>6, <2>1, <2>3
<1>13. CASE InstallSession(a)
  BY <1>3, <1>4, <1>6, <1>13 DEF InstallSession
<1> QED
  BY <1>7, <1>8, <1>9, <1>10, <1>11, <1>12, <1>13 DEF AttemptStep

-----------------------------------------------------------------------------
(* The whole invariant, and what follows from it.                          *)

\* and every step does.
LEMMA StepKeepsIInv == IInv /\ [Next]_vars => IInv'
<1> SUFFICES ASSUME IInv, [Next]_vars PROVE ConnectionInv'
  BY StepKeepsJobInv DEF IInv
<1>1. CASE UNCHANGED vars
  BY <1>1 DEF vars, model, loop, shared, workers, IInv, ConnectionInv, OneAttempt, SlotsFollow,
     WorkersUseTheSession, Asking, Live, Busy
<1>2. CASE UserAction
  BY <1>2, UserActionKeepsConnectionInv
<1>3. CASE ReduceMessage
  BY <1>3, ReduceKeepsConnectionInv
<1>4. CASE PerformEffect
  BY <1>4, PerformKeepsConnectionInv
<1>5. CASE Quit \/ SessionDies
  BY <1>5 DEF Quit, SessionDies, model, loop, shared, workers, IInv, ConnectionInv, OneAttempt,
     SlotsFollow, WorkersUseTheSession, Asking, Live, Busy
<1>6. ASSUME NEW a \in Attempt, AttemptStep(a) \/ AdmitInstall(a) \/ InstallSession(a)
      PROVE  ConnectionInv'
  BY <1>6, AttemptKeepsConnectionInv
<1>7. ASSUME NEW j \in Job, TaskStep(j) \/ CancelStep(j)
      PROVE  ConnectionInv'
  BY <1>7, TaskStepKeepsConnectionInv, CancelStepKeepsConnectionInv
<1> QED
  BY <1>1, <1>2, <1>3, <1>4, <1>5, <1>6, <1>7 DEF Next, Ended

\* The invariant of the connections holds: attempts, sessions and queued answers agree on the
\* generation (session.rs).
THEOREM IInvHolds == Spec => []IInv
<1>1. Init => IInv
  BY InitJobInv, InitConnectionInv DEF IInv
<1> QED
  BY <1>1, StepKeepsIInv, PTL DEF Spec

\* The result on screen was produced in this connection generation, on the session
\* that is still installed.
THEOREM ResultsBelongToTheConnection == Spec => []ResultOfThisConnection
<1>1. IInv => ResultOfThisConnection
  BY DEF IInv, ConnectionInv, WorkersUseTheSession, ResultOfThisConnection
<1> QED
  BY <1>1, IInvHolds, PTL

\* A client that says it is connected has a session of this generation to run
\* statements on, so no statement is swallowed by an empty slot.
THEOREM ConnectedClientsHaveSessions == Spec => []ConnectedHasSession
<1>1. IInv => ConnectedHasSession
  <2> SUFFICES ASSUME IInv, conn = "connected"
               PROVE  slot # None /\ attempt[slot].gen = gen
    BY DEF ConnectedHasSession
  <2>1. effect.kind # "connectProfile"
    BY DEF IInv, ConnectionInv, OneAttempt, Asking
  <2> QED
    BY <2>1 DEF IInv, JobInv, GenerationsAgree, ConnectionInv, SlotsFollow
<1> QED
  BY <1>1, IInvHolds, PTL

\* An open password prompt can be answered: the target to retry with is held.
THEOREM PasswordPromptsCanRetry == Spec => []PromptCanRetry
<1>1. IInv => PromptCanRetry
  <2> SUFFICES ASSUME IInv, prompt
               PROVE  target = gen
    BY DEF PromptCanRetry
  <2>1. conn = "failed" /\ target = rgen
    BY DEF IInv, ConnectionInv, SlotsFollow
  <2>2. effect.kind # "connectProfile"
    BY <2>1 DEF IInv, ConnectionInv, OneAttempt, Asking
  <2> QED
    BY <2>1, <2>2 DEF IInv, JobInv, GenerationsAgree
<1> QED
  BY <1>1, IInvHolds, PTL

-----------------------------------------------------------------------------
(* The inductive invariant, beside IInv.                                   *)

Answers  == {"executionFinished", "planFinished"}
Alive(j) == task[j].pc \notin {"none", "done"}

\* A worker that has not answered is that of the job in flight.
WorkersAreInFlight ==
    \A j \in Job : Alive(j) => Busy /\ phase.job = j /\ task[j].gen = gen

\* The news of a lost connection is that of the job in flight, which is still the one
\* in flight when it is taken, and it comes before the answer of that job.
LossIsOfTheJob ==
    \A i \in 1 .. Len(inbox) : inbox[i].kind = "connectionLost" =>
        /\ inbox[i].gen <= rgen
        /\ inbox[i].gen = gen =>
             /\ Busy /\ task[phase.job].pc = "done"
             /\ \A k \in 1 .. Len(inbox) :
                  /\ inbox[k].kind = "connectionLost" /\ inbox[k].gen = gen => k = i
                  /\ inbox[k].kind \in Answers /\ inbox[k].job = phase.job => i < k

\* An answer to the job in flight is on its way.
Answered ==
    \E i \in 1 .. Len(inbox) :
        inbox[i].gen = gen /\ inbox[i].kind \in Answers /\ inbox[i].job = phase.job

\* The job in flight is still to be spawned, at work, or answered.
JobIsAttended == Busy => effect.kind \in {"run", "explain"} \/ Alive(phase.job) \/ Answered

\* No review is open but one, where nothing runs.
ReviewsAreAlone ==
    /\ review = {} \/ \E owner \in Owners : review = {owner}
    /\ review # {} => Usable /\ ~Busy

WorkInv ==
    /\ WorkersAreInFlight
    /\ LossIsOfTheJob
    /\ JobIsAttended
    /\ ReviewsAreAlone

\* The invariant of the work holds at the start,
LEMMA InitWorkInv == Init => WorkInv
<1> SUFFICES ASSUME Init PROVE WorkInv
  OBVIOUS
<1>1. ~Busy /\ inbox = <<>> /\ review = {} /\ \A j \in Job : ~Alive(j)
  BY DEF Init, Busy, Idle, Alive, NoTask
<1> QED
  BY <1>1 DEF WorkInv, WorkersAreInFlight, LossIsOfTheJob, JobIsAttended, ReviewsAreAlone

\* What the invariants say of the job in flight: the connection is up, the reducer and
\* the loop agree on its generation, and there is a session to run on.
LEMMA InFlight ==
    ASSUME IInv, WorkInv, Busy
    PROVE  /\ conn = "connected" /\ phase.job \in Job /\ gen = rgen /\ slot # None
           /\ review = {} /\ ~prompt
<1>1. /\ TypeOK /\ PhaseNamesItsJob /\ GenerationsAgree /\ OneAttempt /\ SlotsFollow
      /\ ReviewsAreAlone
  BY DEF IInv, JobInv, ConnectionInv, WorkInv
<1>2. conn = "connected" /\ slot # None /\ ~prompt
  BY <1>1 DEF SlotsFollow
<1>3. phase.job \in Job
  BY <1>1 DEF PhaseNamesItsJob, TypeOK, Phases
<1>4. gen = rgen
  BY <1>1, <1>2 DEF OneAttempt, Asking, GenerationsAgree
<1>5. review = {}
  BY <1>1 DEF ReviewsAreAlone
<1> QED
  BY <1>2, <1>3, <1>4, <1>5

\* With nothing in flight there is no worker, and no news of a loss that the reducer
\* would take.
LEMMA NothingInFlight ==
    ASSUME WorkInv, ~Busy
    PROVE  /\ \A j \in Job : ~Alive(j)
           /\ \A i \in 1 .. Len(inbox) :
                inbox[i].kind = "connectionLost" => inbox[i].gen # gen /\ inbox[i].gen <= rgen
BY DEF WorkInv, WorkersAreInFlight, LossIsOfTheJob

-----------------------------------------------------------------------------
(* A person's actions.                                                     *)

\* A review that is closed leaves none open, and one is opened only where none is.
LEMMA UserActionReviews ==
    ASSUME IInv, WorkInv, UserAction
    PROVE  ReviewsAreAlone' /\ (~UNCHANGED phase \/ ~UNCHANGED conn => review' = {})
<1>1. /\ TypeOK /\ ReviewsAreAlone /\ (prompt => ~Usable)
  BY DEF IInv, JobInv, ConnectionInv, WorkInv, SlotsFollow, Usable
<1>2. ASSUME StartWithParameters({}) \/ Start({}) \/ StartPlan({})
      PROVE  /\ review' \in {{}, {"parameter_prompt"}} /\ UNCHANGED conn
             /\ review' # {} => Usable /\ ~Busy /\ UNCHANGED phase
             /\ ~UNCHANGED phase => review' = {}
  BY <1>2 DEF Start, StartWithParameters, StartPlan
<1>3. ASSUME StartWithParameters({}) \/ Start({}) \/ StartPlan({})
      PROVE  ReviewsAreAlone' /\ (~UNCHANGED phase \/ ~UNCHANGED conn => review' = {})
  BY <1>2, <1>3 DEF ReviewsAreAlone, Owners, Usable, Busy
<1>4. ASSUME NEW owner \in Owners, TopReview(owner)
      PROVE  review \ {owner} = {} /\ Usable /\ ~Busy
  BY <1>1, <1>4 DEF TopReview, ReviewsAreAlone
<1>5. CASE Run
  BY <1>3, <1>5 DEF Run
<1>6. CASE HoldForReview
  BY <1>6 DEF HoldForReview, ReviewsAreAlone, Owners, Usable, Busy
<1>7. CASE BeginPlan
  <2>1. CASE StartPlan({})
    BY <1>3, <2>1
  <2>2. CASE ~StartPlan({})
    BY <1>7, <2>2 DEF BeginPlan, ReviewsAreAlone, Owners, Usable, Busy
  <2> QED
    BY <2>1, <2>2
<1>8. CASE ConfirmRun
  <2>1. review \ {"pending_run"} = {} /\ Start(review \ {"pending_run"})
    BY <1>4, <1>8 DEF ConfirmRun, Owners
  <2> QED
    BY <1>3, <2>1
<1>9. CASE AcceptParameters
  <2>1. review \ {"parameter_prompt"} = {} /\ StartWithParameters(review \ {"parameter_prompt"})
    BY <1>4, <1>9 DEF AcceptParameters, Owners
  <2> QED
    BY <1>3, <2>1
<1>10. CASE ConfirmPlan
  <2>1. review \ {"pending_plan"} = {} /\ StartPlan(review \ {"pending_plan"})
    BY <1>4, <1>10 DEF ConfirmPlan, Owners
  <2> QED
    BY <1>3, <2>1
<1>11. CASE DismissReview
  <2>1. review' = {} /\ UNCHANGED <<conn, phase>>
    BY <1>4, <1>11 DEF DismissReview
  <2> QED
    BY <2>1 DEF ReviewsAreAlone
<1>12. CASE CancelQuery \/ BeginConnection
  <2>1. review' = {}
    BY <1>12 DEF CancelQuery, BeginConnection, BaseInput
  <2> QED
    BY <2>1 DEF ReviewsAreAlone
<1>13. CASE SubmitPassword \/ DismissPassword
  <2>1. review' = {}
    BY <1>1, <1>13 DEF SubmitPassword, DismissPassword, ReviewsAreAlone
  <2> QED
    BY <2>1 DEF ReviewsAreAlone
<1> QED
  BY <1>5, <1>6, <1>7, <1>8, <1>9, <1>10, <1>11, <1>12, <1>13 DEF UserAction

\* what the person does keeps it,
LEMMA UserActionKeepsWorkInv ==
    ASSUME IInv, WorkInv, UserAction
    PROVE  WorkInv'
<1>1. /\ TypeOK /\ effect = NoEffect /\ UNCHANGED <<task, inbox, rgen>> /\ gen = rgen
      /\ \A j \in Job : Alive(j)' <=> Alive(j)
  BY DEF IInv, JobInv, GenerationsAgree, UserAction, Quiet, NoEffect, shared, workers, Alive
<1>2. WorkersAreInFlight /\ LossIsOfTheJob /\ JobIsAttended
  BY DEF WorkInv
<1>3. CASE ReviewsChange \/ CancelQuery \/ SubmitPassword \/ DismissPassword
  <2>1. Busy' = Busy /\ phase'.job = phase.job /\ UNCHANGED gen
    BY <1>1, <1>3 DEF ReviewsChange, CancelQuery, SubmitPassword, DismissPassword, Busy, TypeOK,
       Phases
  <2>2. WorkersAreInFlight' /\ LossIsOfTheJob'
    BY <1>1, <1>2, <2>1 DEF WorkersAreInFlight, LossIsOfTheJob
  <2>3. JobIsAttended'
    BY <1>1, <1>2, <2>1, InFlight DEF JobIsAttended, Answered, NoEffect, Alive
  <2> QED
    BY <2>2, <2>3, UserActionReviews DEF WorkInv
<1>4. CASE Submits("run") \/ Submits("explain")
  <2>1. ~Busy /\ effect'.kind \in {"run", "explain"} /\ UNCHANGED gen
    BY <1>4 DEF Submits
  <2>2. WorkersAreInFlight' /\ LossIsOfTheJob'
    BY <1>1, <2>1, NothingInFlight DEF WorkersAreInFlight, LossIsOfTheJob
  <2>3. JobIsAttended'
    BY <2>1 DEF JobIsAttended
  <2> QED
    BY <2>2, <2>3, UserActionReviews DEF WorkInv
<1>5. CASE BeginConnection
  <2>1. ~Busy /\ ~Busy' /\ gen' = rgen + 1 /\ rgen \in Nat
    BY <1>1, <1>5 DEF BeginConnection, Busy, Idle, TypeOK, Generation
  <2>2. \A i \in 1 .. Len(inbox) : inbox[i] \in Messages
    BY <1>1 DEF TypeOK
  <2>3. \A i \in 1 .. Len(inbox) : inbox[i].gen \in Nat
    BY <2>2 DEF Messages, Generation
  <2>4. WorkersAreInFlight' /\ LossIsOfTheJob' /\ JobIsAttended'
    BY <1>1, <2>1, <2>3, NothingInFlight DEF WorkersAreInFlight, LossIsOfTheJob, JobIsAttended
  <2> QED
    BY <2>4, UserActionReviews DEF WorkInv
<1> QED
  BY <1>1, <1>3, <1>4, <1>5, UserActionCases

-----------------------------------------------------------------------------
(* Answers taken.                                                          *)

\* The answer to the job in flight, and the news that its connection is gone, are
\* never dropped by the reducer, and the job ends with them.
LEMMA ReduceKeepsWorkInv ==
    ASSUME IInv, WorkInv, ReduceMessage
    PROVE  WorkInv'
<1> DEFINE m == Head(inbox)
<1>1. /\ TypeOK /\ AnswersComeFromWorkers /\ JobIsPlanOrRun /\ OneAttempt
      /\ WorkersAreInFlight /\ LossIsOfTheJob /\ JobIsAttended /\ ReviewsAreAlone
      /\ effect = NoEffect /\ gen = rgen
  BY DEF IInv, JobInv, ConnectionInv, WorkInv, ReduceMessage, Quiet, NoEffect, GenerationsAgree
<1>2. /\ UNCHANGED <<effect, rgen, task>>
      /\ \A j \in Job : Alive(j)' <=> Alive(j)
  BY DEF ReduceMessage, loop, workers, Alive
<1>3. /\ m \in Messages /\ m = inbox[1] /\ 1 \in 1 .. Len(inbox)
      /\ \A i \in 1 .. Len(inbox') :
           i \in Nat /\ i + 1 \in 1 .. Len(inbox) /\ inbox'[i] = inbox[i + 1]
  BY <1>1, TakenFromTheQueue
<1>4. inbox \in Seq(Messages) /\ Len(inbox) \in Nat /\ Len(inbox') \in Nat
      /\ Len(inbox') = Len(inbox) - 1
  <2>1. inbox \in Seq(Messages) /\ inbox # <<>> /\ inbox' = Tail(inbox)
    BY <1>1 DEF TypeOK, ReduceMessage
  <2> QED
    BY <2>1
\* Where nothing is in flight before or after.
<1>5. ASSUME ~Busy, ~Busy', UNCHANGED gen
      PROVE  WorkersAreInFlight' /\ LossIsOfTheJob' /\ JobIsAttended'
  BY <1>2, <1>3, <1>5, NothingInFlight DEF WorkersAreInFlight, LossIsOfTheJob, JobIsAttended
\* Where the job in flight ends.
<1>6. ASSUME ~Busy', UNCHANGED gen, Busy, m.gen = gen,
             \/ m.kind = "connectionLost"
             \/ m.kind \in Answers /\ m.job = phase.job
      PROVE  WorkersAreInFlight' /\ LossIsOfTheJob' /\ JobIsAttended'
  <2>1. phase.job \in Job /\ task[phase.job].pc = "done"
    BY <1>1, <1>3, <1>6, InFlight DEF LossIsOfTheJob, AnswersComeFromWorkers, Answers
  <2>2. WorkersAreInFlight'
    BY <1>1, <1>2, <2>1 DEF WorkersAreInFlight, Alive
  <2>3. \A i \in 1 .. Len(inbox') : inbox'[i].kind = "connectionLost" =>
          inbox'[i].gen <= rgen /\ inbox'[i].gen # gen
    <3> SUFFICES ASSUME NEW i \in 1 .. Len(inbox'), inbox'[i].kind = "connectionLost"
                 PROVE  inbox'[i].gen <= rgen /\ inbox'[i].gen # gen
      OBVIOUS
    <3>1. i \in Nat /\ i + 1 \in 1 .. Len(inbox) /\ inbox[i + 1] = inbox'[i] /\ i >= 1
      BY <1>3
    <3>2. inbox[i + 1].gen <= rgen
      BY <1>1, <3>1 DEF LossIsOfTheJob
    <3>3. ASSUME inbox[i + 1].gen = gen PROVE FALSE
      <4>1. /\ inbox[1].kind = "connectionLost" /\ inbox[1].gen = gen => 1 = i + 1
            /\ inbox[1].kind \in Answers /\ inbox[1].job = phase.job => i + 1 < 1
        BY <1>1, <1>3, <3>1, <3>3 DEF LossIsOfTheJob
      <4> QED
        BY <1>3, <1>6, <3>1, <4>1
    <3> QED
      BY <3>1, <3>2, <3>3
  <2> QED
    BY <1>2, <1>6, <2>2, <2>3 DEF LossIsOfTheJob, JobIsAttended
\* Where the job in flight stays, and what is taken is not about it.
<1>7. ASSUME UNCHANGED <<gen, phase>>, Busy,
             m.gen = gen => ~(m.kind \in Answers /\ m.job = phase.job)
      PROVE  WorkersAreInFlight' /\ LossIsOfTheJob' /\ JobIsAttended'
  <2>1. WorkersAreInFlight'
    BY <1>1, <1>2, <1>7 DEF WorkersAreInFlight, Busy
  <2>2. LossIsOfTheJob'
    <3> SUFFICES ASSUME NEW i \in 1 .. Len(inbox'), inbox'[i].kind = "connectionLost"
                 PROVE  /\ inbox'[i].gen <= rgen
                        /\ inbox'[i].gen = gen =>
                             /\ task[phase.job].pc = "done"
                             /\ \A k \in 1 .. Len(inbox') :
                                  /\ inbox'[k].kind = "connectionLost" /\ inbox'[k].gen = gen => k = i
                                  /\ inbox'[k].kind \in Answers /\ inbox'[k].job = phase.job => i < k
      BY <1>2, <1>7 DEF LossIsOfTheJob, Busy
    <3>1. i \in Nat /\ i + 1 \in 1 .. Len(inbox) /\ inbox[i + 1] = inbox'[i]
      BY <1>3
    <3>2. inbox[i + 1].gen <= rgen
      BY <1>1, <3>1 DEF LossIsOfTheJob
    <3>3. ASSUME inbox[i + 1].gen = gen
          PROVE  /\ task[phase.job].pc = "done"
                 /\ \A k \in 1 .. Len(inbox) :
                      /\ inbox[k].kind = "connectionLost" /\ inbox[k].gen = gen => k = i + 1
                      /\ inbox[k].kind \in Answers /\ inbox[k].job = phase.job => i + 1 < k
      BY <1>1, <3>1, <3>3 DEF LossIsOfTheJob
    <3>4. ASSUME inbox[i + 1].gen = gen, NEW k \in 1 .. Len(inbox')
          PROVE  /\ inbox'[k].kind = "connectionLost" /\ inbox'[k].gen = gen => k = i
                 /\ inbox'[k].kind \in Answers /\ inbox'[k].job = phase.job => i < k
      <4>1. k \in Nat /\ k + 1 \in 1 .. Len(inbox) /\ inbox[k + 1] = inbox'[k]
        BY <1>3
      <4> QED
        BY <3>1, <3>3, <3>4, <4>1
    <3> QED
      BY <3>1, <3>2, <3>3, <3>4
  <2>3. JobIsAttended'
    <3>1. CASE Alive(phase.job)
      BY <1>2, <1>7, <3>1, InFlight DEF JobIsAttended, Alive
    <3>2. CASE Answered
      <4>1. PICK i \in 1 .. Len(inbox) :
              inbox[i].gen = gen /\ inbox[i].kind \in Answers /\ inbox[i].job = phase.job
        BY <3>2 DEF Answered
      <4>2. i # 1 /\ i \in Nat
        BY <1>3, <1>7, <4>1
      <4>3. i - 1 \in 1 .. Len(inbox') /\ (i - 1) + 1 = i
        BY <1>4, <4>2
      <4>4. inbox'[i - 1] = inbox[i]
        BY <1>3, <4>3
      <4> QED
        BY <1>7, <4>1, <4>3, <4>4 DEF JobIsAttended, Answered
    <3> QED
      BY <1>1, <1>7, <3>1, <3>2 DEF JobIsAttended, NoEffect
  <2> QED
    BY <2>1, <2>2, <2>3
<1>8. CASE HandleConnectionLost /\ m.kind = "connectionLost" /\ m.gen = gen
  <2>1. ~Busy' /\ review' = {} /\ UNCHANGED gen
    BY <1>8 DEF HandleConnectionLost, Busy, Idle
  <2> QED
    BY <1>5, <1>6, <1>8, <2>1 DEF WorkInv, ReviewsAreAlone
<1>9. CASE /\ HandleConnectionFailed(m.kind) \/ HandleConnectingStep \/ HandleConnected
           /\ m.kind \in Settling \cup {"connectingStep"}
  <2>1. conn = "connecting"
    BY <1>1, <1>3, <1>9 DEF OneAttempt
  <2>2. ~Busy /\ review = {}
    BY <1>1, <2>1, InFlight DEF ReviewsAreAlone, Usable
  <2>3. ~Busy' /\ review' = {} /\ UNCHANGED gen
    BY <1>9, <2>2 DEF HandleConnectionFailed, HandleConnectingStep, HandleConnected, Busy, Idle
  <2> QED
    BY <1>5, <2>2, <2>3 DEF WorkInv, ReviewsAreAlone
<1>10. CASE ~UNCHANGED model /\ m.gen = gen
            /\ \/ m.kind = "executionFinished" /\ HandleExecutionFinished(m.job)
               \/ m.kind = "planFinished" /\ HandlePlanFinished(m.job)
  <2>1. /\ Busy /\ m.job = phase.job /\ m.kind \in Answers
        /\ ~Busy' /\ UNCHANGED <<gen, review>>
    BY <1>10 DEF HandleExecutionFinished, HandlePlanFinished, Answers, Busy, Idle
  <2>2. review = {}
    BY <1>1, <2>1 DEF ReviewsAreAlone
  <2> QED
    BY <1>6, <1>10, <2>1, <2>2 DEF WorkInv, ReviewsAreAlone
<1>11. CASE /\ UNCHANGED model
            /\ m.gen = gen => \/ m.kind = "executionFinished" /\ HandleExecutionFinished(m.job)
                              \/ m.kind = "planFinished" /\ HandlePlanFinished(m.job)
  <2>1. UNCHANGED <<gen, conn, phase, review>> /\ Busy' = Busy
    BY <1>11 DEF model, Busy
  <2>2. ReviewsAreAlone'
    BY <1>1, <2>1 DEF ReviewsAreAlone, Usable
  <2>3. ASSUME Busy, m.gen = gen, m.kind \in Answers, m.job = phase.job
        PROVE  FALSE
    <3>1. m.kind = "planFinished" => plan = m.job
      BY <1>1, <1>3, <2>3 DEF AnswersComeFromWorkers, JobIsPlanOrRun, Begun, NoEffect
    <3>2. phase' = Idle
      BY <1>11, <2>3, <3>1 DEF HandleExecutionFinished, HandlePlanFinished, Answers
    <3> QED
      BY <2>1, <2>3, <3>2 DEF Busy, Idle
  <2> QED
    BY <1>5, <1>7, <2>1, <2>2, <2>3 DEF WorkInv
<1>12. (UNCHANGED model /\ m.gen # gen) \/ (Handle(m) /\ m.gen = gen)
  BY DEF ReduceMessage, AcceptEnvelope
<1>13. m.kind \in {"connectingStep", "connected", "connectFailed", "authFailed",
                   "connectionLost", "executionFinished", "planFinished"}
  BY <1>3 DEF Messages
<1> QED
  BY <1>8, <1>9, <1>10, <1>11, <1>12, <1>13 DEF Handle, Settling

-----------------------------------------------------------------------------
(* Effects performed.                                                      *)

\* and so does what the loop does for an effect,
LEMMA PerformKeepsWorkInv ==
    ASSUME IInv, WorkInv, PerformEffect
    PROVE  WorkInv'
<1>1. /\ TypeOK /\ PhaseNamesItsJob /\ GenerationsAgree /\ EffectStartsTheJob
      /\ WorkersAreInFlight /\ LossIsOfTheJob /\ JobIsAttended /\ ReviewsAreAlone
  BY DEF IInv, JobInv, WorkInv
<1>2. /\ UNCHANGED <<gen, conn, phase, review, inbox>> /\ Busy' = Busy
  BY DEF PerformEffect, PerformConnectProfile, PerformReconnect, PerformExecute, PerformCancel,
         model, shared, Busy
<1>3. ReviewsAreAlone'
  BY <1>1, <1>2 DEF ReviewsAreAlone, Usable
<1>4. CASE PerformConnectProfile
  <2>1. ~Busy
    BY <1>4, InFlight DEF IInv, ConnectionInv, OneAttempt, Asking, PerformConnectProfile
  <2>2. rgen' = rgen + 1 /\ rgen \in Nat /\ UNCHANGED task
    BY <1>1, <1>4 DEF PerformConnectProfile, TypeOK, Generation
  <2>3. \A i \in 1 .. Len(inbox) : inbox[i] \in Messages
    BY <1>1 DEF TypeOK
  <2>4. \A i \in 1 .. Len(inbox) : inbox[i].gen \in Nat
    BY <2>3 DEF Messages, Generation
  <2> QED
    BY <1>2, <1>3, <2>1, <2>2, <2>4, NothingInFlight
       DEF WorkInv, WorkersAreInFlight, LossIsOfTheJob, JobIsAttended, Alive
<1>5. CASE PerformReconnect \/ PerformCancel
  <2>1. UNCHANGED <<task, rgen>> /\ effect.kind \notin {"run", "explain"}
    BY <1>5 DEF PerformReconnect, PerformCancel, shared
  <2> QED
    BY <1>1, <1>2, <1>3, <2>1
       DEF WorkInv, WorkersAreInFlight, LossIsOfTheJob, JobIsAttended, Answered, Alive
<1>6. CASE PerformExecute
  <2>1. /\ effect.job \in Job /\ phase.job = effect.job /\ task[effect.job].pc = "none"
        /\ gen = rgen /\ UNCHANGED rgen /\ Busy
    BY <1>1, <1>6
       DEF PerformExecute, EffectStartsTheJob, GenerationsAgree, shared, PhaseNamesItsJob, Job, None
  <2>2. /\ task'[effect.job].pc = "spawned" /\ task'[effect.job].gen = rgen
        /\ \A j \in Job : j # effect.job => task'[j] = task[j]
    BY <1>1, <1>6, <2>1 DEF PerformExecute, TypeOK, NoTask
  <2>3. WorkersAreInFlight'
    BY <1>1, <1>2, <2>1, <2>2 DEF WorkersAreInFlight, Alive
  <2>4. LossIsOfTheJob'
    BY <1>1, <1>2, <2>1 DEF LossIsOfTheJob
  <2>5. JobIsAttended'
    BY <1>2, <2>1, <2>2 DEF JobIsAttended, Alive
  <2> QED
    BY <1>3, <2>3, <2>4, <2>5 DEF WorkInv
<1> QED
  BY <1>4, <1>5, <1>6 DEF PerformEffect

-----------------------------------------------------------------------------
(* Connection attempts.                                                    *)

\* While an attempt is under way nothing is in flight, and it says nothing of a loss.
LEMMA AttemptKeepsWorkInv ==
    ASSUME IInv, WorkInv, NEW a \in Attempt,
           AttemptStep(a) \/ AdmitInstall(a) \/ InstallSession(a)
    PROVE  WorkInv'
<1>1. /\ TypeOK /\ OneAttempt /\ ReviewsAreAlone
  BY DEF IInv, JobInv, ConnectionInv, WorkInv
<1>2. UNCHANGED <<model, loop, rgen, task>> /\ Live(a)
  BY DEF AttemptStep, AdmitInstall, InstallSession, PrepareTarget, StartAttempt, OpenSession,
         RefuseSession, AnnounceSession, shared, Live
<1>3. conn = "connecting" /\ ~Busy /\ ~Busy'
  BY <1>1, <1>2, InFlight DEF OneAttempt, model, Busy
<1>4. \/ UNCHANGED inbox
      \/ \E kind \in Settling \cup {"connectingStep"} :
           Send(<<Envelope(kind, attempt[a].gen, None)>>)
  BY DEF AdmitInstall, InstallSession, AttemptStep, PrepareTarget, StartAttempt, OpenSession,
         RefuseSession, AnnounceSession, shared, Settling
<1>5. \A i \in 1 .. Len(inbox') : inbox'[i].kind = "connectionLost" =>
        i \in 1 .. Len(inbox) /\ inbox'[i] = inbox[i]
  <2>1. ASSUME NEW kind \in Settling \cup {"connectingStep"},
               Send(<<Envelope(kind, attempt[a].gen, None)>>)
        PROVE  \A i \in 1 .. Len(inbox') : inbox'[i].kind = "connectionLost" =>
                 i \in 1 .. Len(inbox) /\ inbox'[i] = inbox[i]
    <3>1. /\ Envelope(kind, attempt[a].gen, None) \in Messages
          /\ Envelope(kind, attempt[a].gen, None).kind # "connectionLost"
      BY <1>1 DEF TypeOK, Attempts, Messages, Envelope, Settling
    <3> QED
      BY <1>1, <2>1, <3>1, SendOne
  <2> QED
    BY <1>4, <2>1
<1>6. WorkersAreInFlight' /\ LossIsOfTheJob' /\ JobIsAttended'
  BY <1>2, <1>3, <1>5, NothingInFlight
     DEF WorkersAreInFlight, LossIsOfTheJob, JobIsAttended, Alive, model
<1>7. ReviewsAreAlone'
  BY <1>1, <1>2, <1>3 DEF ReviewsAreAlone, Usable, model
<1> QED
  BY <1>6, <1>7 DEF WorkInv

-----------------------------------------------------------------------------
(* Workers.                                                                *)

\* A worker of this generation that finds a session in the slot goes on or answers: its
\* early returns are never taken.
LEMMA WorkersAnswer ==
    ASSUME TypeOK, NEW j \in Job, TaskStep(j), task[j].gen = rgen, slot # None
    PROVE  \/ task'[j].pc # "done" /\ UNCHANGED inbox
           \/ Send(<<Envelope("planFinished", rgen, j)>>)
           \/ Send(<<Envelope("executionFinished", rgen, j)>>)
           \/ Send(<<Envelope("connectionLost", rgen, None), Envelope("executionFinished", rgen, j)>>)
<1>1. task \in [Job -> Tasks] /\ task[j] \in Tasks /\ Current(task[j].gen)
  BY DEF TypeOK, Current
<1>2. CASE ReadSlot(j)
  <2>1. task' = [task EXCEPT ![j].pc = "ready", ![j].sess = slot] /\ UNCHANGED inbox
    BY <1>1, <1>2 DEF ReadSlot
  <2> QED
    BY <1>1, <2>1 DEF Tasks
<1>3. CASE EnterSession(j) \/ TakeGate(j)
  BY <1>1, <1>3 DEF EnterSession, TakeGate, Tasks
<1>4. CASE EndStatement(j)
  <2>1. \/ \E out \in {"succeeded", "failed"} :
             task' = [task EXCEPT ![j].pc = "probing", ![j].out = out]
        \/ task' = [task EXCEPT ![j].pc = "answered", ![j].out = "lost", ![j].txn = "unknown"]
    BY <1>4 DEF EndStatement
  <2> QED
    BY <1>1, <1>4, <2>1 DEF EndStatement, Tasks
<1>5. CASE ProbeTransaction(j)
  <2>1. PICK t \in TxnStates : task' = [task EXCEPT ![j].pc = "answered", ![j].txn = t]
    BY <1>5 DEF ProbeTransaction
  <2> QED
    BY <1>1, <1>5, <2>1 DEF ProbeTransaction
<1>6. CASE Answer(j)
  BY <1>1, <1>6 DEF Answer, Finish
<1> QED
  BY <1>2, <1>3, <1>4, <1>5, <1>6 DEF TaskStep

\* What a worker's move leaves alone, whatever becomes of the queue.
LEMMA WorkerMovesKeepsWork ==
    ASSUME IInv, WorkInv, NEW j \in Job, WorkerMoves(j), UNCHANGED <<model, loop, rgen>>
    PROVE  /\ WorkersAreInFlight' /\ ReviewsAreAlone'
           /\ Busy /\ Busy' /\ phase.job = j /\ phase'.job = j
           /\ task[j].gen = gen /\ gen = rgen /\ gen' = gen
           /\ \A i \in 1 .. Len(inbox) : inbox[i].kind = "connectionLost" =>
                inbox[i].gen # gen /\ inbox[i].gen <= rgen
           /\ \A i \in 1 .. Len(inbox) : inbox[i].kind \in Answers => inbox[i].job # j
<1>1. /\ WorkersAreInFlight /\ LossIsOfTheJob /\ ReviewsAreAlone /\ AnswersComeFromWorkers
  BY DEF IInv, JobInv, WorkInv
<1>2. /\ Alive(j) /\ task'[j].gen = task[j].gen /\ \A k \in Job : k # j => task'[k] = task[k]
  BY DEF WorkerMoves, Alive
<1>3. /\ Busy /\ Busy' /\ phase.job = j /\ phase'.job = j /\ task[j].gen = gen /\ gen' = gen
      /\ UNCHANGED <<conn, review>>
  BY <1>1, <1>2 DEF WorkersAreInFlight, model, Busy
<1>4. gen = rgen
  BY <1>3, InFlight
<1>5. WorkersAreInFlight' /\ ReviewsAreAlone'
  BY <1>1, <1>2, <1>3 DEF WorkersAreInFlight, ReviewsAreAlone, Usable, Alive
<1>6. /\ \A i \in 1 .. Len(inbox) : inbox[i].kind = "connectionLost" =>
           inbox[i].gen # gen /\ inbox[i].gen <= rgen
      /\ \A i \in 1 .. Len(inbox) : inbox[i].kind \in Answers => inbox[i].job # j
  BY <1>1, <1>2, <1>3 DEF LossIsOfTheJob, AnswersComeFromWorkers, Answers, Alive
<1> QED
  BY <1>3, <1>4, <1>5, <1>6

\* a step of a worker,
LEMMA TaskStepKeepsWorkInv ==
    ASSUME IInv, WorkInv, NEW j \in Job, TaskStep(j)
    PROVE  WorkInv'
<1> DEFINE plan1 == Envelope("planFinished", rgen, j)
           done1 == Envelope("executionFinished", rgen, j)
           lost1 == Envelope("connectionLost", rgen, None)
<1>1. TypeOK /\ inbox \in Seq(Messages) /\ rgen \in Generation
  BY DEF IInv, JobInv, TypeOK
<1>2. WorkerMoves(j) /\ UNCHANGED <<model, loop, rgen, slot>>
  BY <1>1, TaskStepCases
<1>3. /\ WorkersAreInFlight' /\ ReviewsAreAlone'
      /\ Busy /\ Busy' /\ phase.job = j /\ phase'.job = j
      /\ task[j].gen = gen /\ gen = rgen /\ gen' = gen
      /\ \A i \in 1 .. Len(inbox) : inbox[i].kind = "connectionLost" =>
           inbox[i].gen # gen /\ inbox[i].gen <= rgen
      /\ \A i \in 1 .. Len(inbox) : inbox[i].kind \in Answers => inbox[i].job # j
  BY <1>2, WorkerMovesKeepsWork
<1>4. slot # None
  BY <1>3, InFlight
<1>5. /\ plan1 \in Messages /\ done1 \in Messages /\ lost1 \in Messages
      /\ plan1.kind = "planFinished" /\ plan1.job = j /\ plan1.gen = rgen
      /\ lost1.kind = "connectionLost" /\ lost1.gen = rgen
      /\ done1.kind = "executionFinished" /\ done1.job = j /\ done1.gen = rgen
  BY <1>1 DEF Messages, Envelope
<1>6. CASE task'[j].pc # "done" /\ UNCHANGED inbox
  <2>1. LossIsOfTheJob'
    BY <1>2, <1>3, <1>6 DEF LossIsOfTheJob
  <2>2. JobIsAttended'
    BY <1>2, <1>3, <1>6 DEF JobIsAttended, Alive, WorkerMoves
  <2> QED
    BY <1>3, <2>1, <2>2 DEF WorkInv
<1>7. ASSUME NEW e \in {plan1, done1}, Send(<<e>>)
      PROVE  WorkInv'
  <2> HIDE DEF plan1, done1, lost1
  <2>1. /\ Len(inbox) \in Nat /\ Len(inbox') = Len(inbox) + 1
        /\ \A i \in 1 .. Len(inbox) : inbox'[i] = inbox[i]
        /\ inbox'[Len(inbox) + 1] = e
    BY <1>1, <1>5, <1>7, QueueSend DEF Send
  <2>2. \A i \in 1 .. Len(inbox') : i \in 1 .. Len(inbox) \/ inbox'[i] = e
    BY <2>1
  <2>3. LossIsOfTheJob'
    BY <1>2, <1>3, <1>5, <2>1, <2>2 DEF LossIsOfTheJob
  <2>4. Len(inbox) + 1 \in 1 .. Len(inbox')
    BY <2>1
  <2>5. JobIsAttended'
    BY <1>3, <1>5, <2>1, <2>4 DEF JobIsAttended, Answered, Answers
  <2> QED
    BY <1>3, <2>3, <2>5 DEF WorkInv
<1>8. CASE Send(<<lost1, done1>>) /\ task'[j].pc = "done"
  <2> HIDE DEF plan1, done1, lost1
  <2>1. /\ Len(inbox) \in Nat /\ Len(inbox') = Len(inbox) + 2
        /\ \A i \in 1 .. Len(inbox) : inbox'[i] = inbox[i]
        /\ inbox'[Len(inbox) + 1] = lost1 /\ inbox'[Len(inbox) + 2] = done1
    BY <1>1, <1>5, <1>8, QueueSendTwo DEF Send
  <2>2. \A i \in 1 .. Len(inbox') :
          i \in 1 .. Len(inbox) \/ i = Len(inbox) + 1 \/ i = Len(inbox) + 2
    BY <2>1
  <2>3. LossIsOfTheJob'
    BY <1>1, <1>2, <1>3, <1>5, <1>8, <2>1, <2>2 DEF LossIsOfTheJob, Answers, Generation
  <2>4. Len(inbox) + 2 \in 1 .. Len(inbox')
    BY <2>1
  <2>5. JobIsAttended'
    BY <1>3, <1>5, <2>1, <2>4 DEF JobIsAttended, Answered, Answers
  <2> QED
    BY <1>3, <2>3, <2>5 DEF WorkInv
<1>9. \/ task'[j].pc # "done" /\ UNCHANGED inbox
      \/ Send(<<plan1>>) \/ Send(<<done1>>) \/ Send(<<lost1, done1>>)
  BY <1>1, <1>3, <1>4, WorkersAnswer
<1>10. UNCHANGED inbox \/ task'[j].pc = "done"
  BY <1>1, TaskStepCases
<1>11. Send(<<lost1, done1>>) => ~UNCHANGED inbox
  <2> HIDE DEF lost1, done1
  <2>1. Len(inbox) \in Nat /\ Len(inbox \o <<lost1, done1>>) = Len(inbox) + 2
    BY <1>1, <1>5, QueueSendTwo
  <2> QED
    BY <2>1 DEF Send
<1> QED
  BY <1>6, <1>7, <1>8, <1>9, <1>10, <1>11

\* and a step of a cancellation.
LEMMA CancelStepKeepsWorkInv ==
    ASSUME IInv, WorkInv, NEW j \in Job, CancelStep(j)
    PROVE  WorkInv'
<1>1. TypeOK /\ UNCHANGED <<model, loop, rgen, inbox>>
  BY DEF IInv, JobInv, CancelStep, shared
<1>2. CASE UNCHANGED task
  BY <1>1, <1>2 DEF WorkInv, WorkersAreInFlight, LossIsOfTheJob, JobIsAttended, ReviewsAreAlone,
     Answered, Alive, Busy, Usable, model, loop
<1>3. CASE ~UNCHANGED task
  <2>1. PICK k \in Job :
          \/ /\ task[k].pc = "executing"
             /\ task' = [task EXCEPT ![k].pc = "probing", ![k].out = "cancelled"]
          \/ /\ task[k].pc = "probing"
             /\ task' = [task EXCEPT ![k].pc = "answered", ![k].txn = "unknown"]
    BY <1>3 DEF CancelStep, CancellerReadSlot, CancellerSend, CancelArrives
  <2>2. WorkerMoves(k) /\ task'[k].pc # "done"
    <3>0. task \in [Job -> Tasks] /\ task[k] \in Tasks
      BY <1>1 DEF TypeOK
    <3>1. CASE /\ task[k].pc = "executing"
               /\ task' = [task EXCEPT ![k].pc = "probing", ![k].out = "cancelled"]
      BY <3>0, <3>1 DEF WorkerMoves, Tasks, TaskStates, Outcomes
    <3>2. CASE /\ task[k].pc = "probing"
               /\ task' = [task EXCEPT ![k].pc = "answered", ![k].txn = "unknown"]
      BY <3>0, <3>2 DEF WorkerMoves, Tasks, TaskStates, TxnStates
    <3> QED
      BY <2>1, <3>1, <3>2
  <2>3. /\ WorkersAreInFlight' /\ ReviewsAreAlone'
        /\ Busy' /\ phase'.job = k /\ gen' = gen
        /\ \A i \in 1 .. Len(inbox) : inbox[i].kind = "connectionLost" =>
             inbox[i].gen # gen /\ inbox[i].gen <= rgen
    BY <1>1, <2>2, WorkerMovesKeepsWork
  <2>4. LossIsOfTheJob' /\ JobIsAttended'
    BY <1>1, <2>2, <2>3 DEF LossIsOfTheJob, JobIsAttended, Alive, WorkerMoves
  <2> QED
    BY <2>3, <2>4 DEF WorkInv
<1> QED
  BY <1>2, <1>3

-----------------------------------------------------------------------------
(* The whole invariant, and what follows from it.                          *)

\* The invariant of the work holds: who waits for a job, who runs it and who holds its gate
\* agree (update.rs, session.rs).
THEOREM WorkInvHolds == Spec => []WorkInv
<1>1. IInv /\ WorkInv /\ [Next]_vars => WorkInv'
  <2> SUFFICES ASSUME IInv, WorkInv, [Next]_vars PROVE WorkInv'
    OBVIOUS
  <2>1. CASE UNCHANGED vars \/ Quit \/ SessionDies
    <3>1. UNCHANGED <<model, effect, rgen, inbox, task>>
      BY <2>1 DEF vars, Quit, SessionDies, loop, shared, workers
    <3> QED
      BY <3>1 DEF WorkInv, WorkersAreInFlight, LossIsOfTheJob, JobIsAttended, ReviewsAreAlone,
         Answered, Alive, Busy, Usable, model
  <2>2. CASE UserAction
    BY <2>2, UserActionKeepsWorkInv
  <2>3. CASE ReduceMessage
    BY <2>3, ReduceKeepsWorkInv
  <2>4. CASE PerformEffect
    BY <2>4, PerformKeepsWorkInv
  <2>5. ASSUME NEW a \in Attempt, AttemptStep(a) \/ AdmitInstall(a) \/ InstallSession(a)
        PROVE  WorkInv'
    BY <2>5, AttemptKeepsWorkInv
  <2>6. ASSUME NEW j \in Job, TaskStep(j) \/ CancelStep(j)
        PROVE  WorkInv'
    BY <2>6, TaskStepKeepsWorkInv, CancelStepKeepsWorkInv
  <2> QED
    BY <2>1, <2>2, <2>3, <2>4, <2>5, <2>6 DEF Next, Ended
<1> QED
  BY <1>1, InitWorkInv, IInvHolds, PTL DEF Spec

\* The job the status bar calls running always has an answer coming in this generation:
\* no early return of a worker leaves it without one.
THEOREM BusyJobsAreAttended == Spec => []BusyJobIsAttended
<1>1. IInv /\ WorkInv => BusyJobIsAttended
  <2> SUFFICES ASSUME IInv, WorkInv, Busy
               PROVE  \/ effect.kind \in {"run", "explain"} /\ effect.job = phase.job
                      \/ /\ task[phase.job].pc \notin {"none", "done"}
                         /\ task[phase.job].gen = gen
                      \/ \E i \in 1 .. Len(inbox) :
                           /\ inbox[i].gen = gen /\ inbox[i].job = phase.job
                           /\ inbox[i].kind = "planFinished" => plan = phase.job
    BY DEF BusyJobIsAttended
  <2>1. /\ EffectStartsTheJob /\ JobIsPlanOrRun /\ AnswersComeFromWorkers
        /\ WorkersAreInFlight /\ JobIsAttended
    BY DEF IInv, JobInv, WorkInv
  <2>2. CASE effect.kind \in {"run", "explain"}
    BY <2>1, <2>2 DEF EffectStartsTheJob
  <2>3. CASE Alive(phase.job)
    BY <2>1, <2>3, InFlight DEF WorkersAreInFlight, Alive
  <2>4. CASE Answered /\ effect.kind \notin {"run", "explain"}
    <3>1. PICK i \in 1 .. Len(inbox) :
            inbox[i].gen = gen /\ inbox[i].kind \in Answers /\ inbox[i].job = phase.job
      BY <2>4 DEF Answered
    <3>2. inbox[i].kind = "planFinished" => plan = phase.job
      BY <2>1, <2>4, <3>1 DEF AnswersComeFromWorkers, JobIsPlanOrRun, Begun
    <3> QED
      BY <3>1, <3>2
  <2> QED
    BY <2>1, <2>2, <2>3, <2>4 DEF JobIsAttended
<1> QED
  BY <1>1, IInvHolds, WorkInvHolds, PTL

\* Two statements never meet at a session's gate.
THEOREM GatesAreUncontended == Spec => []GateUncontended
<1>1. WorkInv => GateUncontended
  BY DEF WorkInv, WorkersAreInFlight, Alive, GateUncontended, HoldsGate
<1> QED
  BY <1>1, WorkInvHolds, PTL

\* At most one review that can send work is open, and only where the connection could
\* take what it sends.
THEOREM ReviewsHaveOneOwner == Spec => []OneReviewOwner
<1>1. WorkInv => OneReviewOwner
  <2> SUFFICES ASSUME WorkInv PROVE Cardinality(review) <= 1
    BY DEF WorkInv, ReviewsAreAlone, OneReviewOwner
  <2>1. Cardinality(review) \in {0, 1}
    BY FS_EmptySet, FS_Singleton DEF WorkInv, ReviewsAreAlone
  <2> QED
    BY <2>1
<1> QED
  BY <1>1, WorkInvHolds, PTL

=============================================================================
