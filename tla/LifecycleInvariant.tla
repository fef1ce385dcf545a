------------------------- MODULE LifecycleInvariant -------------------------
(***************************************************************************)
(* Why Lifecycle is safe: an invariant that every step preserves by itself, *)
(* in named parts.  TLC checks it on a small instance, and                  *)
(* LifecycleTheorems proves it for every value of the constants.            *)
(***************************************************************************)
EXTENDS Lifecycle

-----------------------------------------------------------------------------
(* Jobs.                                                                   *)

\* The phase has a job exactly while it is busy, and jobs are handed out in order.
PhaseNamesItsJob ==
    /\ Busy <=> phase.job # None
    /\ phase.job <= issued
    /\ \A j \in Job : j > issued => task[j].pc = "none"

\* The reducer and the loop agree on the generation, but for the switch between
\* them; the bounds leave room for what has been asked.
GenerationsAgree ==
    /\ gen = IF effect.kind = "connectProfile" THEN rgen + 1 ELSE rgen
    /\ effect.kind \in {"connectProfile", "reconnect"} => spawned < MaxAttempt

\* Work that is still to be performed is that of the job in flight, which has no
\* worker yet.
EffectStartsTheJob ==
    effect.kind \in {"run", "explain"} =>
        /\ effect.job \in Job /\ phase.job = effect.job
        /\ task[effect.job].pc = "none"

Begun(j, kind) ==
    \/ effect.kind = kind
    \/ task[j].pc # "none" /\ task[j].kind = kind

\* A job in flight is either a plan, and the plan pane is loading it, or a run,
\* whose SQL is kept for the history.
JobIsPlanOrRun ==
    Busy => \/ plan = phase.job /\ sqlOf = None /\ Begun(phase.job, "explain")
            \/ plan = None /\ sqlOf = phase.job /\ Begun(phase.job, "run")

\* An answer in the queue is that of a worker of its kind, which is done.
AnswersComeFromWorkers ==
    \A i \in 1 .. Len(inbox) :
        /\ inbox[i].kind = "executionFinished" =>
             /\ inbox[i].job \in Job
             /\ task[inbox[i].job].pc = "done" /\ task[inbox[i].job].kind = "run"
        /\ inbox[i].kind = "planFinished" =>
             /\ inbox[i].job \in Job
             /\ task[inbox[i].job].pc = "done" /\ task[inbox[i].job].kind = "explain"

JobInv ==
    /\ TypeOK
    /\ PhaseNamesItsJob
    /\ GenerationsAgree
    /\ EffectStartsTheJob
    /\ JobIsPlanOrRun
    /\ AnswersComeFromWorkers
    /\ HistoryIsTruthful

-----------------------------------------------------------------------------
(* Connections.                                                            *)

Live(a)  == attempt[a].pc \notin {"none", "done"}
Settling == {"connected", "connectFailed", "authFailed"}
Failing  == {"connectFailed", "authFailed"}
Asking   == effect.kind \in {"connectProfile", "reconnect"}

\* One attempt is under way at a time, whatever is left of it: the effect that
\* asks for it, its worker, or its answer.  While it is, the client says so.
OneAttempt ==
    /\ Asking => /\ conn = "connecting"
                 /\ \A a \in Attempt : ~Live(a)
                 /\ \A i \in 1 .. Len(inbox) : inbox[i].kind \notin Settling \cup {"connectingStep"}
    /\ \A a \in Attempt : Live(a) =>
         /\ conn = "connecting" /\ attempt[a].gen = rgen /\ a <= spawned
         /\ \A b \in Attempt : Live(b) => b = a
         /\ \A i \in 1 .. Len(inbox) : inbox[i].kind \notin Settling
         /\ attempt[a].pc \in {"preparing", "starting"} =>
              \A i \in 1 .. Len(inbox) : inbox[i].kind # "connectingStep"
    /\ \A i \in 1 .. Len(inbox) : inbox[i].kind \in Settling \cup {"connectingStep"} =>
         /\ conn = "connecting" /\ inbox[i].gen = rgen
    /\ \A i, k \in 1 .. Len(inbox) :
         inbox[i].kind \in Settling /\ inbox[k].kind \in Settling \cup {"connectingStep"} => k <= i

\* What the state of the connection says of the slots.
SlotsFollow ==
    /\ slot # None => slot \in Attempt /\ attempt[slot].gen = rgen
    /\ \A a \in Attempt : Live(a) =>
         /\ slot = IF attempt[a].pc = "acknowledged" THEN a ELSE None
         /\ target = IF attempt[a].pc = "preparing" THEN None ELSE rgen
    /\ \A i \in 1 .. Len(inbox) :
         /\ inbox[i].kind = "connected"   => slot # None
         /\ inbox[i].kind \in Failing     => slot = None
         /\ inbox[i].kind = "authFailed"  => target = rgen
    /\ conn \in {"connected", "lost"} => slot # None
    /\ conn = "failed" => slot = None
    /\ effect.kind = "reconnect" => slot = None /\ target = rgen
    /\ prompt => conn = "failed" /\ target = rgen
    /\ Busy => conn = "connected"

\* A worker in these states has read the slot and found a session there.
InSession == {"ready", "waiting", "executing", "probing", "answered"}

\* A worker that has read the slot in this generation read the session that is
\* still there, and so did the one whose answer is queued or on screen.
WorkersUseTheSession ==
    /\ \A j \in Job : task[j].pc # "none" => task[j].gen <= rgen
    /\ \A j \in Job :
         task[j].pc \in InSession /\ task[j].gen = rgen
         => slot # None /\ task[j].sess = slot
    /\ \A i \in 1 .. Len(inbox) : inbox[i].kind = "executionFinished" =>
         /\ inbox[i].gen = task[inbox[i].job].gen
         /\ inbox[i].gen = rgen => slot # None /\ task[inbox[i].job].sess = slot
    /\ last # None =>
         /\ task[last].pc = "done" /\ task[last].gen = gen /\ gen = rgen
         /\ slot # None /\ task[last].sess = slot

ConnectionInv ==
    /\ OneAttempt
    /\ SlotsFollow
    /\ WorkersUseTheSession

IInv == JobInv /\ ConnectionInv
=============================================================================
