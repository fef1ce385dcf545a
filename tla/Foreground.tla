----------------------------- MODULE Foreground -----------------------------
(***************************************************************************)
(* What the client promises about running statements, with no workers,     *)
(* queues or sessions: one foreground job at a time, each job submitted     *)
(* once and ended once, the result shown always that of a job that has      *)
(* just ended, and a switch of connection only between jobs, after which    *)
(* nothing of the old connection is shown.                                  *)
(***************************************************************************)
EXTENDS Naturals

CONSTANTS MaxEpoch, MaxMade    \* bounds on connections and on jobs

VARIABLES
    epoch,  \* which connection this is
    made,   \* how many jobs have been submitted
    cur,    \* the job in flight, or 0
    shown,  \* the job whose result is on screen, or 0
    ended   \* the client has been left

vars == <<epoch, made, cur, shown, ended>>

Init == epoch = 1 /\ made = 0 /\ cur = 0 /\ shown = 0 /\ ended = FALSE

Submit ==
    /\ ~ended /\ cur = 0 /\ made < MaxMade
    /\ made' = made + 1 /\ cur' = made + 1
    /\ UNCHANGED <<epoch, shown, ended>>

\* The job's result arrives and replaces the one on screen.
Settle ==
    /\ ~ended /\ cur # 0
    /\ cur' = 0 /\ shown' = cur
    /\ UNCHANGED <<epoch, made, ended>>

\* The job ends with no result of its own: a plan, or an unknown outcome.
Abandon ==
    /\ ~ended /\ cur # 0
    /\ cur' = 0
    /\ UNCHANGED <<epoch, made, shown, ended>>

Switch ==
    /\ ~ended /\ cur = 0 /\ epoch < MaxEpoch
    /\ epoch' = epoch + 1 /\ shown' = 0
    /\ UNCHANGED <<made, cur, ended>>

Leave ==
    /\ ~ended /\ ended' = TRUE
    /\ UNCHANGED <<epoch, made, cur, shown>>

Next == Submit \/ Settle \/ Abandon \/ Switch \/ Leave

Spec == Init /\ [][Next]_vars

\* A job in flight ends, unless the client is left first.
FairSpec == Spec /\ WF_vars(Settle \/ Abandon)
=============================================================================
