----------------------------- MODULE Background -----------------------------
(***************************************************************************)
(* What goes on by itself while the user works: the notices that reach a   *)
(* session's inbox (NoticeInbox) and the reads of the catalogue that wait  *)
(* for the server (ObjectReads).                                           *)
(*                                                                         *)
(* The two share no state, so that interleaving them adds no state of      *)
(* either: in a behaviour one of them moves.                               *)
(***************************************************************************)
EXTENDS NoticeInbox

CONSTANTS
    Name, NoName, MaxRoots, MaxRequest, MaxReload, MaxGeneration    \* ObjectReads

VARIABLES
    part,       \* the one that moves
    generation, conn, posted, user, meta, roots, loading, error, nextRequest, expandFirst,
    completion, nextCompletion, definition, palette, pendingDeps, overlay, listing, reads,
    reloads, shown, questioned                                      \* ObjectReads

Reads == INSTANCE ObjectReads

notices    == vars
objects    == <<generation, conn, posted, user, meta, roots, loading, error, nextRequest,
                expandFirst, completion, nextCompletion, definition, palette, pendingDeps,
                overlay, listing, reads, reloads, shown, questioned>>
background == <<part, notices, objects>>

BackgroundInit == part \in {"notices", "reads"} /\ Init /\ Reads!Init

BackgroundNext ==
    /\ UNCHANGED part
    /\ \/ part = "notices" /\ Next /\ UNCHANGED objects
       \/ part = "reads" /\ Reads!Next /\ UNCHANGED notices

\* Of the two only the reads have to move: the server owes nobody a notice.
BackgroundSpec == BackgroundInit /\ [][BackgroundNext]_background /\ Reads!Fairness

-----------------------------------------------------------------------------
\* Every node, panel and list that waits for a read is answered, given up on or gone with
\* its connection (interactive.rs:2096).
WaitsEnd == Reads!WaitsEnd
=============================================================================
