----------------------------- MODULE BoundedLog -----------------------------
(***************************************************************************)
(* What a statement history promises its one user: the newest statements,   *)
(* oldest first, and no more of them than were asked for.                   *)
(***************************************************************************)
EXTENDS Integers, SequencesExt

CONSTANTS Statement, MaxEntries

VARIABLE log

\* A limit of zero keeps everything.
Newest(s, limit) ==
    IF limit = 0 \/ Len(s) <= limit THEN s ELSE SubSeq(s, Len(s) - limit + 1, Len(s))

Init == log = <<>>

Keep(s)  == s \in Statement /\ log' = Newest(Append(log, s), MaxEntries)
Clear    == log' = <<>>

Next == Clear \/ \E s \in Statement : Keep(s)

Spec == Init /\ [][Next]_log
=============================================================================
