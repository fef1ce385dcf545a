---------------------------- MODULE NoticeInbox ----------------------------
(***************************************************************************)
(* The bounded inbox of server notices that a session owns                  *)
(* (postgres/notices.rs), with the operations that the session's user-SQL   *)
(* gate admits one at a time (postgres/session.rs).                         *)
(*                                                                         *)
(* Notices arrive on the connection's own task at any moment.  While no     *)
(* operation is active they are kept in the idle window, which a poll       *)
(* takes; an operation adopts that window, drains what arrived during each  *)
(* statement into its own results, and reports the rest when it finishes.   *)
(* Its future may be dropped at any await.  A first parameterized statement *)
(* makes the session private for good.                                      *)
(*                                                                         *)
(* Every method holds the inbox's lock throughout, so each is one step.     *)
(* A batch of notices is how many of each kind it holds and their bytes.    *)
(***************************************************************************)
EXTENDS NoticeCounts

CONSTANTS
    Caller,        \* whoever asks the session to run something
    NoCaller,
    MaxCount,      \* MAX_NOTICE_COUNT: entries admitted in one window
    MaxText,       \* MAX_NOTICE_TEXT_BYTES: bytes admitted in one window
    ShortBytes,    \* the bytes of a notice that is kept whole
    LongBytes,     \* the bytes of a notice cut to MAX_NOTICE_MESSAGE_BYTES
    PrivateBytes,  \* the bytes of the fixed text that replaces a notice
    MaxObserved    \* bound on the notices the server sends

\* In the code a full window of private notices is far below 1 MiB, and 256 entries
\* are far below what a counter holds.
ASSUME InboxAssumption ==
    /\ NoCaller \notin Caller
    /\ MaxCount \in Nat /\ MaxText \in Nat /\ MaxObserved \in Nat
    /\ ShortBytes \in Nat /\ LongBytes \in Nat /\ PrivateBytes \in Nat
    /\ MaxCount * PrivateBytes <= MaxText
    /\ MaxCount <= CountMax

VARIABLES
    privacy,           \* notice_privacy, which is never cleared
    idle,              \* the bucket of the idle window
    owner,             \* the operation that is active, by its caller
    prelude,           \* entries held for the operation's report
    bucket,            \* the bucket of the active window
    drained,           \* entries drained into statement results
    drainedShortened,
    undelivered,       \* committed counts that no report has carried yet
    totals, revision,  \* the checkpoint
    gate,              \* who holds user_sql_gate
    pc,                \* where each caller is
    inHand,            \* the notices of the statements an operation has run
    \* What has happened, for the properties only.
    observed,          \* notices sent by the server
    delivered,         \* notices handed to a consumer
    gone,              \* notices refused, dropped with a future, or that left cut
    reported           \* the counts of every report delivered

inbox   == <<privacy, idle, owner, prelude, bucket, drained, drainedShortened, undelivered,
             totals, revision>>
callers == <<gate, pc, inHand>>
history == <<observed, delivered, gone, reported>>
vars    == <<inbox, callers, history>>

-----------------------------------------------------------------------------
Batch == [plain : Nat, cut : Nat, private : Nat, bytes : Nat]
NoBatch == [plain |-> 0, cut |-> 0, private |-> 0, bytes |-> 0]
Size(e) == e.plain + e.cut + e.private
Join(e, f) == [plain |-> e.plain + f.plain, cut |-> e.cut + f.cut,
               private |-> e.private + f.private, bytes |-> e.bytes + f.bytes]
Privatized(e) == [plain |-> 0, cut |-> 0, private |-> Size(e), bytes |-> Size(e) * PrivateBytes]

Bucket == [entries : Batch, spentCount : Nat, spentBytes : Nat, counts : Counts,
           exhausted : BOOLEAN]
NoBucket == [entries |-> NoBatch, spentCount |-> 0, spentBytes |-> 0, counts |-> NoCounts,
             exhausted |-> FALSE]

Init ==
    /\ privacy = FALSE
    /\ idle = NoBucket /\ owner = NoCaller /\ prelude = NoBatch /\ bucket = NoBucket
    /\ drained = 0 /\ drainedShortened = 0
    /\ undelivered = NoCounts /\ totals = NoCounts /\ revision = 0
    /\ gate = NoCaller /\ pc = [c \in Caller |-> "out"] /\ inHand = NoBatch
    /\ observed = 0 /\ delivered = [public |-> 0, private |-> 0]
    /\ gone = [refused |-> 0, dropped |-> 0, cut |-> 0]
    /\ reported = NoCounts

-----------------------------------------------------------------------------
(* Admission: Bucket::retain.                                              *)

\* One arriving notice as it is kept: cut says whether its message is too long.
Kept(cut) ==
    IF privacy  THEN [plain |-> 0, cut |-> 0, private |-> 1, bytes |-> PrivateBytes]
    ELSE IF cut THEN [plain |-> 0, cut |-> 1, private |-> 0, bytes |-> LongBytes]
    ELSE             [plain |-> 1, cut |-> 0, private |-> 0, bytes |-> ShortBytes]

Refuses(b, e) ==
    b.exhausted \/ b.spentCount >= MaxCount \/ b.spentBytes + e.bytes > MaxText

Retained(b, e) ==
    IF Refuses(b, e)
    THEN [b EXCEPT !.exhausted = TRUE, !.counts.omitted = Plus(b.counts.omitted, Exact(1))]
    ELSE [b EXCEPT !.entries = Join(b.entries, e),
                   !.spentCount = b.spentCount + 1,
                   !.spentBytes = b.spentBytes + e.bytes,
                   !.counts.shortened = Plus(b.counts.shortened, Exact(e.cut))]

\* The server sends a notice, and the connection's task retains it.
Observe ==
    /\ observed < MaxObserved
    /\ observed' = observed + 1
    /\ \E cut \in BOOLEAN :
         LET e == Kept(cut)
             b == IF owner = NoCaller THEN idle ELSE bucket
         IN /\ IF owner = NoCaller THEN idle' = Retained(idle, e) /\ UNCHANGED bucket
               ELSE bucket' = Retained(bucket, e) /\ UNCHANGED idle
            /\ gone' = IF Refuses(b, e) THEN [gone EXCEPT !.refused = gone.refused + 1] ELSE gone
    /\ UNCHANGED <<privacy, owner, prelude, drained, drainedShortened, undelivered, totals,
                   revision, callers, delivered, reported>>

-----------------------------------------------------------------------------
(* What the consumer is given, and the commit that goes with it.           *)

Commit(counts) ==
    /\ totals' = IF NeedsReport(counts) THEN CountsPlus(totals, counts) ELSE totals
    /\ revision' = IF revision < CountMax THEN revision + 1 ELSE CountMax

Deliver(e, counts) ==
    /\ delivered' = [public  |-> delivered.public + e.plain + e.cut,
                     private |-> delivered.private + e.private]
    /\ gone' = [gone EXCEPT !.cut = gone.cut + e.cut]
    /\ reported' = CountsPlus(reported, counts)

\* take_idle(): one report of the idle window, when there is anything to say.
Poll ==
    /\ owner = NoCaller
    /\ idle.spentCount # 0 \/ NeedsReport(idle.counts) \/ NeedsReport(undelivered)
    /\ Commit(idle.counts)
    /\ Deliver(idle.entries, CountsPlus(idle.counts, undelivered))
    /\ idle' = NoBucket
    /\ undelivered' = NoCounts
    /\ UNCHANGED <<privacy, owner, prelude, bucket, drained, drainedShortened, callers, observed>>

-----------------------------------------------------------------------------
(* Operations.                                                             *)

Enter(c) ==
    /\ pc[c] = "out" /\ gate = NoCaller
    /\ gate' = c /\ pc' = [pc EXCEPT ![c] = "gated"]
    /\ UNCHANGED <<inbox, inHand, history>>

\* Fault: what the idle window already holds stays as it is.
ActivatePrivacyForLater(c) ==
    /\ pc[c] = "gated"
    /\ pc' = [pc EXCEPT ![c] = "private"]
    /\ privacy' = TRUE
    /\ UNCHANGED <<idle, owner, prelude, bucket, drained, drainedShortened, undelivered, totals,
                   revision, gate, inHand, history>>

PrivateBucket(b) ==
    LET e == Privatized(b.entries)
    IN [b EXCEPT !.entries = e, !.spentBytes = e.bytes, !.counts.shortened = Exact(0)]

\* A parameterized statement makes the session private before it begins, so no
\* window is active; were one, it would not get its allowance back.
ActivatePrivacy(c) ==
    /\ pc[c] = "gated"
    /\ pc' = [pc EXCEPT ![c] = "private"]
    /\ privacy' = TRUE
    /\ idle' = PrivateBucket(idle)
    /\ prelude' = Privatized(prelude)
    /\ LET b == PrivateBucket(bucket)
       IN bucket' = [b EXCEPT !.spentBytes =
                       IF b.spentBytes < bucket.spentBytes THEN bucket.spentBytes ELSE b.spentBytes]
    /\ UNCHANGED <<owner, drained, drainedShortened, undelivered, totals, revision, gate, inHand,
                   history>>

\* Fault: the operation starts with a full allowance of its own.
BeginReplenished(c) ==
    /\ pc[c] \in {"gated", "private"}
    /\ pc' = [pc EXCEPT ![c] = "begun"]
    /\ owner' = c
    /\ prelude' = idle.entries
    /\ bucket' = [idle EXCEPT !.entries = NoBatch, !.spentCount = 0, !.spentBytes = 0]
    /\ idle' = NoBucket
    /\ UNCHANGED <<privacy, drained, drainedShortened, undelivered, totals, revision, gate, inHand,
                   history>>

\* begin(): the idle window goes on as the operation's, its entries held apart.
Begin(c) ==
    /\ pc[c] \in {"gated", "private"}
    /\ pc' = [pc EXCEPT ![c] = "begun"]
    /\ owner' = c
    /\ prelude' = idle.entries
    /\ bucket' = [idle EXCEPT !.entries = NoBatch]
    /\ idle' = NoBucket
    /\ UNCHANGED <<privacy, drained, drainedShortened, undelivered, totals, revision, gate, inHand,
                   history>>

\* hold_unattributed(), before each statement is sent and after it is described.
Hold(c) ==
    /\ pc[c] \in {"begun", "described"} /\ owner = c
    /\ pc' = [pc EXCEPT ![c] = IF pc[c] = "begun" THEN "streaming" ELSE "begun"]
    /\ prelude' = Join(prelude, bucket.entries)
    /\ bucket' = [bucket EXCEPT !.entries = NoBatch]
    /\ UNCHANGED <<privacy, idle, owner, drained, drainedShortened, undelivered, totals, revision,
                   gate, inHand, history>>

\* take_statement(), when a statement's rows have all arrived.
TakeStatement(c) ==
    /\ pc[c] = "streaming" /\ owner = c
    /\ pc' = [pc EXCEPT ![c] = "described"]
    /\ inHand' = Join(inHand, bucket.entries)
    /\ drained' = drained + Size(bucket.entries)
    /\ drainedShortened' = drainedShortened + bucket.entries.cut
    /\ bucket' = [bucket EXCEPT !.entries = NoBatch]
    /\ UNCHANGED <<privacy, idle, owner, prelude, undelivered, totals, revision, gate, history>>

NoOperation ==
    /\ owner' = NoCaller /\ prelude' = NoBatch /\ bucket' = NoBucket
    /\ drained' = 0 /\ drainedShortened' = 0
    /\ inHand' = NoBatch

\* Fault: what an abandoned operation left owing is reported again.
FinishOwingStill(c) ==
    /\ pc[c] \in {"begun", "streaming"} /\ owner = c
    /\ pc' = [pc EXCEPT ![c] = "ended"]
    /\ Commit(bucket.counts)
    /\ Deliver(Join(inHand, Join(prelude, bucket.entries)), CountsPlus(bucket.counts, undelivered))
    /\ NoOperation
    /\ UNCHANGED <<privacy, idle, undelivered, gate, observed>>

\* finish(): all statements have run, one has failed, or it was a plan or an export.
Finish(c) ==
    /\ pc[c] \in {"begun", "streaming"} /\ owner = c
    /\ pc' = [pc EXCEPT ![c] = "ended"]
    /\ Commit(bucket.counts)
    /\ Deliver(Join(inHand, Join(prelude, bucket.entries)), CountsPlus(bucket.counts, undelivered))
    /\ undelivered' = NoCounts
    /\ NoOperation
    /\ UNCHANGED <<privacy, idle, gate, observed>>

\* Fault: the future's own statement notices are not counted as lost.
DropForgetsDrained(c) ==
    /\ pc[c] \in {"begun", "streaming", "described"} /\ owner = c
    /\ pc' = [pc EXCEPT ![c] = "ended"]
    /\ LET lost    == [bucket.counts EXCEPT !.shortened = Exact(drainedShortened)]
           pending == Join(prelude, bucket.entries)
       IN /\ Commit(lost)
          /\ undelivered' = CountsPlus(undelivered, lost)
          /\ idle' = [NoBucket EXCEPT !.entries = pending,
                                      !.spentCount = Size(pending),
                                      !.spentBytes = pending.bytes,
                                      !.counts = [NoCounts EXCEPT !.shortened = Exact(pending.cut)]]
    /\ gone' = [gone EXCEPT !.dropped = gone.dropped + Size(inHand), !.cut = gone.cut + inHand.cut]
    /\ NoOperation
    /\ UNCHANGED <<privacy, gate, observed, delivered, reported>>

\* Dropping an unfinished operation: what was drained is lost and owned up to,
\* what is pending starts an idle window of its own.
Drop(c) ==
    /\ pc[c] \in {"begun", "streaming", "described"} /\ owner = c
    /\ pc' = [pc EXCEPT ![c] = "ended"]
    /\ LET lost    == [bucket.counts EXCEPT
                         !.abandoned = Plus(bucket.counts.abandoned, Exact(drained)),
                         !.shortened = Exact(drainedShortened)]
           pending == Join(prelude, bucket.entries)
       IN /\ Commit(lost)
          /\ undelivered' = CountsPlus(undelivered, lost)
          /\ idle' = [NoBucket EXCEPT !.entries = pending,
                                      !.spentCount = Size(pending),
                                      !.spentBytes = pending.bytes,
                                      !.counts = [NoCounts EXCEPT !.shortened = Exact(pending.cut)]]
    /\ gone' = [gone EXCEPT !.dropped = gone.dropped + Size(inHand), !.cut = gone.cut + inHand.cut]
    /\ NoOperation
    /\ UNCHANGED <<privacy, gate, observed, delivered, reported>>

\* The gate's guard is dropped after the operation's, and also by a future that
\* is dropped before it has begun.
Release(c) ==
    /\ pc[c] \in {"gated", "private", "ended"}
    /\ gate' = NoCaller /\ pc' = [pc EXCEPT ![c] = "out"]
    /\ UNCHANGED <<inbox, inHand, history>>

Next ==
    \/ Observe \/ Poll
    \/ \E c \in Caller :
         \/ Enter(c) \/ ActivatePrivacy(c) \/ Begin(c) \/ Hold(c) \/ TakeStatement(c)
         \/ Finish(c) \/ Drop(c) \/ Release(c)

Spec == Init /\ [][Next]_vars

-----------------------------------------------------------------------------
TypeOK ==
    /\ privacy \in BOOLEAN
    /\ idle \in Bucket /\ bucket \in Bucket
    /\ owner \in Caller \cup {NoCaller} /\ gate \in Caller \cup {NoCaller}
    /\ prelude \in Batch /\ inHand \in Batch
    /\ drained \in Nat /\ drainedShortened \in Nat
    /\ undelivered \in Counts /\ totals \in Counts /\ reported \in Counts
    /\ revision \in 0 .. CountMax
    /\ pc \in [Caller -> {"out", "gated", "private", "begun", "streaming", "described", "ended"}]
    /\ observed \in 0 .. MaxObserved
    /\ delivered \in [public : Nat, private : Nat]
    /\ gone \in [refused : Nat, dropped : Nat, cut : Nat]

\* begin() asserts that no operation is active, and the others act only on their
\* own: whoever is past the gate is alone.
OneOperation ==
    /\ \A c \in Caller : pc[c] # "out" => gate = c
    /\ \A c \in Caller : pc[c] \in {"gated", "private"} => owner = NoCaller
    /\ \A c \in Caller : pc[c] \in {"begun", "streaming", "described"} => owner = c

\* No window ever admits more than its count and its bytes, however it passes
\* between idle polling, operations, abandoned operations and privacy; and the
\* number it reports as retained is that of the entries it admitted.
WindowsAreBounded ==
    /\ idle.spentCount = Size(idle.entries) /\ idle.entries.bytes <= idle.spentBytes
    /\ idle.spentCount <= MaxCount /\ idle.spentBytes <= MaxText
    /\ bucket.spentCount = Size(prelude) + Size(bucket.entries) + Size(inHand)
    /\ prelude.bytes + bucket.entries.bytes <= bucket.spentBytes
    /\ bucket.spentCount <= MaxCount /\ bucket.spentBytes <= MaxText

\* retirement_counts(): what is committed and what the current window has not yet.
Pending == IF owner = NoCaller THEN idle.counts ELSE bucket.counts
RetirementCounts == CountsPlus(totals, Pending)

\* Entries of the current window that are not in any result yet.
Held == Join(idle.entries, Join(prelude, bucket.entries))

\* Every notice observed was delivered, is held or in hand, or is one of those the
\* client owns up to not having shown, with true precision even once it saturates.
EveryNoticeIsAccountedFor ==
    /\ observed = delivered.public + delivered.private + Size(Held) + Size(inHand)
                    + gone.refused + gone.dropped
    /\ Truthful(RetirementCounts.omitted, gone.refused)
    /\ Truthful(RetirementCounts.abandoned, gone.dropped)
    /\ Truthful(RetirementCounts.shortened, gone.cut + Held.cut + inHand.cut)

\* The reports add up to the checkpoint: a loss is reported once, in the report of
\* its own window or in the first one after it was abandoned.
ReportsCatchUp == totals = CountsPlus(reported, undelivered)

\* Once private, the session delivers no server text any more: not from the idle
\* window, not from a prelude, and not from results in hand.
PrivacyIsSticky ==
    [][privacy => privacy' /\ delivered'.public = delivered.public]_vars
-----------------------------------------------------------------------------
(* The inductive invariant behind the properties: what they leave open is   *)
(* where an operation's state is while none is active, which entries have   *)
(* been made private, and how the losses are split between what has been    *)
(* committed and the window.                                                *)

OwnedState ==
    /\ owner # NoCaller => pc[owner] \in {"begun", "streaming", "described"} /\ idle = NoBucket
    /\ owner = NoCaller => bucket = NoBucket /\ prelude = NoBatch /\ inHand = NoBatch
    /\ drained = Size(inHand) /\ drainedShortened = inHand.cut

NothingPublicIsHeld ==
    privacy => /\ idle.entries.plain = 0 /\ idle.entries.cut = 0
               /\ prelude.plain = 0 /\ prelude.cut = 0
               /\ bucket.entries.plain = 0 /\ bucket.entries.cut = 0
               /\ inHand.plain = 0 /\ inHand.cut = 0

SplitAccounts ==
    /\ idle.counts.abandoned = Exact(0) /\ bucket.counts.abandoned = Exact(0)
    /\ Truthful(totals.abandoned, gone.dropped)
    /\ Truthful(totals.shortened, gone.cut)
    /\ Truthful(Pending.shortened, Held.cut + inHand.cut)
    /\ Truthful(Plus(totals.omitted, Pending.omitted), gone.refused)

IInv ==
    /\ TypeOK /\ OneOperation /\ WindowsAreBounded /\ OwnedState
    /\ NothingPublicIsHeld /\ SplitAccounts /\ ReportsCatchUp
    /\ observed = delivered.public + delivered.private + Size(Held) + Size(inHand)
                    + gone.refused + gone.dropped
=============================================================================
