------------------------ MODULE NoticeInboxTheorems ------------------------
(***************************************************************************)
(* The inbox of NoticeInbox never exceeds its window, and accounts for      *)
(* every notice, for any bounds, sizes, callers and counter width.          *)
(***************************************************************************)
EXTENDS NoticeInbox, TLAPS

-----------------------------------------------------------------------------
(* Counters: sums stay counters, add up in any grouping, and stay truthful. *)

\* A number within the width is a counter.
LEMMA ExactIsCount ==
    ASSUME NEW n \in Nat, n <= CountMax
    PROVE  Exact(n) \in NoticeCount
  BY CountMaxAssumption DEF Exact, NoticeCount

\* Adding two counters gives a counter, whatever their precision.
LEMMA PlusIsCount ==
    ASSUME NEW a \in NoticeCount, NEW b \in NoticeCount
    PROVE  Plus(a, b) \in NoticeCount
  BY CountMaxAssumption, SMTT(30)
  DEF Plus, NoticeCount, Exact, AtLeast, Unknown, Saturated

\* Nothing lost changes no counter.
LEMMA PlusZero ==
    ASSUME NEW a \in NoticeCount
    PROVE  Plus(a, Exact(0)) = a /\ Plus(Exact(0), a) = a
  BY CountMaxAssumption, SMTT(30)
  DEF Plus, NoticeCount, Exact, AtLeast, Unknown, Saturated

\* Saturation does not depend on the order in which losses are added.
LEMMA PlusCommutes ==
    ASSUME NEW a \in NoticeCount, NEW b \in NoticeCount
    PROVE  Plus(a, b) = Plus(b, a)
  BY CountMaxAssumption, SMTT(30)
  DEF Plus, NoticeCount, Exact, AtLeast, Unknown, Saturated

\* The same for their grouping: a run of windows can be summed in any grouping.
LEMMA PlusAssociates ==
    ASSUME NEW a \in NoticeCount, NEW b \in NoticeCount, NEW c \in NoticeCount
    PROVE  Plus(Plus(a, b), c) = Plus(a, Plus(b, c))
  BY CountMaxAssumption, SMTT(60)
  DEF Plus, NoticeCount, Exact, AtLeast, Unknown, Saturated

\* What two counters say of two numbers, their sum says of the total.
LEMMA PlusIsTruthful ==
    ASSUME NEW a \in NoticeCount, NEW b \in NoticeCount, NEW x \in Nat, NEW y \in Nat,
           Truthful(a, x), Truthful(b, y)
    PROVE  Truthful(Plus(a, b), x + y)
  BY CountMaxAssumption, SMTT(30)
  DEF Plus, NoticeCount, Exact, AtLeast, Unknown, Saturated, Truthful

\* The same for the counters since a truthful baseline.
LEMMA SinceIsTruthful ==
    ASSUME NEW a \in NoticeCount, NEW b \in NoticeCount, NEW x \in Nat, NEW y \in Nat,
           Truthful(a, x), Truthful(b, y)
    PROVE  Since(a, b) \in NoticeCount /\ Truthful(Since(a, b), x - y)
  BY CountMaxAssumption, SMTT(30) DEF Since, NoticeCount, Exact, Unknown, Truthful

\* The three counters of a triple.
LEMMA CountsFields ==
    ASSUME NEW c \in Counts
    PROVE  /\ c.omitted \in NoticeCount /\ c.shortened \in NoticeCount
           /\ c.abandoned \in NoticeCount
           /\ c = [omitted |-> c.omitted, shortened |-> c.shortened, abandoned |-> c.abandoned]
  BY DEF Counts

\* A fresh window has counters.
LEMMA NoCountsIsCounts == NoCounts \in Counts
  BY ExactIsCount, CountMaxAssumption DEF NoCounts, Counts

\* The sum of two triples, counter by counter, is a triple.
LEMMA CountsPlusIsCounts ==
    ASSUME NEW c \in Counts, NEW d \in Counts
    PROVE  CountsPlus(c, d) \in Counts
  BY CountsFields, PlusIsCount DEF CountsPlus, Counts

\* Adding a window without losses changes nothing.
LEMMA CountsPlusZero ==
    ASSUME NEW c \in Counts
    PROVE  CountsPlus(c, NoCounts) = c /\ CountsPlus(NoCounts, c) = c
  BY CountsFields, PlusZero DEF CountsPlus, NoCounts

\* Triples can be added in either order.
LEMMA CountsPlusCommutes ==
    ASSUME NEW c \in Counts, NEW d \in Counts
    PROVE  CountsPlus(c, d) = CountsPlus(d, c)
  BY CountsFields, PlusCommutes DEF CountsPlus

\* Triples can be added in any grouping.
LEMMA CountsPlusAssociates ==
    ASSUME NEW c \in Counts, NEW d \in Counts, NEW e \in Counts
    PROVE  CountsPlus(CountsPlus(c, d), e) = CountsPlus(c, CountsPlus(d, e))
  BY CountsFields, PlusAssociates DEF CountsPlus

\* A window that lost nothing need not be added.
LEMMA NothingToReport ==
    ASSUME NEW c \in Counts, ~NeedsReport(c)
    PROVE  c = NoCounts
  BY CountsFields DEF NeedsReport, IsZero, NoCounts

\* Committing a window always adds its losses to the totals.
LEMMA CommitAdds ==
    ASSUME totals \in Counts, revision \in 0 .. CountMax, NEW c \in Counts, Commit(c)
    PROVE  totals' = CountsPlus(totals, c) /\ totals' \in Counts /\ revision' \in 0 .. CountMax
  <1>1. totals' = CountsPlus(totals, c)
    BY NothingToReport, CountsPlusZero DEF Commit
  <1>2. totals' \in Counts
    BY <1>1, CountsPlusIsCounts
  <1>3. revision' \in 0 .. CountMax
    BY CountMaxAssumption DEF Commit
  <1> QED
    BY <1>1, <1>2, <1>3

-----------------------------------------------------------------------------
(* Batches and buckets.                                                    *)

\* The numbers of a batch.
LEMMA BatchFields ==
    ASSUME NEW e \in Batch
    PROVE  e.plain \in Nat /\ e.cut \in Nat /\ e.private \in Nat /\ e.bytes \in Nat
  BY DEF Batch

\* Joining two batches adds up every number of theirs.
LEMMA BatchSizes ==
    ASSUME NEW e \in Batch, NEW f \in Batch
    PROVE  /\ Join(e, f) \in Batch /\ NoBatch \in Batch
           /\ Size(e) \in Nat /\ Size(NoBatch) = 0
           /\ Size(Join(e, f)) = Size(e) + Size(f)
           /\ Join(e, f).bytes = e.bytes + f.bytes
           /\ Join(e, f).cut = e.cut + f.cut
           /\ Join(e, f).plain = e.plain + f.plain
  BY DEF Join, Batch, NoBatch, Size

\* Private text keeps the number of entries.
LEMMA PrivatizedSizes ==
    ASSUME NEW e \in Batch
    PROVE  /\ Privatized(e) \in Batch
           /\ Size(Privatized(e)) = Size(e)
           /\ Privatized(e).cut = 0 /\ Privatized(e).plain = 0
           /\ Privatized(e).bytes = Size(e) * PrivateBytes
  <1>1. Size(e) \in Nat
    BY DEF Batch, Size
  <1>2. Size(e) * PrivateBytes \in Nat
    BY <1>1, InboxAssumption, SMTT(30)
  <1> QED
    BY <1>1, <1>2 DEF Privatized, Batch, Size

\* A full window of private notices fits the bytes of a window.
LEMMA PrivateWindowFits ==
    ASSUME NEW n \in Nat, n <= MaxCount
    PROVE  n * PrivateBytes <= MaxText
  <1>1. \A m, k, l \in Nat : m <= k => m * l <= k * l
    BY SMTT(30)
  <1>2. n * PrivateBytes <= MaxCount * PrivateBytes
    BY <1>1, InboxAssumption
  <1> QED
    BY <1>2, InboxAssumption, SMTT(30)

\* A notice is kept as exactly one entry, and as private text in a private session.
LEMMA KeptIsOne ==
    ASSUME privacy \in BOOLEAN, NEW cut \in BOOLEAN
    PROVE  /\ Kept(cut) \in Batch /\ Size(Kept(cut)) = 1
           /\ Kept(cut).cut \in {0, 1}
           /\ privacy => Kept(cut).cut = 0 /\ Kept(cut).plain = 0
  BY InboxAssumption, SMTT(30) DEF Kept, Batch, Size

\* The parts of a bucket.
LEMMA BucketFields ==
    ASSUME NEW b \in Bucket
    PROVE  /\ b.entries \in Batch /\ b.spentCount \in Nat /\ b.spentBytes \in Nat
           /\ b.counts \in Counts /\ b.exhausted \in BOOLEAN
  BY DEF Bucket

\* A fresh window is a bucket without entries or losses.
LEMMA NoBucketIsBucket ==
    /\ NoBucket \in Bucket /\ NoBucket.entries = NoBatch /\ NoBucket.counts = NoCounts
    /\ NoBucket.spentCount = 0 /\ NoBucket.spentBytes = 0
  BY NoCountsIsCounts DEF NoBucket, Bucket, Batch, NoBatch

\* Taking the entries of a bucket leaves its allowance as spent as it was.
LEMMA EmptiedBucket ==
    ASSUME NEW b \in Bucket, NEW e, e = [b EXCEPT !.entries = NoBatch]
    PROVE  /\ e \in Bucket /\ e.entries = NoBatch /\ e.counts = b.counts
           /\ e.spentCount = b.spentCount /\ e.spentBytes = b.spentBytes
  <1>1. NoBatch \in Batch
    BY DEF NoBatch, Batch
  <1> QED
    BY <1>1, BucketFields DEF Bucket

\* What admission does to a bucket, and what it adds to the losses.
LEMMA RetainedBucket ==
    ASSUME NEW b \in Bucket, NEW e \in Batch, Size(e) = 1, e.cut \in {0, 1},
           NEW r, r = Retained(b, e)
    PROVE  /\ r \in Bucket
           /\ r.counts.abandoned = b.counts.abandoned
           /\ Refuses(b, e) => /\ r.entries = b.entries /\ r.spentCount = b.spentCount
                               /\ r.spentBytes = b.spentBytes
                               /\ r.counts.omitted = Plus(b.counts.omitted, Exact(1))
                               /\ r.counts.shortened = b.counts.shortened
           /\ ~Refuses(b, e) => /\ r.entries = Join(b.entries, e)
                                /\ r.spentCount = b.spentCount + 1 /\ r.spentCount <= MaxCount
                                /\ r.spentBytes = b.spentBytes + e.bytes
                                /\ r.spentBytes <= MaxText
                                /\ r.counts.omitted = b.counts.omitted
                                /\ r.counts.shortened = Plus(b.counts.shortened, Exact(e.cut))
  <1>1. b.entries \in Batch /\ b.spentCount \in Nat /\ b.spentBytes \in Nat /\ b.counts \in Counts
        /\ b.exhausted \in BOOLEAN
    BY BucketFields
  <1>2. b.counts.omitted \in NoticeCount /\ b.counts.shortened \in NoticeCount
        /\ b.counts.abandoned \in NoticeCount
    BY <1>1, CountsFields
  <1>3. e.bytes \in Nat /\ e.cut \in Nat
    BY DEF Batch
  <1>4. Plus(b.counts.omitted, Exact(1)) \in NoticeCount
        /\ Plus(b.counts.shortened, Exact(e.cut)) \in NoticeCount
    BY <1>2, PlusIsCount, ExactIsCount, CountMaxAssumption
  <1>5. Join(b.entries, e) \in Batch
    BY <1>1, BatchSizes
  <1>6. CASE Refuses(b, e)
    <2> DEFINE c == [b.counts EXCEPT !.omitted = Plus(b.counts.omitted, Exact(1))]
    <2>1. r = [b EXCEPT !.exhausted = TRUE, !.counts = c]
      BY <1>6 DEF Retained
    <2>2. /\ c \in Counts /\ c.omitted = Plus(b.counts.omitted, Exact(1))
          /\ c.shortened = b.counts.shortened /\ c.abandoned = b.counts.abandoned
      BY <1>1, <1>2, <1>4 DEF Counts
    <2> HIDE DEF c
    <2> QED
      BY <1>1, <1>6, <2>1, <2>2 DEF Bucket
  <1>7. CASE ~Refuses(b, e)
    <2> DEFINE c == [b.counts EXCEPT !.shortened = Plus(b.counts.shortened, Exact(e.cut))]
    <2>1. r = [b EXCEPT !.entries = Join(b.entries, e), !.spentCount = b.spentCount + 1,
                        !.spentBytes = b.spentBytes + e.bytes, !.counts = c]
      BY <1>7 DEF Retained
    <2>4. /\ c \in Counts /\ c.shortened = Plus(b.counts.shortened, Exact(e.cut))
          /\ c.omitted = b.counts.omitted /\ c.abandoned = b.counts.abandoned
      BY <1>1, <1>2, <1>4 DEF Counts
    <2>2. b.spentCount < MaxCount /\ b.spentBytes + e.bytes <= MaxText
      BY <1>1, <1>3, <1>7, InboxAssumption DEF Refuses
    <2>3. b.spentCount + 1 \in Nat /\ b.spentBytes + e.bytes \in Nat /\ b.spentCount + 1 <= MaxCount
      BY <1>1, <1>3, <2>2, InboxAssumption
    <2> HIDE DEF c
    <2> QED
      BY <1>1, <1>5, <1>7, <2>1, <2>2, <2>3, <2>4 DEF Bucket
  <1> QED
    BY <1>6, <1>7

\* Making a bucket private keeps every entry of it and forgets that any was cut.
LEMMA PrivateBucketFields ==
    ASSUME NEW b \in Bucket
    PROVE  /\ PrivateBucket(b) \in Bucket
           /\ PrivateBucket(b).entries = Privatized(b.entries)
           /\ PrivateBucket(b).spentCount = b.spentCount
           /\ PrivateBucket(b).spentBytes = Size(b.entries) * PrivateBytes
           /\ PrivateBucket(b).counts.omitted = b.counts.omitted
           /\ PrivateBucket(b).counts.abandoned = b.counts.abandoned
           /\ PrivateBucket(b).counts.shortened = Exact(0)
  <1>1. b.entries \in Batch /\ b.spentCount \in Nat /\ b.counts \in Counts
        /\ b.exhausted \in BOOLEAN
    BY BucketFields
  <1>2. Privatized(b.entries) \in Batch
        /\ Privatized(b.entries).bytes = Size(b.entries) * PrivateBytes
        /\ Privatized(b.entries).bytes \in Nat
    BY <1>1, PrivatizedSizes, BatchFields
  <1>3. Exact(0) \in NoticeCount
    BY ExactIsCount, CountMaxAssumption
  <1>4. b.counts.omitted \in NoticeCount /\ b.counts.abandoned \in NoticeCount
    BY <1>1, CountsFields
  <1> DEFINE c == [b.counts EXCEPT !.shortened = Exact(0)]
  <1>5. PrivateBucket(b) = [b EXCEPT !.entries = Privatized(b.entries),
                                     !.spentBytes = Privatized(b.entries).bytes, !.counts = c]
    BY DEF PrivateBucket
  <1>6. /\ c \in Counts /\ c.omitted = b.counts.omitted
        /\ c.shortened = Exact(0) /\ c.abandoned = b.counts.abandoned
    BY <1>1, <1>3, <1>4 DEF Counts
  <1> HIDE DEF c
  <1> QED
    BY <1>1, <1>2, <1>5, <1>6 DEF Bucket


-----------------------------------------------------------------------------
(* The inductive invariant.                                                *)

\* The invariant holds before anything has happened.
LEMMA InitIInv == Init => IInv
  <1> SUFFICES ASSUME Init PROVE IInv
    OBVIOUS
  <1>1. NoBatch \in Batch /\ Size(NoBatch) = 0 /\ NoBatch.cut = 0 /\ NoBatch.plain = 0
        /\ NoBatch.bytes = 0 /\ Join(NoBatch, Join(NoBatch, NoBatch)) = NoBatch
    BY DEF NoBatch, Batch, Size, Join
  <1>2. NoCounts \in Counts /\ CountsPlus(NoCounts, NoCounts) = NoCounts
        /\ NoCounts.omitted = Exact(0) /\ NoCounts.shortened = Exact(0)
        /\ NoCounts.abandoned = Exact(0) /\ Truthful(Exact(0), 0)
    BY NoCountsIsCounts, CountsPlusZero DEF NoCounts, Truthful, Exact
  <1>3. TypeOK
    <2>1. /\ pc \in [Caller -> {"out", "gated", "private", "begun", "streaming", "described", "ended"}]
          /\ delivered \in [public : Nat, private : Nat]
          /\ gone \in [refused : Nat, dropped : Nat, cut : Nat]
      BY DEF Init
    <2>2. revision \in 0 .. CountMax /\ observed \in 0 .. MaxObserved
      BY CountMaxAssumption, InboxAssumption DEF Init
    <2> QED
      BY <1>1, <1>2, <2>1, <2>2, NoBucketIsBucket DEF Init, TypeOK
  <1>4. OneOperation /\ OwnedState /\ NothingPublicIsHeld
    BY <1>1 DEF Init, OneOperation, OwnedState, NothingPublicIsHeld
  <1>5. WindowsAreBounded
    BY <1>1, NoBucketIsBucket, InboxAssumption DEF Init, WindowsAreBounded
  <1>6. SplitAccounts /\ ReportsCatchUp
    BY <1>1, <1>2, NoBucketIsBucket
    DEF Init, SplitAccounts, ReportsCatchUp, Pending, Held, CountsPlus
  <1>7. observed = delivered.public + delivered.private + Size(Held) + Size(inHand)
                      + gone.refused + gone.dropped
    BY <1>1, NoBucketIsBucket DEF Init, Held
  <1> QED
    BY <1>3, <1>4, <1>5, <1>6, <1>7 DEF IInv

\* The parts of the state that the steps below compute with.
LEMMA StateFields ==
    ASSUME TypeOK
    PROVE  /\ idle.entries \in Batch /\ idle.spentCount \in Nat /\ idle.spentBytes \in Nat
           /\ bucket.entries \in Batch /\ bucket.spentCount \in Nat /\ bucket.spentBytes \in Nat
           /\ idle.counts \in Counts /\ bucket.counts \in Counts
           /\ delivered.public \in Nat /\ delivered.private \in Nat
           /\ gone.refused \in Nat /\ gone.dropped \in Nat /\ gone.cut \in Nat
           /\ gone = [refused |-> gone.refused, dropped |-> gone.dropped, cut |-> gone.cut]
           /\ Held \in Batch
           /\ Size(Held) = Size(idle.entries) + Size(prelude) + Size(bucket.entries)
           /\ Held.cut = idle.entries.cut + prelude.cut + bucket.entries.cut
  <1>1. /\ idle.entries \in Batch /\ idle.spentCount \in Nat /\ idle.spentBytes \in Nat
        /\ bucket.entries \in Batch /\ bucket.spentCount \in Nat /\ bucket.spentBytes \in Nat
        /\ idle.counts \in Counts /\ bucket.counts \in Counts
    BY BucketFields DEF TypeOK
  <1>2. /\ delivered.public \in Nat /\ delivered.private \in Nat
        /\ gone.refused \in Nat /\ gone.dropped \in Nat /\ gone.cut \in Nat
        /\ gone = [refused |-> gone.refused, dropped |-> gone.dropped, cut |-> gone.cut]
    BY DEF TypeOK
  <1>3. Join(prelude, bucket.entries) \in Batch
    BY <1>1, BatchSizes DEF TypeOK
  <1>4. /\ Held \in Batch
        /\ Size(Held) = Size(idle.entries) + Size(Join(prelude, bucket.entries))
        /\ Held.cut = idle.entries.cut + Join(prelude, bucket.entries).cut
    BY <1>1, <1>3, BatchSizes DEF Held
  <1>5. /\ Size(Join(prelude, bucket.entries)) = Size(prelude) + Size(bucket.entries)
        /\ Join(prelude, bucket.entries).cut = prelude.cut + bucket.entries.cut
    BY <1>1, BatchSizes DEF TypeOK
  <1>6. /\ Size(idle.entries) \in Nat /\ Size(prelude) \in Nat /\ Size(bucket.entries) \in Nat
        /\ idle.entries.cut \in Nat /\ prelude.cut \in Nat /\ bucket.entries.cut \in Nat
    BY <1>1, BatchSizes, BatchFields DEF TypeOK
  <1>7. /\ Size(Held) = Size(idle.entries) + Size(prelude) + Size(bucket.entries)
        /\ Held.cut = idle.entries.cut + prelude.cut + bucket.entries.cut
    BY <1>4, <1>5, <1>6, SMTT(30)
  <1> QED
    BY <1>1, <1>2, <1>4, <1>7


\* A report that carries the window's losses and what is owed catches up.
LEMMA ReportedInFull ==
    ASSUME NEW r \in Counts, NEW u \in Counts, NEW c \in Counts
    PROVE  CountsPlus(CountsPlus(r, CountsPlus(c, u)), NoCounts) = CountsPlus(CountsPlus(r, u), c)
  <1>1. CountsPlus(c, u) = CountsPlus(u, c) /\ CountsPlus(c, u) \in Counts
    BY CountsPlusCommutes, CountsPlusIsCounts
  <1>2. CountsPlus(r, CountsPlus(c, u)) \in Counts
    BY <1>1, CountsPlusIsCounts
  <1>3. CountsPlus(CountsPlus(r, u), c) = CountsPlus(r, CountsPlus(u, c))
    BY CountsPlusAssociates
  <1> QED
    BY <1>1, <1>2, <1>3, CountsPlusZero

\* Only the gate and the caller's place change: entering, and leaving.
LEMMA GateIInv ==
    ASSUME IInv, NEW c \in Caller, Enter(c) \/ Release(c)
    PROVE  IInv'
  <1> USE DEF inbox, history
  <1>1. TypeOK'
    BY DEF IInv, TypeOK, Enter, Release
  <1>2. OneOperation' /\ OwnedState'
    BY InboxAssumption DEF IInv, TypeOK, OneOperation, OwnedState, Enter, Release
  <1>3. /\ WindowsAreBounded' /\ NothingPublicIsHeld' /\ SplitAccounts' /\ ReportsCatchUp'
        /\ (observed = delivered.public + delivered.private + Size(Held) + Size(inHand)
                       + gone.refused + gone.dropped)'
    BY DEF IInv, WindowsAreBounded, NothingPublicIsHeld, SplitAccounts, ReportsCatchUp, Held,
           Pending, Enter, Release
  <1> QED
    BY <1>1, <1>2, <1>3 DEF IInv


\* A notice arrives: it is admitted to the current window or refused by it.
LEMMA ObserveIInv ==
    ASSUME IInv, Observe
    PROVE  IInv'
  <1>0. TypeOK /\ observed' = observed + 1 /\ observed' \in 0 .. MaxObserved
    BY InboxAssumption DEF IInv, TypeOK, Observe
  <1>1. PICK cut \in BOOLEAN :
          LET e == Kept(cut)
              b == IF owner = NoCaller THEN idle ELSE bucket
          IN /\ IF owner = NoCaller THEN idle' = Retained(idle, e) /\ UNCHANGED bucket
                ELSE bucket' = Retained(bucket, e) /\ UNCHANGED idle
             /\ gone' = IF Refuses(b, e) THEN [gone EXCEPT !.refused = gone.refused + 1] ELSE gone
    BY DEF Observe
  <1> DEFINE e == Kept(cut)
             b == IF owner = NoCaller THEN idle ELSE bucket
             r == Retained(b, e)
             refused == Refuses(b, e)
  <1>2. /\ e \in Batch /\ Size(e) = 1 /\ e.cut \in {0, 1} /\ e.bytes \in Nat
        /\ privacy => e.cut = 0 /\ e.plain = 0
    BY <1>0, KeptIsOne, BatchFields DEF TypeOK
  <1>3. b \in Bucket /\ b.counts = Pending /\ b.counts \in Counts /\ b.entries \in Batch
        /\ b.spentCount \in Nat /\ b.spentBytes \in Nat /\ b.counts.abandoned = Exact(0)
    BY <1>0, BucketFields DEF TypeOK, Pending, IInv, SplitAccounts
  <1> HIDE DEF e
  <1>4. /\ r \in Bucket /\ r.counts.abandoned = Exact(0) /\ r.counts \in Counts /\ r.entries \in Batch
        /\ refused => /\ r.entries = b.entries /\ r.spentCount = b.spentCount
                      /\ r.spentBytes = b.spentBytes
                      /\ r.counts.omitted = Plus(b.counts.omitted, Exact(1))
                      /\ r.counts.shortened = b.counts.shortened
        /\ ~refused => /\ r.entries = Join(b.entries, e)
                       /\ r.spentCount = b.spentCount + 1 /\ r.spentCount <= MaxCount
                       /\ r.spentBytes = b.spentBytes + e.bytes /\ r.spentBytes <= MaxText
                       /\ r.counts.omitted = b.counts.omitted
                       /\ r.counts.shortened = Plus(b.counts.shortened, Exact(e.cut))
    BY <1>2, <1>3, RetainedBucket, BucketFields
  <1>5. /\ owner = NoCaller => idle' = r /\ bucket' = bucket
        /\ owner # NoCaller => bucket' = r /\ idle' = idle
        /\ gone' = IF refused THEN [gone EXCEPT !.refused = gone.refused + 1] ELSE gone
    BY <1>1 DEF e
  <1>6. UNCHANGED <<privacy, owner, prelude, drained, drainedShortened, undelivered, totals,
                    revision, gate, pc, inHand, delivered, reported>>
    BY DEF Observe, callers
  <1>7. /\ gone'.dropped = gone.dropped /\ gone'.cut = gone.cut /\ gone.refused \in Nat
        /\ gone'.refused = IF refused THEN gone.refused + 1 ELSE gone.refused
        /\ gone' \in [refused : Nat, dropped : Nat, cut : Nat]
    BY <1>0, <1>5 DEF TypeOK
  <1> HIDE DEF r, b, refused
  <1>8. TypeOK'
    BY <1>0, <1>3, <1>4, <1>5, <1>6, <1>7 DEF TypeOK
  \* How much the entries of the window, and those that were cut, have grown.
  <1>9. /\ Size(r.entries) = Size(b.entries) + (IF refused THEN 0 ELSE 1)
        /\ r.entries.cut = b.entries.cut + (IF refused THEN 0 ELSE e.cut)
        /\ r.entries.plain = b.entries.plain + (IF refused THEN 0 ELSE e.plain)
        /\ r.entries.bytes = b.entries.bytes + (IF refused THEN 0 ELSE e.bytes)
        /\ Size(b.entries) \in Nat /\ b.entries.cut \in Nat /\ b.entries.bytes \in Nat
        /\ b.entries.plain \in Nat
    BY <1>2, <1>3, <1>4, BatchSizes, BatchFields
  <1>10. OneOperation' /\ OwnedState' /\ ReportsCatchUp'
    BY <1>5, <1>6 DEF IInv, OneOperation, OwnedState, ReportsCatchUp
  <1>11. NothingPublicIsHeld'
    <2>1. ASSUME privacy PROVE r.entries.plain = 0 /\ r.entries.cut = 0
      <3>1. b.entries.plain = 0 /\ b.entries.cut = 0
        BY <2>1 DEF IInv, NothingPublicIsHeld, b
      <3> QED
        BY <1>2, <1>9, <2>1, <3>1, SMTT(30)
    <2> QED
      BY <1>5, <1>6, <2>1 DEF IInv, NothingPublicIsHeld
  <1>12. WindowsAreBounded'
    <2>1. CASE owner = NoCaller
      <3>1. idle' = r /\ bucket' = bucket /\ b = idle
        BY <1>5, <2>1 DEF b
      <3>2. r.spentCount = Size(r.entries) /\ r.entries.bytes <= r.spentBytes
            /\ r.spentCount <= MaxCount /\ r.spentBytes <= MaxText
        BY <1>2, <1>3, <1>4, <1>9, <3>1, SMTT(30) DEF IInv, WindowsAreBounded
      <3> QED
        BY <1>6, <3>1, <3>2 DEF IInv, WindowsAreBounded
    <2>2. CASE owner # NoCaller
      <3>1. bucket' = r /\ idle' = idle /\ b = bucket
        BY <1>5, <2>2 DEF b
      <3>2. Size(prelude) \in Nat /\ Size(inHand) \in Nat /\ prelude.bytes \in Nat
        BY <1>0, BatchSizes, BatchFields DEF TypeOK
      <3>3. r.spentCount = Size(prelude) + Size(r.entries) + Size(inHand)
            /\ prelude.bytes + r.entries.bytes <= r.spentBytes
            /\ r.spentCount <= MaxCount /\ r.spentBytes <= MaxText
        BY <1>2, <1>3, <1>4, <1>9, <3>1, <3>2, SMTT(30) DEF IInv, WindowsAreBounded
      <3> QED
        BY <1>6, <3>1, <3>3 DEF IInv, WindowsAreBounded
    <2> QED
      BY <2>1, <2>2
  <1>13. /\ Size(Held)' = Size(Held) + (IF refused THEN 0 ELSE 1)
         /\ Held'.cut = Held.cut + (IF refused THEN 0 ELSE e.cut)
         /\ Size(Held) \in Nat /\ Held.cut \in Nat
    <2>1. /\ Size(Held) = Size(idle.entries) + Size(prelude) + Size(bucket.entries)
          /\ Held.cut = idle.entries.cut + prelude.cut + bucket.entries.cut
          /\ Held \in Batch
          /\ (Size(Held) = Size(idle.entries) + Size(prelude) + Size(bucket.entries))'
          /\ (Held.cut = idle.entries.cut + prelude.cut + bucket.entries.cut)'
      BY <1>0, <1>8, StateFields, PTL
    <2>2. /\ Size(idle.entries) \in Nat /\ Size(prelude) \in Nat /\ Size(bucket.entries) \in Nat
          /\ idle.entries.cut \in Nat /\ prelude.cut \in Nat /\ bucket.entries.cut \in Nat
          /\ Size(Held) \in Nat /\ Held.cut \in Nat
      BY <1>0, <2>1, StateFields, BatchSizes, BatchFields DEF TypeOK
    <2>3. CASE owner = NoCaller
      BY <1>2, <1>5, <1>6, <1>9, <2>1, <2>2, <2>3, SMTT(30) DEF b
    <2>4. CASE owner # NoCaller
      BY <1>2, <1>5, <1>6, <1>9, <2>1, <2>2, <2>4, SMTT(30) DEF b
    <2> QED
      BY <2>2, <2>3, <2>4
  <1>14. SplitAccounts'
    <2>1. Pending' = r.counts
      BY <1>5, <1>6 DEF Pending
    <2>2. idle'.counts.abandoned = Exact(0) /\ bucket'.counts.abandoned = Exact(0)
      BY <1>4, <1>5 DEF IInv, SplitAccounts
    <2>3. inHand.cut \in Nat /\ Held.cut + inHand.cut \in Nat
      BY <1>0, <1>13, BatchFields DEF TypeOK
    <2>4. b.counts.omitted \in NoticeCount /\ b.counts.shortened \in NoticeCount
          /\ totals.omitted \in NoticeCount
      BY <1>0, <1>3, CountsFields DEF TypeOK
    <2>5. Exact(1) \in NoticeCount /\ Exact(e.cut) \in NoticeCount
          /\ Truthful(Exact(1), 1) /\ Truthful(Exact(e.cut), e.cut)
      BY <1>2, ExactIsCount, CountMaxAssumption DEF Truthful, Exact
    <2>6. Truthful(r.counts.shortened, Held'.cut + inHand.cut)
      <3>1. Truthful(b.counts.shortened, Held.cut + inHand.cut)
        BY <1>3 DEF IInv, SplitAccounts
      <3>2. CASE refused
        BY <1>4, <1>13, <3>1, <3>2
      <3>3. CASE ~refused
        <4>1. Truthful(Plus(b.counts.shortened, Exact(e.cut)), Held.cut + inHand.cut + e.cut)
          BY <1>2, <2>3, <2>4, <2>5, <3>1, PlusIsTruthful
        <4>2. Held'.cut + inHand.cut = Held.cut + inHand.cut + e.cut
          BY <1>2, <1>13, <2>3, <3>3, BatchFields, <1>0, SMTT(30) DEF TypeOK
        <4> QED
          BY <1>4, <3>3, <4>1, <4>2
      <3> QED
        BY <3>2, <3>3
    <2>7. Truthful(Plus(totals.omitted, r.counts.omitted), gone'.refused)
      <3>1. Truthful(Plus(totals.omitted, b.counts.omitted), gone.refused)
        BY <1>3 DEF IInv, SplitAccounts
      <3>2. CASE refused
        <4>1. Truthful(Plus(Plus(totals.omitted, b.counts.omitted), Exact(1)), gone.refused + 1)
          BY <1>7, <2>4, <2>5, <3>1, PlusIsTruthful, PlusIsCount
        <4>2. Plus(Plus(totals.omitted, b.counts.omitted), Exact(1))
                = Plus(totals.omitted, r.counts.omitted)
          BY <1>4, <2>4, <2>5, <3>2, PlusAssociates
        <4> QED
          BY <1>7, <3>2, <4>1, <4>2
      <3>3. CASE ~refused
        BY <1>4, <1>7, <3>1, <3>3
      <3> QED
        BY <3>2, <3>3
    <2> QED
      BY <1>6, <1>7, <2>1, <2>2, <2>6, <2>7 DEF IInv, SplitAccounts
  <1>15. (observed = delivered.public + delivered.private + Size(Held) + Size(inHand)
                        + gone.refused + gone.dropped)'
    <2>1. Size(inHand) \in Nat /\ delivered.public \in Nat /\ delivered.private \in Nat
          /\ gone.dropped \in Nat
      BY <1>0, StateFields, BatchSizes DEF TypeOK
    <2> QED
      BY <1>0, <1>6, <1>7, <1>13, <2>1, SMTT(30) DEF IInv
  <1> QED
    BY <1>8, <1>10, <1>11, <1>12, <1>14, <1>15 DEF IInv


\* What the entries held and in hand measure, before and after a step.
LEMMA Measures ==
    ASSUME TypeOK
    PROVE  /\ Size(Held) = Size(idle.entries) + Size(prelude) + Size(bucket.entries)
           /\ Held.cut = idle.entries.cut + prelude.cut + bucket.entries.cut
           /\ Size(idle.entries) \in Nat /\ Size(prelude) \in Nat
           /\ Size(bucket.entries) \in Nat /\ Size(inHand) \in Nat
           /\ idle.entries.cut \in Nat /\ prelude.cut \in Nat /\ bucket.entries.cut \in Nat
           /\ inHand.cut \in Nat
           /\ idle.entries.bytes \in Nat /\ prelude.bytes \in Nat /\ bucket.entries.bytes \in Nat
  BY StateFields, BatchSizes, BatchFields DEF TypeOK

\* The empty batch.
LEMMA NoBatchIsEmpty ==
    NoBatch \in Batch /\ Size(NoBatch) = 0 /\ NoBatch.cut = 0 /\ NoBatch.plain = 0
    /\ NoBatch.private = 0 /\ NoBatch.bytes = 0
  BY DEF NoBatch, Batch, Size

\* What a window committed and emptied leaves of the accounts.
LEMMA Settled ==
    ASSUME NEW t \in Counts, NEW c \in Counts, NEW x \in Nat, NEW y \in Nat, NEW z \in Nat,
           NEW w \in Nat,
           Truthful(t.shortened, x), Truthful(c.shortened, y),
           Truthful(t.abandoned, z), Truthful(c.abandoned, w)
    PROVE  /\ Truthful(CountsPlus(t, c).shortened, x + y)
           /\ Truthful(CountsPlus(t, c).abandoned, z + w)
           /\ CountsPlus(t, c).omitted = Plus(t.omitted, c.omitted)
           /\ Plus(CountsPlus(t, c).omitted, Exact(0)) = Plus(t.omitted, c.omitted)
  <1>1. /\ CountsPlus(t, c).shortened = Plus(t.shortened, c.shortened)
        /\ CountsPlus(t, c).abandoned = Plus(t.abandoned, c.abandoned)
        /\ CountsPlus(t, c).omitted = Plus(t.omitted, c.omitted)
    BY DEF CountsPlus
  <1>2. Plus(t.omitted, c.omitted) \in NoticeCount
    BY CountsFields, PlusIsCount
  <1> QED
    BY <1>1, <1>2, CountsFields, PlusIsTruthful, PlusZero

\* The empty triple says truthfully that nothing was lost.
LEMMA NothingLost ==
    NoCounts.omitted = Exact(0) /\ NoCounts.shortened = Exact(0) /\ NoCounts.abandoned = Exact(0)
    /\ Truthful(Exact(0), 0)
  BY DEF NoCounts, Truthful, Exact

\* What is delivered, by the kind of text.
LEMMA DeliverFields ==
    ASSUME TypeOK, NEW e \in Batch, NEW c \in Counts, Deliver(e, c)
    PROVE  /\ delivered' \in [public : Nat, private : Nat]
           /\ delivered'.public = delivered.public + e.plain + e.cut
           /\ delivered'.public + delivered'.private = delivered.public + delivered.private + Size(e)
           /\ gone' \in [refused : Nat, dropped : Nat, cut : Nat]
           /\ gone'.cut = gone.cut + e.cut
           /\ gone'.refused = gone.refused /\ gone'.dropped = gone.dropped
           /\ reported' \in Counts /\ reported' = CountsPlus(reported, c)
  <1>1. e.plain \in Nat /\ e.cut \in Nat /\ e.private \in Nat
    BY BatchFields
  <1>2. delivered.public \in Nat /\ delivered.private \in Nat /\ gone.cut \in Nat
        /\ gone.refused \in Nat /\ gone.dropped \in Nat
    BY StateFields
  <1>3. reported' \in Counts /\ reported' = CountsPlus(reported, c)
    BY CountsPlusIsCounts DEF Deliver, TypeOK
  <1>4. delivered' = [public |-> delivered.public + e.plain + e.cut,
                      private |-> delivered.private + e.private]
    BY DEF Deliver
  <1>5. /\ delivered' \in [public : Nat, private : Nat]
        /\ delivered'.public = delivered.public + e.plain + e.cut
        /\ delivered'.public + delivered'.private = delivered.public + delivered.private + Size(e)
    BY <1>1, <1>2, <1>4, SMTT(30) DEF Size
  <1>6. gone' = [gone EXCEPT !.cut = gone.cut + e.cut]
    BY DEF Deliver
  <1>7. /\ gone' \in [refused : Nat, dropped : Nat, cut : Nat]
        /\ gone'.cut = gone.cut + e.cut
        /\ gone'.refused = gone.refused /\ gone'.dropped = gone.dropped
    BY <1>1, <1>2, <1>6 DEF TypeOK
  <1> QED
    BY <1>3, <1>5, <1>7

\* The idle window is reported.
LEMMA PollIInv ==
    ASSUME IInv, Poll
    PROVE  IInv'
  <1>0. /\ TypeOK /\ owner = NoCaller /\ idle' = NoBucket /\ undelivered' = NoCounts
        /\ bucket = NoBucket /\ prelude = NoBatch /\ inHand = NoBatch
        /\ Commit(idle.counts) /\ Deliver(idle.entries, CountsPlus(idle.counts, undelivered))
        /\ UNCHANGED <<privacy, owner, prelude, bucket, drained, drainedShortened, gate, pc, inHand,
                       observed>>
    BY DEF IInv, OwnedState, Poll, callers
  <1>1. /\ idle.entries \in Batch /\ idle.counts \in Counts /\ undelivered \in Counts
        /\ totals \in Counts /\ reported \in Counts /\ revision \in 0 .. CountMax
        /\ CountsPlus(idle.counts, undelivered) \in Counts
    BY <1>0, StateFields, CountsPlusIsCounts DEF TypeOK
  <1>2. totals' = CountsPlus(totals, idle.counts) /\ totals' \in Counts
        /\ revision' \in 0 .. CountMax
    BY <1>0, <1>1, CommitAdds
  <1>3. /\ delivered' \in [public : Nat, private : Nat]
        /\ delivered'.public + delivered'.private
             = delivered.public + delivered.private + Size(idle.entries)
        /\ gone' \in [refused : Nat, dropped : Nat, cut : Nat]
        /\ gone'.cut = gone.cut + idle.entries.cut
        /\ gone'.refused = gone.refused /\ gone'.dropped = gone.dropped
        /\ reported' \in Counts
        /\ reported' = CountsPlus(reported, CountsPlus(idle.counts, undelivered))
    BY <1>0, <1>1, DeliverFields
  <1>4. TypeOK'
    BY <1>0, <1>2, <1>3, NoBucketIsBucket, NoCountsIsCounts DEF TypeOK
  <1>5. OneOperation' /\ OwnedState' /\ NothingPublicIsHeld'
    BY <1>0, NoBucketIsBucket, NoBatchIsEmpty
    DEF IInv, OneOperation, OwnedState, NothingPublicIsHeld
  <1>6. WindowsAreBounded'
    BY <1>0, NoBucketIsBucket, NoBatchIsEmpty, InboxAssumption DEF IInv, WindowsAreBounded
  <1>7. ReportsCatchUp'
    BY <1>0, <1>1, <1>2, <1>3, ReportedInFull DEF IInv, ReportsCatchUp
  <1>8. /\ Size(Held)' = 0 /\ Held'.cut = 0 /\ Size(inHand) = 0 /\ inHand.cut = 0
        /\ Size(Held) = Size(idle.entries) /\ Held.cut = idle.entries.cut
        /\ Size(idle.entries) \in Nat /\ idle.entries.cut \in Nat
    <2>1. /\ Size(Held) = Size(idle.entries) + Size(prelude) + Size(bucket.entries)
          /\ Held.cut = idle.entries.cut + prelude.cut + bucket.entries.cut
          /\ (Size(Held) = Size(idle.entries) + Size(prelude) + Size(bucket.entries))'
          /\ (Held.cut = idle.entries.cut + prelude.cut + bucket.entries.cut)'
          /\ Size(idle.entries) \in Nat /\ idle.entries.cut \in Nat
      BY <1>0, <1>4, Measures, PTL
    <2> QED
      BY <1>0, <2>1, NoBucketIsBucket, NoBatchIsEmpty
  <1>9. SplitAccounts'
    <2>1. /\ Pending = idle.counts /\ Pending' = NoCounts
          /\ idle'.counts = NoCounts /\ bucket'.counts = NoCounts
      BY <1>0, NoBucketIsBucket DEF Pending
    <2>2. /\ Truthful(totals.shortened, gone.cut) /\ Truthful(totals.abandoned, gone.dropped)
          /\ Truthful(idle.counts.shortened, idle.entries.cut)
          /\ Truthful(idle.counts.abandoned, 0)
          /\ Truthful(Plus(totals.omitted, idle.counts.omitted), gone.refused)
      BY <1>8, <2>1, NothingLost DEF IInv, SplitAccounts
    <2>3. gone.cut \in Nat /\ gone.dropped \in Nat
      BY <1>0, StateFields
    <2>4. /\ Truthful(totals'.shortened, gone.cut + idle.entries.cut)
          /\ Truthful(totals'.abandoned, gone.dropped + 0)
          /\ Plus(totals'.omitted, Exact(0)) = Plus(totals.omitted, idle.counts.omitted)
      <3>1. idle.entries.cut \in Nat /\ 0 \in Nat
        BY <1>8
      <3>2. /\ Truthful(CountsPlus(totals, idle.counts).shortened, gone.cut + idle.entries.cut)
            /\ Truthful(CountsPlus(totals, idle.counts).abandoned, gone.dropped + 0)
            /\ Plus(CountsPlus(totals, idle.counts).omitted, Exact(0))
                 = Plus(totals.omitted, idle.counts.omitted)
        BY <1>1, <2>2, <2>3, <3>1, Settled, ZenonT(60)
      <3> QED
        BY <1>2, <3>2
    <2>5. gone.dropped + 0 = gone.dropped /\ Held'.cut + inHand'.cut = 0
      BY <1>0, <1>8, <2>3
    <2> QED
      BY <1>3, <2>1, <2>2, <2>4, <2>5, NothingLost DEF SplitAccounts
  <1>10. (observed = delivered.public + delivered.private + Size(Held) + Size(inHand)
                        + gone.refused + gone.dropped)'
    <2>1. delivered.public \in Nat /\ delivered.private \in Nat /\ gone.refused \in Nat
          /\ gone.dropped \in Nat
      BY <1>0, StateFields
    <2>2. observed = delivered.public + delivered.private + Size(Held) + gone.refused + gone.dropped
      BY <1>8, <2>1, SMTT(30) DEF IInv
    <2>3. /\ observed' = observed /\ Size(inHand)' = 0
          /\ gone'.refused = gone.refused /\ gone'.dropped = gone.dropped
      BY <1>0, <1>3, <1>8
    <2>4. delivered'.public \in Nat /\ delivered'.private \in Nat
      BY <1>3
    <2> QED
      BY <1>3, <1>8, <2>1, <2>2, <2>3, <2>4, SMTT(30)
  <1> QED
    BY <1>4, <1>5, <1>6, <1>7, <1>9, <1>10 DEF IInv


\* A session becomes private while nobody's window is active: what the idle window
\* holds stays, as fixed text that fits, and is no longer said to be shortened.
LEMMA ActivatePrivacyIInv ==
    ASSUME IInv, NEW c \in Caller, ActivatePrivacy(c)
    PROVE  IInv'
  <1>0. /\ TypeOK /\ pc[c] = "gated" /\ pc' = [pc EXCEPT ![c] = "private"] /\ privacy' = TRUE
        /\ owner = NoCaller /\ gate = c /\ bucket = NoBucket /\ prelude = NoBatch
        /\ inHand = NoBatch
        /\ idle' = PrivateBucket(idle)
        /\ UNCHANGED <<owner, drained, drainedShortened, undelivered, totals, revision, gate,
                       inHand, observed, delivered, gone, reported>>
    BY DEF IInv, OneOperation, OwnedState, ActivatePrivacy, history
  <1>1. prelude' = NoBatch
    <2>1. Privatized(NoBatch) = [plain |-> 0, cut |-> 0, private |-> 0, bytes |-> 0]
      BY NoBatchIsEmpty, InboxAssumption DEF Privatized
    <2> QED
      BY <1>0, <2>1 DEF ActivatePrivacy, NoBatch
  <1>2. bucket' = NoBucket
    <2>1. NoBucket = [entries |-> NoBatch, spentCount |-> 0, spentBytes |-> 0,
                      counts |-> [omitted |-> Exact(0), shortened |-> Exact(0),
                                  abandoned |-> Exact(0)], exhausted |-> FALSE]
      BY DEF NoBucket, NoCounts
    <2>2. Privatized(NoBatch) = NoBatch
      BY NoBatchIsEmpty, InboxAssumption DEF Privatized, NoBatch
    <2>3. PrivateBucket(NoBucket) = NoBucket
      <3>1. NoBucket.entries = NoBatch /\ NoBucket.counts.omitted = Exact(0)
            /\ NoBucket.counts.abandoned = Exact(0)
        BY NoBucketIsBucket, NothingLost
      <3>2. [NoCounts EXCEPT !.shortened = Exact(0)] = NoCounts
        BY DEF NoCounts
      <3>3. PrivateBucket(NoBucket) = [NoBucket EXCEPT !.entries = NoBatch, !.spentBytes = 0,
                                                       !.counts = NoCounts]
        BY <2>2, <3>1, <3>2, NoBatchIsEmpty, NoBucketIsBucket DEF PrivateBucket
      <3> QED
        BY <2>1, <3>3 DEF NoCounts
    <2>4. [NoBucket EXCEPT !.spentBytes = 0] = NoBucket
      BY NoBucketIsBucket, SMTT(30) DEF Bucket
    <2> QED
      BY <1>0, <2>3, <2>4, NoBucketIsBucket DEF ActivatePrivacy
  <1>3. /\ idle \in Bucket /\ idle.entries \in Batch /\ Size(idle.entries) \in Nat
        /\ idle.spentCount = Size(idle.entries) /\ idle.spentCount <= MaxCount
    BY <1>0, BucketFields, BatchSizes DEF TypeOK, IInv, WindowsAreBounded
  <1>4. /\ idle' \in Bucket /\ idle'.entries = Privatized(idle.entries)
        /\ idle'.spentCount = idle.spentCount
        /\ idle'.spentBytes = Size(idle.entries) * PrivateBytes
        /\ idle'.counts.omitted = idle.counts.omitted
        /\ idle'.counts.abandoned = idle.counts.abandoned
        /\ idle'.counts.shortened = Exact(0)
    BY <1>0, <1>3, PrivateBucketFields
  <1>5. /\ idle'.entries \in Batch /\ Size(idle.entries)' = Size(idle.entries)
        /\ idle'.entries.cut = 0 /\ idle'.entries.plain = 0
        /\ idle'.entries.bytes = idle'.spentBytes /\ idle'.entries.bytes \in Nat
    BY <1>3, <1>4, PrivatizedSizes, BatchFields
  <1>6. TypeOK'
    BY <1>0, <1>1, <1>2, <1>4, NoBatchIsEmpty, NoBucketIsBucket DEF TypeOK
  <1>7. OneOperation' /\ OwnedState' /\ NothingPublicIsHeld' /\ ReportsCatchUp'
    <2>1. NothingPublicIsHeld'
      BY <1>0, <1>1, <1>2, <1>5, NoBatchIsEmpty, NoBucketIsBucket DEF NothingPublicIsHeld
    <2>2. OneOperation' /\ OwnedState'
      BY <1>0, <1>1, <1>2 DEF IInv, TypeOK, OneOperation, OwnedState
    <2> QED
      BY <1>0, <2>1, <2>2 DEF IInv, ReportsCatchUp
  <1>8. WindowsAreBounded'
    <2>1. idle'.spentBytes <= MaxText
      BY <1>3, <1>4, PrivateWindowFits
    <2>2. /\ idle'.spentCount = Size(idle.entries)' /\ idle'.entries.bytes <= idle'.spentBytes
          /\ idle'.spentCount <= MaxCount
      BY <1>3, <1>4, <1>5
    <2> QED
      BY <1>0, <1>1, <1>2, <2>1, <2>2 DEF IInv, WindowsAreBounded
  <1>9. Size(Held)' = Size(Held) /\ Held'.cut = 0 /\ inHand.cut = 0 /\ Size(Held) \in Nat
    <2>1. /\ (Size(Held) = Size(idle.entries) + Size(prelude) + Size(bucket.entries))'
          /\ (Held.cut = idle.entries.cut + prelude.cut + bucket.entries.cut)'
      BY <1>6, Measures, PTL
    <2> QED
      BY <1>0, <1>1, <1>2, <1>3, <1>5, <2>1, Measures, NoBatchIsEmpty, NoBucketIsBucket
  <1>10. SplitAccounts'
    <2>1. Pending = idle.counts /\ Pending' = idle'.counts
      BY <1>0 DEF Pending
    <2> QED
      BY <1>0, <1>2, <1>4, <1>9, <2>1, NothingLost, NoBucketIsBucket DEF IInv, SplitAccounts
  <1>11. (observed = delivered.public + delivered.private + Size(Held) + Size(inHand)
                        + gone.refused + gone.dropped)'
    BY <1>0, <1>9 DEF IInv
  <1> QED
    BY <1>6, <1>7, <1>8, <1>10, <1>11 DEF IInv

\* An operation adopts the idle window, allowance, losses and all.
LEMMA BeginIInv ==
    ASSUME IInv, NEW c \in Caller, Begin(c)
    PROVE  IInv'
  <1>0. /\ TypeOK /\ pc[c] \in {"gated", "private"} /\ pc' = [pc EXCEPT ![c] = "begun"]
        /\ owner = NoCaller /\ gate = c /\ bucket = NoBucket /\ prelude = NoBatch
        /\ inHand = NoBatch /\ c # NoCaller
        /\ owner' = c /\ prelude' = idle.entries /\ idle' = NoBucket
        /\ bucket' = [idle EXCEPT !.entries = NoBatch]
        /\ UNCHANGED <<privacy, drained, drainedShortened, undelivered, totals, revision, gate,
                       inHand, observed, delivered, gone, reported>>
    BY InboxAssumption DEF IInv, OneOperation, OwnedState, Begin, history
  <1>1. idle \in Bucket /\ idle.entries \in Batch
    BY <1>0, BucketFields DEF TypeOK
  <1>2. /\ bucket' \in Bucket /\ bucket'.entries = NoBatch /\ bucket'.counts = idle.counts
        /\ bucket'.spentCount = idle.spentCount /\ bucket'.spentBytes = idle.spentBytes
    BY <1>0, <1>1, EmptiedBucket
  <1>3. TypeOK'
    BY <1>0, <1>1, <1>2, NoBucketIsBucket DEF TypeOK
  <1>4. OneOperation' /\ OwnedState' /\ NothingPublicIsHeld' /\ ReportsCatchUp'
    <2>1. NothingPublicIsHeld'
      BY <1>0, <1>2, NoBatchIsEmpty, NoBucketIsBucket DEF IInv, NothingPublicIsHeld
    <2>2. OneOperation' /\ OwnedState'
      BY <1>0 DEF IInv, TypeOK, OneOperation, OwnedState
    <2> QED
      BY <1>0, <2>1, <2>2 DEF IInv, ReportsCatchUp
  <1>5. /\ Size(Held)' = Size(Held) /\ Held'.cut = Held.cut
        /\ Size(idle.entries) \in Nat /\ idle.entries.bytes \in Nat
    <2>1. /\ (Size(Held) = Size(idle.entries) + Size(prelude) + Size(bucket.entries))'
          /\ (Held.cut = idle.entries.cut + prelude.cut + bucket.entries.cut)'
      BY <1>3, Measures, PTL
    <2> QED
      BY <1>0, <1>2, <2>1, Measures, NoBatchIsEmpty, NoBucketIsBucket
  <1>6. WindowsAreBounded'
    BY <1>0, <1>2, <1>5, NoBucketIsBucket, NoBatchIsEmpty, InboxAssumption
    DEF IInv, WindowsAreBounded
  <1>7. SplitAccounts'
    <2>1. Pending = idle.counts /\ Pending' = idle.counts
      BY <1>0, <1>2 DEF Pending
    <2> QED
      BY <1>0, <1>2, <1>5, <2>1, NothingLost, NoBucketIsBucket DEF IInv, SplitAccounts
  <1>8. (observed = delivered.public + delivered.private + Size(Held) + Size(inHand)
                       + gone.refused + gone.dropped)'
    BY <1>0, <1>5 DEF IInv
  <1> QED
    BY <1>3, <1>4, <1>6, <1>7, <1>8 DEF IInv

\* What arrived since the last statement moves to the operation's own report.
LEMMA HoldIInv ==
    ASSUME IInv, NEW c \in Caller, Hold(c)
    PROVE  IInv'
  <1>0. /\ TypeOK /\ owner = c /\ c # NoCaller /\ idle = NoBucket
        /\ pc[c] \in {"begun", "described"}
        /\ pc' = [pc EXCEPT ![c] = IF pc[c] = "begun" THEN "streaming" ELSE "begun"]
        /\ prelude' = Join(prelude, bucket.entries)
        /\ bucket' = [bucket EXCEPT !.entries = NoBatch]
        /\ UNCHANGED <<privacy, idle, owner, drained, drainedShortened, undelivered, totals,
                       revision, gate, inHand, observed, delivered, gone, reported>>
    BY InboxAssumption DEF IInv, OwnedState, Hold, history
  <1>1. bucket \in Bucket /\ bucket.entries \in Batch /\ prelude \in Batch
    BY <1>0, BucketFields DEF TypeOK
  <1>2. /\ bucket' \in Bucket /\ bucket'.entries = NoBatch /\ bucket'.counts = bucket.counts
        /\ bucket'.spentCount = bucket.spentCount /\ bucket'.spentBytes = bucket.spentBytes
    BY <1>0, <1>1, EmptiedBucket
  <1>3. /\ prelude' \in Batch /\ Size(prelude)' = Size(prelude) + Size(bucket.entries)
        /\ prelude'.bytes = prelude.bytes + bucket.entries.bytes
        /\ prelude'.cut = prelude.cut + bucket.entries.cut
        /\ prelude'.plain = prelude.plain + bucket.entries.plain
    BY <1>0, <1>1, BatchSizes
  <1>4. TypeOK'
    BY <1>0, <1>2, <1>3 DEF TypeOK
  <1>5. OneOperation' /\ OwnedState' /\ NothingPublicIsHeld' /\ ReportsCatchUp'
    <2>1. NothingPublicIsHeld'
      BY <1>0, <1>2, <1>3, NoBatchIsEmpty DEF IInv, NothingPublicIsHeld
    <2>2. OneOperation' /\ OwnedState'
      BY <1>0 DEF IInv, TypeOK, OneOperation, OwnedState
    <2> QED
      BY <1>0, <2>1, <2>2 DEF IInv, ReportsCatchUp
  <1>6. /\ Size(Held)' = Size(Held) /\ Held'.cut = Held.cut
    <2>1. /\ (Size(Held) = Size(idle.entries) + Size(prelude) + Size(bucket.entries))'
          /\ (Held.cut = idle.entries.cut + prelude.cut + bucket.entries.cut)'
      BY <1>4, Measures, PTL
    <2> QED
      BY <1>0, <1>2, <1>3, <2>1, Measures, NoBatchIsEmpty, SMTT(30)
  <1>7. WindowsAreBounded'
    <2>1. /\ Size(prelude) \in Nat /\ Size(bucket.entries) \in Nat /\ Size(inHand) \in Nat
          /\ prelude.bytes \in Nat /\ bucket.entries.bytes \in Nat
      BY <1>0, Measures
    <2> QED
      BY <1>0, <1>2, <1>3, <2>1, NoBatchIsEmpty, SMTT(30) DEF IInv, WindowsAreBounded
  <1>8. SplitAccounts'
    <2>1. Pending = bucket.counts /\ Pending' = bucket.counts
      BY <1>0, <1>2 DEF Pending
    <2> QED
      BY <1>0, <1>2, <1>6, <2>1 DEF IInv, SplitAccounts
  <1>9. (observed = delivered.public + delivered.private + Size(Held) + Size(inHand)
                       + gone.refused + gone.dropped)'
    BY <1>0, <1>6 DEF IInv
  <1> QED
    BY <1>4, <1>5, <1>7, <1>8, <1>9 DEF IInv


\* What arrived during a statement moves into the statement's results.
LEMMA TakeStatementIInv ==
    ASSUME IInv, NEW c \in Caller, TakeStatement(c)
    PROVE  IInv'
  <1>0. /\ TypeOK /\ owner = c /\ c # NoCaller /\ idle = NoBucket
        /\ pc[c] = "streaming" /\ pc' = [pc EXCEPT ![c] = "described"]
        /\ inHand' = Join(inHand, bucket.entries)
        /\ drained' = drained + Size(bucket.entries)
        /\ drainedShortened' = drainedShortened + bucket.entries.cut
        /\ bucket' = [bucket EXCEPT !.entries = NoBatch]
        /\ UNCHANGED <<privacy, idle, owner, prelude, undelivered, totals, revision, gate,
                       observed, delivered, gone, reported>>
    BY InboxAssumption DEF IInv, OwnedState, TakeStatement, history
  <1>1. bucket \in Bucket /\ bucket.entries \in Batch /\ inHand \in Batch
        /\ Size(bucket.entries) \in Nat /\ bucket.entries.cut \in Nat
    BY <1>0, BucketFields, BatchSizes, BatchFields DEF TypeOK
  <1>2. /\ bucket' \in Bucket /\ bucket'.entries = NoBatch /\ bucket'.counts = bucket.counts
        /\ bucket'.spentCount = bucket.spentCount /\ bucket'.spentBytes = bucket.spentBytes
    BY <1>0, <1>1, EmptiedBucket
  <1>3. /\ inHand' \in Batch /\ Size(inHand)' = Size(inHand) + Size(bucket.entries)
        /\ inHand'.cut = inHand.cut + bucket.entries.cut
        /\ inHand'.plain = inHand.plain + bucket.entries.plain
    BY <1>0, <1>1, BatchSizes
  <1>4. TypeOK'
    BY <1>0, <1>1, <1>2, <1>3 DEF TypeOK
  <1>5. OneOperation' /\ OwnedState' /\ NothingPublicIsHeld' /\ ReportsCatchUp'
    <2>1. NothingPublicIsHeld'
      BY <1>0, <1>2, <1>3, NoBatchIsEmpty DEF IInv, NothingPublicIsHeld
    <2>2. drained' = Size(inHand)' /\ drainedShortened' = inHand'.cut
      BY <1>0, <1>3 DEF IInv, OwnedState
    <2>3. OneOperation' /\ OwnedState'
      BY <1>0, <2>2 DEF IInv, TypeOK, OneOperation, OwnedState
    <2> QED
      BY <1>0, <2>1, <2>3 DEF IInv, ReportsCatchUp
  <1>6. /\ Size(Held)' + Size(inHand)' = Size(Held) + Size(inHand)
        /\ Held'.cut + inHand'.cut = Held.cut + inHand.cut
        /\ Size(Held)' \in Nat /\ Size(Held) \in Nat
    <2>1. /\ (Size(Held) = Size(idle.entries) + Size(prelude) + Size(bucket.entries))'
          /\ (Held.cut = idle.entries.cut + prelude.cut + bucket.entries.cut)'
      BY <1>4, Measures, PTL
    <2> QED
      BY <1>0, <1>2, <1>3, <2>1, Measures, NoBatchIsEmpty, SMTT(30)
  <1>7. WindowsAreBounded'
    <2>1. /\ Size(prelude) \in Nat /\ Size(bucket.entries) \in Nat /\ Size(inHand) \in Nat
          /\ prelude.bytes \in Nat /\ bucket.entries.bytes \in Nat
      BY <1>0, Measures
    <2>2. bucket.spentBytes \in Nat /\ prelude.bytes + bucket.entries.bytes <= bucket.spentBytes
      BY <1>0, StateFields DEF IInv, WindowsAreBounded
    <2> QED
      BY <1>0, <1>2, <1>3, <2>1, <2>2, NoBatchIsEmpty, SMTT(30) DEF IInv, WindowsAreBounded
  <1>8. SplitAccounts'
    <2>1. Pending = bucket.counts /\ Pending' = bucket.counts
      BY <1>0, <1>2 DEF Pending
    <2> QED
      BY <1>0, <1>2, <1>6, <2>1 DEF IInv, SplitAccounts
  <1>9. (observed = delivered.public + delivered.private + Size(Held) + Size(inHand)
                       + gone.refused + gone.dropped)'
    <2>1. delivered.public \in Nat /\ delivered.private \in Nat /\ gone.refused \in Nat
          /\ gone.dropped \in Nat /\ Size(inHand) \in Nat /\ Size(inHand)' \in Nat
      BY <1>0, <1>3, StateFields, BatchSizes DEF TypeOK
    <2> QED
      BY <1>0, <1>6, <2>1, SMTT(30) DEF IInv
  <1> QED
    BY <1>4, <1>5, <1>7, <1>8, <1>9 DEF IInv

\* What ends an operation leaves nothing of it behind.
LEMMA NoOperationEnds ==
    ASSUME NoOperation
    PROVE  /\ owner' = NoCaller /\ prelude' = NoBatch /\ bucket' = NoBucket /\ inHand' = NoBatch
           /\ drained' = 0 /\ drainedShortened' = 0
  BY DEF NoOperation

\* The operation's report carries everything it still held, and what was owed.
LEMMA FinishIInv ==
    ASSUME IInv, NEW c \in Caller, Finish(c)
    PROVE  IInv'
  <1> DEFINE all == Join(inHand, Join(prelude, bucket.entries))
  <1>0. /\ TypeOK /\ owner = c /\ c # NoCaller /\ idle = NoBucket /\ gate = c
        /\ pc[c] \in {"begun", "streaming"} /\ pc' = [pc EXCEPT ![c] = "ended"]
        /\ Commit(bucket.counts) /\ Deliver(all, CountsPlus(bucket.counts, undelivered))
        /\ undelivered' = NoCounts /\ NoOperation
        /\ UNCHANGED <<privacy, idle, gate, observed>>
    BY InboxAssumption DEF IInv, OneOperation, OwnedState, Finish
  <1>1. /\ bucket.entries \in Batch /\ bucket.counts \in Counts /\ undelivered \in Counts
        /\ totals \in Counts /\ reported \in Counts /\ revision \in 0 .. CountMax
        /\ CountsPlus(bucket.counts, undelivered) \in Counts
        /\ prelude \in Batch /\ inHand \in Batch
    BY <1>0, StateFields, CountsPlusIsCounts DEF TypeOK
  <1>2. totals' = CountsPlus(totals, bucket.counts) /\ totals' \in Counts
        /\ revision' \in 0 .. CountMax
    BY <1>0, <1>1, CommitAdds
  \* Nothing was idle, so what is delivered is all that was held or in hand.
  <1>3. /\ all \in Batch /\ Size(all) \in Nat /\ all.cut \in Nat
        /\ Size(all) = Size(Held) + Size(inHand)
        /\ all.cut = Held.cut + inHand.cut
    <2>1. /\ Join(prelude, bucket.entries) \in Batch
          /\ Size(Join(prelude, bucket.entries)) = Size(prelude) + Size(bucket.entries)
          /\ Join(prelude, bucket.entries).cut = prelude.cut + bucket.entries.cut
      BY <1>1, BatchSizes
    <2>2. /\ all \in Batch
          /\ Size(all) = Size(inHand) + Size(Join(prelude, bucket.entries))
          /\ all.cut = inHand.cut + Join(prelude, bucket.entries).cut
      BY <1>1, <2>1, BatchSizes
    <2> HIDE DEF all
    <2>3. Size(all) \in Nat /\ all.cut \in Nat
      BY <2>2, BatchSizes, BatchFields
    <2> QED
      BY <1>0, <2>1, <2>2, <2>3, Measures, NoBucketIsBucket, NoBatchIsEmpty, SMTT(30)
  <1> HIDE DEF all
  <1>4. /\ delivered' \in [public : Nat, private : Nat]
        /\ delivered'.public + delivered'.private
             = delivered.public + delivered.private + Size(all)
        /\ gone' \in [refused : Nat, dropped : Nat, cut : Nat]
        /\ gone'.cut = gone.cut + all.cut
        /\ gone'.refused = gone.refused /\ gone'.dropped = gone.dropped
        /\ reported' \in Counts
        /\ reported' = CountsPlus(reported, CountsPlus(bucket.counts, undelivered))
    BY <1>0, <1>1, <1>3, DeliverFields
  <1>5. TypeOK'
    BY <1>0, <1>2, <1>4, NoOperationEnds, NoBatchIsEmpty, NoBucketIsBucket, NoCountsIsCounts
    DEF TypeOK
  <1>6. OneOperation' /\ OwnedState' /\ NothingPublicIsHeld'
    <2>1. OneOperation'
      BY <1>0, NoOperationEnds DEF IInv, TypeOK, OneOperation
    <2> QED
      BY <1>0, <2>1, NoOperationEnds, NoBucketIsBucket, NoBatchIsEmpty
      DEF OwnedState, NothingPublicIsHeld
  <1>7. WindowsAreBounded'
    BY <1>0, NoOperationEnds, NoBucketIsBucket, NoBatchIsEmpty, InboxAssumption
    DEF IInv, WindowsAreBounded
  <1>8. ReportsCatchUp'
    BY <1>0, <1>1, <1>2, <1>4, ReportedInFull DEF IInv, ReportsCatchUp
  <1>9. Size(Held)' = 0 /\ Held'.cut = 0 /\ Size(inHand)' = 0 /\ inHand'.cut = 0
    <2>1. /\ (Size(Held) = Size(idle.entries) + Size(prelude) + Size(bucket.entries))'
          /\ (Held.cut = idle.entries.cut + prelude.cut + bucket.entries.cut)'
      BY <1>5, Measures, PTL
    <2> QED
      BY <1>0, <2>1, NoOperationEnds, NoBucketIsBucket, NoBatchIsEmpty
  <1>10. SplitAccounts'
    <2>1. Pending = bucket.counts /\ Pending' = NoCounts /\ idle'.counts = NoCounts
          /\ bucket'.counts = NoCounts
      BY <1>0, NoOperationEnds, NoBucketIsBucket DEF Pending
    <2>2. /\ Truthful(totals.shortened, gone.cut) /\ Truthful(totals.abandoned, gone.dropped)
          /\ Truthful(bucket.counts.shortened, all.cut)
          /\ Truthful(bucket.counts.abandoned, 0)
          /\ Truthful(Plus(totals.omitted, bucket.counts.omitted), gone.refused)
      BY <1>3, <2>1, NothingLost DEF IInv, SplitAccounts
    <2>3. gone.cut \in Nat /\ gone.dropped \in Nat /\ 0 \in Nat
      BY <1>0, StateFields
    <2>4. /\ Truthful(CountsPlus(totals, bucket.counts).shortened, gone.cut + all.cut)
          /\ Truthful(CountsPlus(totals, bucket.counts).abandoned, gone.dropped + 0)
          /\ Plus(CountsPlus(totals, bucket.counts).omitted, Exact(0))
               = Plus(totals.omitted, bucket.counts.omitted)
      BY <1>1, <1>3, <2>2, <2>3, Settled, ZenonT(60)
    <2>5. gone.dropped + 0 = gone.dropped /\ Held'.cut + inHand'.cut = 0
      BY <1>9, <2>3
    <2> QED
      BY <1>2, <1>4, <2>1, <2>2, <2>4, <2>5, NothingLost DEF SplitAccounts
  <1>11. (observed = delivered.public + delivered.private + Size(Held) + Size(inHand)
                        + gone.refused + gone.dropped)'
    <2>1. delivered.public \in Nat /\ delivered.private \in Nat /\ gone.refused \in Nat
          /\ gone.dropped \in Nat /\ Size(Held) \in Nat /\ Size(inHand) \in Nat
      BY <1>0, <1>1, StateFields, BatchSizes
    <2>2. observed = delivered.public + delivered.private + Size(all) + gone.refused + gone.dropped
      BY <1>3, <2>1, SMTT(30) DEF IInv
    <2>3. delivered'.public \in Nat /\ delivered'.private \in Nat
      BY <1>4
    <2> QED
      BY <1>0, <1>3, <1>4, <1>9, <2>1, <2>2, <2>3, SMTT(30)
  <1> QED
    BY <1>5, <1>6, <1>7, <1>8, <1>10, <1>11 DEF IInv


\* What an abandoned operation still held is an idle window of its own.
LEMMA NewIdleBucket ==
    ASSUME NEW e \in Batch, Exact(e.cut) \in NoticeCount, Size(e) \in Nat, NEW b,
           b = [NoBucket EXCEPT !.entries = e, !.spentCount = Size(e), !.spentBytes = e.bytes,
                                !.counts = [NoCounts EXCEPT !.shortened = Exact(e.cut)]]
    PROVE  /\ b \in Bucket /\ b.entries = e /\ b.spentCount = Size(e) /\ b.spentBytes = e.bytes
           /\ b.counts.shortened = Exact(e.cut) /\ b.counts.omitted = Exact(0)
           /\ b.counts.abandoned = Exact(0)
  <1> DEFINE c == [NoCounts EXCEPT !.shortened = Exact(e.cut)]
  <1>1. c \in Counts /\ c.shortened = Exact(e.cut) /\ c.omitted = Exact(0)
        /\ c.abandoned = Exact(0)
    BY NoCountsIsCounts, NothingLost DEF Counts
  <1>2. e.bytes \in Nat
    BY BatchFields
  <1> HIDE DEF c
  <1>3. b = [NoBucket EXCEPT !.entries = e, !.spentCount = Size(e), !.spentBytes = e.bytes,
                             !.counts = c]
    BY DEF c
  <1> QED
    BY <1>1, <1>2, <1>3 DEF Bucket, NoBucket

\* The losses that a dropped future commits.
LEMMA LostCounts ==
    ASSUME NEW c \in Counts, NEW n \in Nat, NEW m \in Nat, n <= CountMax, m <= CountMax,
           c.abandoned = Exact(0), NEW l,
           l = [c EXCEPT !.abandoned = Plus(c.abandoned, Exact(n)), !.shortened = Exact(m)]
    PROVE  /\ l \in Counts /\ l.omitted = c.omitted
           /\ Truthful(l.shortened, m) /\ Truthful(l.abandoned, n)
  <1>1. Exact(n) \in NoticeCount /\ Exact(m) \in NoticeCount /\ c.omitted \in NoticeCount
    BY ExactIsCount, CountsFields
  <1>2. Plus(c.abandoned, Exact(n)) = Exact(n)
    BY <1>1, PlusZero
  <1>3. Truthful(Exact(n), n) /\ Truthful(Exact(m), m)
    BY DEF Truthful, Exact
  <1>4. l \in Counts /\ l.omitted = c.omitted /\ l.shortened = Exact(m) /\ l.abandoned = Exact(n)
    BY <1>1, <1>2 DEF Counts
  <1> QED
    BY <1>3, <1>4

\* An operation's future is dropped: what its results held is lost and owned up to.
LEMMA DropIInv ==
    ASSUME IInv, NEW c \in Caller, Drop(c)
    PROVE  IInv'
  <1> DEFINE held == Join(prelude, bucket.entries)
             lost == [bucket.counts EXCEPT
                        !.abandoned = Plus(bucket.counts.abandoned, Exact(drained)),
                        !.shortened = Exact(drainedShortened)]
  <1>0. /\ TypeOK /\ owner = c /\ c # NoCaller /\ idle = NoBucket /\ gate = c
        /\ pc[c] \in {"begun", "streaming", "described"} /\ pc' = [pc EXCEPT ![c] = "ended"]
        /\ drained = Size(inHand) /\ drainedShortened = inHand.cut
        /\ Commit(lost) /\ undelivered' = CountsPlus(undelivered, lost)
        /\ idle' = [NoBucket EXCEPT !.entries = held, !.spentCount = Size(held),
                                    !.spentBytes = held.bytes,
                                    !.counts = [NoCounts EXCEPT !.shortened = Exact(held.cut)]]
        /\ gone' = [gone EXCEPT !.dropped = gone.dropped + Size(inHand),
                                !.cut = gone.cut + inHand.cut]
        /\ NoOperation
        /\ UNCHANGED <<privacy, gate, observed, delivered, reported>>
    BY InboxAssumption DEF IInv, OneOperation, OwnedState, Drop
  <1>1. /\ bucket.entries \in Batch /\ bucket.counts \in Counts /\ undelivered \in Counts
        /\ totals \in Counts /\ reported \in Counts /\ revision \in 0 .. CountMax
        /\ prelude \in Batch /\ inHand \in Batch
        /\ bucket.spentCount \in Nat /\ bucket.spentBytes \in Nat
    BY <1>0, StateFields DEF TypeOK
  <1>2. /\ held \in Batch /\ Size(held) \in Nat
        /\ Size(held) = Size(prelude) + Size(bucket.entries)
        /\ held.cut = prelude.cut + bucket.entries.cut
        /\ held.plain = prelude.plain + bucket.entries.plain
        /\ held.bytes = prelude.bytes + bucket.entries.bytes
    BY <1>1, BatchSizes
  <1>3. /\ held.cut \in Nat /\ held.cut <= Size(held) /\ held.bytes \in Nat
        /\ Size(inHand) \in Nat /\ inHand.cut \in Nat /\ inHand.cut <= Size(inHand)
    BY <1>1, <1>2, BatchFields, SMTT(30) DEF Size
  <1> HIDE DEF held
  <1>4. /\ Size(held) <= MaxCount /\ Size(inHand) <= MaxCount /\ held.bytes <= MaxText
        /\ held.cut <= CountMax /\ inHand.cut <= CountMax /\ Size(inHand) <= CountMax
    <2>1. /\ bucket.spentCount = Size(held) + Size(inHand) /\ bucket.spentCount <= MaxCount
          /\ held.bytes <= bucket.spentBytes /\ bucket.spentBytes <= MaxText
      BY <1>0, <1>1, <1>2, Measures, SMTT(30) DEF IInv, WindowsAreBounded
    <2> QED
      BY <1>1, <1>2, <1>3, <2>1, InboxAssumption, CountMaxAssumption, SMTT(30)
  <1>5. /\ lost \in Counts /\ lost.omitted = bucket.counts.omitted
        /\ Truthful(lost.shortened, inHand.cut) /\ Truthful(lost.abandoned, Size(inHand))
    <2>1. bucket.counts.abandoned = Exact(0)
      BY DEF IInv, SplitAccounts
    <2> QED
      BY <1>0, <1>1, <1>3, <1>4, <2>1, LostCounts
  <1> HIDE DEF lost
  <1>6. totals' = CountsPlus(totals, lost) /\ totals' \in Counts /\ revision' \in 0 .. CountMax
        /\ undelivered' \in Counts
    BY <1>0, <1>1, <1>5, CommitAdds, CountsPlusIsCounts
  <1>7. /\ idle' \in Bucket /\ idle'.entries = held /\ idle'.spentCount = Size(held)
        /\ idle'.spentBytes = held.bytes
        /\ idle'.counts.shortened = Exact(held.cut) /\ idle'.counts.omitted = Exact(0)
        /\ idle'.counts.abandoned = Exact(0)
    BY <1>0, <1>2, <1>3, <1>4, NewIdleBucket, ExactIsCount
  <1>8. /\ gone' \in [refused : Nat, dropped : Nat, cut : Nat]
        /\ gone'.dropped = gone.dropped + Size(inHand) /\ gone'.cut = gone.cut + inHand.cut
        /\ gone'.refused = gone.refused
        /\ gone.refused \in Nat /\ gone.dropped \in Nat /\ gone.cut \in Nat
    <2>1. gone \in [refused : Nat, dropped : Nat, cut : Nat]
      BY <1>0 DEF TypeOK
    <2>2. gone' = [gone EXCEPT !.dropped = gone.dropped + Size(inHand),
                               !.cut = gone.cut + inHand.cut]
      BY <1>0
    <2>3. gone'.dropped = gone.dropped + Size(inHand) /\ gone'.cut = gone.cut + inHand.cut
          /\ gone'.refused = gone.refused
      BY <2>1, <2>2, SMTT(30)
    <2>4. gone.refused \in Nat /\ gone.dropped \in Nat /\ gone.cut \in Nat
      BY <2>1
    <2>5. gone.dropped + Size(inHand) \in Nat /\ gone.cut + inHand.cut \in Nat
      BY <1>3, <2>4
    <2> QED
      BY <2>1, <2>2, <2>3, <2>4, <2>5
  <1>9. TypeOK'
    BY <1>0, <1>6, <1>7, <1>8, NoOperationEnds, NoBatchIsEmpty, NoBucketIsBucket DEF TypeOK
  <1>10. OneOperation' /\ OwnedState' /\ NothingPublicIsHeld'
    <2>1. OneOperation'
      BY <1>0, NoOperationEnds DEF IInv, TypeOK, OneOperation
    <2>2. OwnedState'
      BY <1>0, NoOperationEnds, NoBatchIsEmpty DEF OwnedState
    <2>3. privacy => held.plain = 0 /\ held.cut = 0
      BY <1>2 DEF IInv, NothingPublicIsHeld
    <2>4. NothingPublicIsHeld'
      BY <1>0, <1>7, <2>3, NoOperationEnds, NoBatchIsEmpty, NoBucketIsBucket
      DEF NothingPublicIsHeld
    <2> QED
      BY <2>1, <2>2, <2>4
  <1>11. WindowsAreBounded'
    BY <1>0, <1>3, <1>4, <1>7, NoOperationEnds, NoBucketIsBucket, NoBatchIsEmpty, InboxAssumption
    DEF WindowsAreBounded
  <1>12. ReportsCatchUp'
    BY <1>0, <1>1, <1>5, <1>6, CountsPlusAssociates DEF IInv, ReportsCatchUp
  <1>13. /\ Size(Held)' = Size(held) /\ Held'.cut = held.cut
         /\ Size(inHand)' = 0 /\ inHand'.cut = 0
         /\ Size(Held) = Size(held) /\ Held.cut = held.cut
    <2>1. /\ (Size(Held) = Size(idle.entries) + Size(prelude) + Size(bucket.entries))'
          /\ (Held.cut = idle.entries.cut + prelude.cut + bucket.entries.cut)'
      BY <1>9, Measures, PTL
    <2>2. Size(Held)' = Size(held) /\ Held'.cut = held.cut
      BY <1>0, <1>2, <1>3, <1>7, <2>1, NoOperationEnds, NoBucketIsBucket, NoBatchIsEmpty
    <2>3. Size(Held) = Size(held) /\ Held.cut = held.cut
      BY <1>0, <1>2, Measures, NoBucketIsBucket, NoBatchIsEmpty
    <2> QED
      BY <1>0, <2>2, <2>3, NoOperationEnds, NoBatchIsEmpty
  <1>14. SplitAccounts'
    <2>1. Pending = bucket.counts /\ Pending' = idle'.counts /\ bucket'.counts.abandoned = Exact(0)
      BY <1>0, NoOperationEnds, NoBucketIsBucket, NothingLost DEF Pending
    <2>2. /\ Truthful(totals.shortened, gone.cut) /\ Truthful(totals.abandoned, gone.dropped)
          /\ Truthful(Plus(totals.omitted, lost.omitted), gone.refused)
      BY <1>5, <2>1 DEF IInv, SplitAccounts
    <2>3. /\ Truthful(CountsPlus(totals, lost).shortened, gone.cut + inHand.cut)
          /\ Truthful(CountsPlus(totals, lost).abandoned, gone.dropped + Size(inHand))
          /\ Plus(CountsPlus(totals, lost).omitted, Exact(0)) = Plus(totals.omitted, lost.omitted)
      BY <1>1, <1>3, <1>5, <1>8, <2>2, Settled, ZenonT(60)
    <2>4. Truthful(Exact(held.cut), held.cut) /\ Held'.cut + inHand'.cut = held.cut
      BY <1>3, <1>13 DEF Truthful, Exact
    <2> QED
      BY <1>6, <1>7, <1>8, <2>1, <2>2, <2>3, <2>4 DEF SplitAccounts
  <1>15. (observed = delivered.public + delivered.private + Size(Held) + Size(inHand)
                        + gone.refused + gone.dropped)'
    <2>1. delivered.public \in Nat /\ delivered.private \in Nat
      BY <1>0, StateFields
    <2>2. observed = delivered.public + delivered.private + Size(held) + Size(inHand)
                        + gone.refused + gone.dropped
      BY <1>13 DEF IInv
    <2> QED
      BY <1>0, <1>2, <1>3, <1>8, <1>13, <2>1, <2>2, SMTT(30)
  <1> QED
    BY <1>9, <1>10, <1>11, <1>12, <1>14, <1>15 DEF IInv

-----------------------------------------------------------------------------
(* The theorems.                                                           *)

\* Every step preserves the invariant.
LEMMA NextIInv == IInv /\ [Next]_vars => IInv'
  <1> SUFFICES ASSUME IInv, [Next]_vars PROVE IInv'
    OBVIOUS
  <1>1. CASE Observe
    BY <1>1, ObserveIInv
  <1>2. CASE Poll
    BY <1>2, PollIInv
  <1>3. ASSUME NEW c \in Caller, Enter(c) \/ Release(c) PROVE IInv'
    BY <1>3, GateIInv
  <1>4. ASSUME NEW c \in Caller, ActivatePrivacy(c) PROVE IInv'
    BY <1>4, ActivatePrivacyIInv
  <1>5. ASSUME NEW c \in Caller, Begin(c) PROVE IInv'
    BY <1>5, BeginIInv
  <1>6. ASSUME NEW c \in Caller, Hold(c) PROVE IInv'
    BY <1>6, HoldIInv
  <1>7. ASSUME NEW c \in Caller, TakeStatement(c) PROVE IInv'
    BY <1>7, TakeStatementIInv
  <1>8. ASSUME NEW c \in Caller, Finish(c) PROVE IInv'
    BY <1>8, FinishIInv
  <1>9. ASSUME NEW c \in Caller, Drop(c) PROVE IInv'
    BY <1>9, DropIInv
  <1>10. CASE UNCHANGED vars
    BY <1>10 DEF IInv, TypeOK, OneOperation, WindowsAreBounded, OwnedState, NothingPublicIsHeld,
       SplitAccounts, ReportsCatchUp, Held, Pending, vars, inbox, callers, history
  <1> QED
    BY <1>1, <1>2, <1>3, <1>4, <1>5, <1>6, <1>7, <1>8, <1>9, <1>10 DEF Next

\* The inductive invariant holds in every reachable state.
THEOREM InboxInvariant == Spec => []IInv
  BY InitIInv, NextIInv, PTL DEF Spec

\* Every variable keeps its type: in particular, no counter leaves its width.
THEOREM InboxTypes == Spec => []TypeOK
  <1>1. IInv => TypeOK
    BY DEF IInv
  <1> QED
    BY <1>1, InboxInvariant, PTL

\* begin() never finds an operation active: the gate admits one caller at a time.
THEOREM OperationsAreAlone == Spec => []OneOperation
  <1>1. IInv => OneOperation
    BY DEF IInv
  <1> QED
    BY <1>1, InboxInvariant, PTL

\* No window admits more than its count and its bytes, for any limits, across idle
\* polling, adoption, abandonment and privacy.
THEOREM BoundedWindows == Spec => []WindowsAreBounded
  <1>1. IInv => WindowsAreBounded
    BY DEF IInv
  <1> QED
    BY <1>1, InboxInvariant, PTL

\* Every loss is in one report or is still owed to the next.
THEOREM CaughtUpReports == Spec => []ReportsCatchUp
  <1>1. IInv => ReportsCatchUp
    BY DEF IInv
  <1> QED
    BY <1>1, InboxInvariant, PTL

\* Every notice observed is delivered, held, or truthfully owned up to, for counters
\* of any width.
THEOREM AccountedNotices == Spec => []EveryNoticeIsAccountedFor
  <1>1. IInv => EveryNoticeIsAccountedFor
    <2> SUFFICES ASSUME IInv PROVE EveryNoticeIsAccountedFor
      OBVIOUS
    <2>1. TypeOK /\ totals \in Counts /\ Pending \in Counts
      BY StateFields DEF IInv, TypeOK, Pending
    <2>2. /\ RetirementCounts.omitted = Plus(totals.omitted, Pending.omitted)
          /\ RetirementCounts.shortened = Plus(totals.shortened, Pending.shortened)
          /\ RetirementCounts.abandoned = Plus(totals.abandoned, Pending.abandoned)
      BY DEF RetirementCounts, CountsPlus
    <2>3. Truthful(RetirementCounts.omitted, gone.refused)
      BY <2>2 DEF IInv, SplitAccounts
    <2>4. Truthful(RetirementCounts.abandoned, gone.dropped)
      <3>1. Pending.abandoned = Exact(0)
        BY DEF IInv, SplitAccounts, Pending
      <3> QED
        BY <2>1, <2>2, <3>1, CountsFields, PlusZero DEF IInv, SplitAccounts
    <2>5. Truthful(RetirementCounts.shortened, gone.cut + Held.cut + inHand.cut)
      <3>1. gone.cut \in Nat /\ Held.cut \in Nat /\ inHand.cut \in Nat
        BY <2>1, StateFields, BatchFields DEF TypeOK
      <3>2. Held.cut + inHand.cut \in Nat
            /\ gone.cut + (Held.cut + inHand.cut) = gone.cut + Held.cut + inHand.cut
        BY <3>1
      <3>3. /\ Truthful(totals.shortened, gone.cut)
            /\ Truthful(Pending.shortened, Held.cut + inHand.cut)
        BY DEF IInv, SplitAccounts
      <3>4. Truthful(Plus(totals.shortened, Pending.shortened), gone.cut + (Held.cut + inHand.cut))
        BY <2>1, <3>1, <3>2, <3>3, CountsFields, PlusIsTruthful
      <3> QED
        BY <2>2, <3>2, <3>4
    <2> QED
      BY <2>3, <2>4, <2>5 DEF IInv, EveryNoticeIsAccountedFor
  <1> QED
    BY <1>1, InboxInvariant, PTL

\* A private session stays private, and never again hands over a server's own words.
THEOREM StickyPrivacy == Spec => PrivacyIsSticky
  <1>1. IInv /\ [Next]_vars => [privacy => privacy' /\ delivered'.public = delivered.public]_vars
    <2> SUFFICES ASSUME IInv, Next, privacy
                 PROVE  privacy' /\ delivered'.public = delivered.public
      BY DEF vars
    <2>1. TypeOK /\ delivered.public \in Nat
      BY StateFields DEF IInv
    <2>2. CASE Poll
      <3>1. /\ idle.entries \in Batch /\ CountsPlus(idle.counts, undelivered) \in Counts
            /\ Deliver(idle.entries, CountsPlus(idle.counts, undelivered)) /\ privacy' = privacy
        BY <2>1, <2>2, StateFields, CountsPlusIsCounts DEF TypeOK, Poll
      <3>2. delivered'.public = delivered.public + idle.entries.plain + idle.entries.cut
        BY <2>1, <3>1, DeliverFields
      <3>3. idle.entries.plain = 0 /\ idle.entries.cut = 0
        BY DEF IInv, NothingPublicIsHeld
      <3> QED
        BY <2>1, <3>1, <3>2, <3>3
    <2>3. ASSUME NEW c \in Caller, Finish(c)
          PROVE  privacy' /\ delivered'.public = delivered.public
      <3> DEFINE all == Join(inHand, Join(prelude, bucket.entries))
      <3>1. /\ prelude \in Batch /\ inHand \in Batch /\ bucket.entries \in Batch
            /\ CountsPlus(bucket.counts, undelivered) \in Counts
            /\ Deliver(all, CountsPlus(bucket.counts, undelivered)) /\ privacy' = privacy
        BY <2>1, <2>3, StateFields, CountsPlusIsCounts DEF TypeOK, Finish
      <3>2. Join(prelude, bucket.entries) \in Batch /\ all \in Batch
        BY <3>1, BatchSizes
      <3>3. all.plain = 0 /\ all.cut = 0
        BY <3>1, <3>2, BatchSizes DEF IInv, NothingPublicIsHeld
      <3> HIDE DEF all
      <3>4. delivered'.public = delivered.public + all.plain + all.cut
        BY <2>1, <3>1, <3>2, DeliverFields
      <3> QED
        BY <2>1, <3>1, <3>3, <3>4
    <2>4. ASSUME ~Poll, \A c \in Caller : ~Finish(c)
          PROVE  privacy' /\ delivered'.public = delivered.public
      BY <2>4 DEF Next, Observe, Enter, ActivatePrivacy, Begin, Hold, TakeStatement, Drop, Release,
                  inbox, history, callers
    <2> QED
      BY <2>2, <2>3, <2>4
  <1> QED
    BY <1>1, InboxInvariant, PTL DEF Spec, PrivacyIsSticky

=============================================================================
