---------------------------- MODULE NoticeCounts ----------------------------
(***************************************************************************)
(* The counters of query/result.rs that say what the client did not show: a *)
(* number with the precision it is known to.  They saturate instead of      *)
(* wrapping, and are never more precise than what was observed.             *)
(***************************************************************************)
EXTENDS Integers

CONSTANT CountMax   \* the largest number a counter holds: 2^64 - 1 in the code

ASSUME CountMaxAssumption == CountMax \in Nat \ {0}

-----------------------------------------------------------------------------
NoticeCount == {c \in [precision : {"exact", "atLeast", "unknown"}, n : 0 .. CountMax] :
                   c.precision = "unknown" => c.n = 0}

Exact(n)   == [precision |-> "exact", n |-> n]
AtLeast(n) == [precision |-> "atLeast", n |-> n]
Unknown    == [precision |-> "unknown", n |-> 0]

Saturated(n) == IF n > CountMax THEN CountMax ELSE n

Plus(a, b) ==
    IF a.precision = "unknown" \/ b.precision = "unknown" THEN Unknown
    ELSE IF a.precision = "exact" /\ b.precision = "exact" /\ a.n + b.n <= CountMax
         THEN Exact(a.n + b.n)
    ELSE AtLeast(Saturated(a.n + b.n))

Since(a, b) ==
    IF b.precision # "exact" \/ a.precision = "unknown" \/ a.n < b.n THEN Unknown
    ELSE [a EXCEPT !.n = a.n - b.n]

IsZero(a) == a = Exact(0)

\* What a counter says of the number x that was really observed is true.
Truthful(a, x) ==
    /\ a.precision = "exact"   => a.n = x
    /\ a.precision = "atLeast" => a.n <= x

-----------------------------------------------------------------------------
(* The three losses a client accounts for.                                 *)

Counts == [omitted : NoticeCount, shortened : NoticeCount, abandoned : NoticeCount]

NoCounts == [omitted |-> Exact(0), shortened |-> Exact(0), abandoned |-> Exact(0)]

CountsPlus(c, d) ==
    [omitted   |-> Plus(c.omitted, d.omitted),
     shortened |-> Plus(c.shortened, d.shortened),
     abandoned |-> Plus(c.abandoned, d.abandoned)]

NeedsReport(c) == ~IsZero(c.omitted) \/ ~IsZero(c.shortened) \/ ~IsZero(c.abandoned)
=============================================================================
