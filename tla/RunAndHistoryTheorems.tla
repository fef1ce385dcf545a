----------------------- MODULE RunAndHistoryTheorems -----------------------
(***************************************************************************)
(* Proofs about one run of a buffer (Execution) and about the statement    *)
(* history (HistoryFile), as Client composes them, for any of the          *)
(* constants.  Text that values were bound to is never carried out under   *)
(* another lexer, and what a run tells of its results is true; the history *)
(* that several sessions share is in order whatever fails, and one session *)
(* alone with it is kept its promise.                                      *)
(*                                                                         *)
(* A run's charges are sums of sequences of any length, and what is read   *)
(* from a history is a fold of its lines, so that both need an induction:  *)
(* over the sets of numbers that are closed under what comes next.         *)
(***************************************************************************)
EXTENDS Client, SequenceTheorems, WellFoundedInduction, TLAPS

----------------------------------------------------------------------------
(* Bound text and the server's lexer. *)

\* The server says what it is, and a statement that values were bound to is sent only
\* where require_parameter_semantics() found the lexer that its literals are written for.
Checked ==
    /\ backend \in [alive : BOOLEAN, transaction : {"autocommit", "open", "failed"},
                    conforming : BOOLEAN]
    /\ bound /\ step = "send" => backend.conforming
    /\ misread \subseteq {"described"}

\* Of the parts of the client, this is about its runs.
RunInv == part = "execution" => Checked

\* Nothing is bound before a run begins that was not checked.
LEMMA RunInit == Init => RunInv
  BY DEF Init, RunInv, Checked, X!Init

\* Every step of a run keeps it.
LEMMA RunStep == RunInv /\ [Next]_vars => RunInv'
  <1> SUFFICES ASSUME RunInv, [Next]_vars, part' = "execution"
               PROVE  Checked'
    BY DEF RunInv
  <1>1. CASE UNCHANGED vars
    BY <1>1 DEF vars, execution, RunInv, Checked
  <1>2. CASE part = "execution" /\ X!Next
    <2> USE <1>2 DEF RunInv, Checked
    <2>1. CASE X!Check
      BY <2>1 DEF X!Check, X!StopWith, X!run
    <2>2. CASE X!Send
      <3>1. UNCHANGED bound /\ (step' = "send" => FALSE)
        BY <2>2 DEF X!Send, X!StopWith, X!run
      <3>2. misread' \subseteq {"described"}
        BY <2>2 DEF X!Send, X!Misreads
      <3>3. backend' \in [alive : BOOLEAN, transaction : {"autocommit", "open", "failed"},
                          conforming : BOOLEAN]
        BY <2>2 DEF X!Send, X!Effect, X!Aborted
      <3> QED
        BY <3>1, <3>2, <3>3
    <2>3. CASE X!RowDescription
      BY <2>3 DEF X!RowDescription, X!run
    <2>4. CASE X!Row
      BY <2>4 DEF X!Row, X!StopWith, X!run
    <2>5. CASE X!Complete
      BY <2>5 DEF X!Complete, X!run
    <2>6. CASE X!DescribeColumns
      <3>1. misread' \subseteq {"described"}
        BY <2>6 DEF X!DescribeColumns, X!Misreads
      <3> QED
        BY <2>6, <3>1 DEF X!DescribeColumns, X!Aborted, X!run
    <2>7. CASE X!NextStatement
      BY <2>7 DEF X!NextStatement, X!run
    <2>8. CASE X!Probe
      BY <2>8 DEF X!Probe, X!run
    <2>9. CASE X!Cancelled
      <3>1. misread' \subseteq {"described"}
        BY <2>9 DEF X!Cancelled, X!Misreads
      <3>2. UNCHANGED bound /\ (step' = "send" => FALSE)
        BY <2>9 DEF X!Cancelled, X!GoOn, X!StopWith, X!run
      <3>3. backend' \in [alive : BOOLEAN, transaction : {"autocommit", "open", "failed"},
                          conforming : BOOLEAN]
        BY <2>9 DEF X!Cancelled, X!Aborted
      <3> QED
        BY <3>1, <3>2, <3>3
    <2>10. CASE X!Lost
      BY <2>10 DEF X!Lost, X!Trouble, X!run
    <2>11. CASE X!Broken
      BY <2>11 DEF X!Broken, X!GoOn, X!StopWith, X!run
    <2> QED
      BY <2>1, <2>2, <2>3, <2>4, <2>5, <2>6, <2>7, <2>8, <2>9, <2>10, <2>11 DEF X!Next
  <1> QED
    BY <1>1, <1>2 DEF Next

\* Text that values were bound to is never sent for a server that reads literals otherwise to
\* carry it out, whatever the buffer, the cap and the allowances: the check is made again before
\* every statement, and nothing changes the lexer between it and the sending (session.rs:684).
\* The invariant says what is left: such text is at most described by such a server.
THEOREM BoundTextIsRead == Spec => []BoundTextMeetsItsLexer
  <1>1. RunInv => BoundTextMeetsItsLexer
    BY DEF RunInv, Checked, BoundTextMeetsItsLexer, X!BoundTextMeetsItsLexer
  <1> QED
    BY RunInit, RunStep, <1>1, PTL DEF Spec

----------------------------------------------------------------------------
(* Induction, and the sums of sequences. *)

\* A smaller number is smaller in the order that NatLessThanWellFounded is about.
LEMMA Below == \A m, n \in Nat : m < n => <<m, n>> \in OpToRel(<, Nat)
  BY DEF OpToRel

\* Numbers have a least one.
LEMMA Least ==
    ASSUME NEW S \in SUBSET Nat, S # {}
    PROVE  \E m \in S : \A n \in S : m <= n
  <1>1. PICK m \in S : \A n \in S : ~(<<n, m>> \in OpToRel(<, Nat))
    BY NatLessThanWellFounded, WFMin
  <1>2. ASSUME NEW n \in S PROVE m <= n
    <2>1. ~(n < m)
      BY <1>1, Below
    <2> QED
      BY <2>1
  <1> QED
    BY <1>2

\* A set of numbers that has zero and what comes after each of its elements has all.
LEMMA Induction ==
    ASSUME NEW S, 0 \in S, \A n \in Nat : n \in S => n + 1 \in S
    PROVE  Nat \subseteq S
  <1> SUFFICES ASSUME Nat \ S # {} PROVE FALSE
    OBVIOUS
  <1>1. PICK m \in Nat \ S : \A n \in Nat \ S : m <= n
    BY Least
  <1>2. m # 0 /\ m - 1 \in Nat /\ m - 1 \in S
    BY <1>1
  <1>3. (m - 1) + 1 = m
    BY <1>1
  <1> QED
    BY <1>1, <1>2, <1>3

\* The sums of the first charges of a sequence, one after the other.
IsSum(f, c) == f = [n \in 0 .. Len(c) |-> IF n = 0 THEN 0 ELSE f[n - 1] + c[n]]

\* Every sequence has such sums,
LEMMA SumsExist ==
    ASSUME NEW c \in Seq(Nat)
    PROVE  \E f : IsSum(f, c)
  <1> DEFINE Upto(f, n) == \A k \in 0 .. n : f[k] = IF k = 0 THEN 0 ELSE f[k - 1] + c[k]
             S == {n \in Nat : \E f : f = [k \in 0 .. n |-> f[k]] /\ Upto(f, n)}
  <1>1. 0 \in S
    <2>1. LET f == [k \in 0 .. 0 |-> 0] IN f = [k \in 0 .. 0 |-> f[k]] /\ Upto(f, 0)
      OBVIOUS
    <2> QED
      BY <2>1
  <1>2. ASSUME NEW n \in Nat, n \in S
        PROVE  n + 1 \in S
    <2>1. PICK f : f = [k \in 0 .. n |-> f[k]] /\ Upto(f, n)
      BY <1>2
    <2> DEFINE g == [k \in 0 .. n + 1 |-> IF k = n + 1 THEN f[n] + c[n + 1] ELSE f[k]]
    <2>2. ASSUME NEW k \in 0 .. n + 1
          PROVE  g[k] = IF k = 0 THEN 0 ELSE g[k - 1] + c[k]
      <3>1. CASE k = n + 1
        BY <3>1
      <3>2. CASE k # n + 1
        <4>1. k \in 0 .. n /\ (k # 0 => k - 1 \in 0 .. n + 1 /\ k - 1 # n + 1)
          BY <3>2
        <4>2. g[k] = f[k] /\ (k # 0 => g[k - 1] = f[k - 1])
          BY <3>2, <4>1
        <4>3. f[k] = IF k = 0 THEN 0 ELSE f[k - 1] + c[k]
          BY <2>1, <4>1
        <4> QED
          BY <4>2, <4>3
      <3> QED
        BY <3>1, <3>2
    <2>3. Upto(g, n + 1)
      BY <2>2
    <2>4. g = [k \in 0 .. n + 1 |-> g[k]]
      OBVIOUS
    <2> HIDE DEF g, Upto
    <2>5. \E h : h = [k \in 0 .. n + 1 |-> h[k]] /\ Upto(h, n + 1)
      BY <2>3, <2>4
    <2> QED
      BY <2>5
  <1> HIDE DEF S
  <1>3. Len(c) \in S
    BY <1>1, <1>2, Induction
  <1>4. PICK f : f = [k \in 0 .. Len(c) |-> f[k]] /\ Upto(f, Len(c))
    BY <1>3 DEF S
  <1>5. IsSum(f, c)
    BY <1>4 DEF IsSum
  <1> QED
    BY <1>5

\* they are numbers, and they depend on what is summed only.
LEMMA SumsAgree ==
    ASSUME NEW c \in Seq(Nat), NEW d \in Seq(Nat), NEW f, NEW g, IsSum(f, c), IsSum(g, d),
           NEW n \in Nat, n <= Len(c), n <= Len(d), \A k \in 1 .. n : c[k] = d[k]
    PROVE  f[n] = g[n] /\ f[n] \in Nat
  <1> DEFINE S == {k \in Nat : k <= n => f[k] = g[k] /\ f[k] \in Nat}
  <1>0. /\ \A k \in 0 .. Len(c) : f[k] = IF k = 0 THEN 0 ELSE f[k - 1] + c[k]
        /\ \A k \in 0 .. Len(d) : g[k] = IF k = 0 THEN 0 ELSE g[k - 1] + d[k]
    BY DEF IsSum
  <1>1. 0 \in S
    <2>1. 0 \in 0 .. Len(c) /\ 0 \in 0 .. Len(d)
      OBVIOUS
    <2>2. f[0] = 0 /\ g[0] = 0
      BY <1>0, <2>1
    <2> QED
      BY <2>2
  <1>2. ASSUME NEW k \in Nat, k \in S
        PROVE  k + 1 \in S
    <2> SUFFICES ASSUME k + 1 <= n
                 PROVE  f[k + 1] = g[k + 1] /\ f[k + 1] \in Nat
      OBVIOUS
    <2>1. f[k] = g[k] /\ f[k] \in Nat
      BY <1>2
    <2>2. f[k + 1] = f[k] + c[k + 1] /\ g[k + 1] = g[k] + d[k + 1]
      <3>1. k + 1 \in 0 .. Len(c) /\ k + 1 \in 0 .. Len(d) /\ k + 1 # 0 /\ (k + 1) - 1 = k
        OBVIOUS
      <3> QED
        BY <1>0, <3>1
    <2>3. c[k + 1] = d[k + 1] /\ c[k + 1] \in Nat
      OBVIOUS
    <2> QED
      BY <2>1, <2>2, <2>3
  <1> HIDE DEF S
  <1>3. n \in S
    BY <1>1, <1>2, Induction
  <1> QED
    BY <1>3 DEF S

\* Total() is the last of the sums.
LEMMA TotalIsSum ==
    ASSUME NEW c \in Seq(Nat)
    PROVE  \E f : IsSum(f, c) /\ X!Total(c) = f[Len(c)]
  <1> DEFINE f == CHOOSE f : IsSum(f, c)
  <1>1. IsSum(f, c)
    BY SumsExist
  <1>2. X!Total(c) = f[Len(c)]
    BY DEF X!Total, IsSum
  <1> QED
    BY <1>1, <1>2

\* A total is a number, and one more charge adds to it.
LEMMA Totals ==
    ASSUME NEW c \in Seq(Nat)
    PROVE  /\ X!Total(c) \in Nat
           /\ Len(c) = 0 => X!Total(c) = 0
           /\ \A x \in Nat : X!Total(Append(c, x)) = X!Total(c) + x
  <1>1. PICK f : IsSum(f, c) /\ X!Total(c) = f[Len(c)]
    BY TotalIsSum
  <1>2. X!Total(c) \in Nat
    <2>1. Len(c) \in Nat /\ Len(c) <= Len(c) /\ \A k \in 1 .. Len(c) : c[k] = c[k]
      OBVIOUS
    <2> QED
      BY <1>1, <2>1, SumsAgree
  <1>3. Len(c) = 0 => X!Total(c) = 0
    BY <1>1 DEF IsSum
  <1>4. ASSUME NEW x \in Nat
        PROVE  X!Total(Append(c, x)) = X!Total(c) + x
    <2> DEFINE d == Append(c, x)
    <2>1. /\ d \in Seq(Nat) /\ Len(d) = Len(c) + 1 /\ d[Len(c) + 1] = x
          /\ \A k \in 1 .. Len(c) : c[k] = d[k]
      OBVIOUS
    <2> HIDE DEF d
    <2>2. PICK g : IsSum(g, d) /\ X!Total(d) = g[Len(d)]
      BY <2>1, TotalIsSum
    <2>3. f[Len(c)] = g[Len(c)]
      <3> DEFINE n == Len(c)
      <3>1. /\ n \in Nat /\ n <= Len(c) /\ n <= Len(d) /\ \A k \in 1 .. n : c[k] = d[k]
            /\ d \in Seq(Nat) /\ IsSum(f, c) /\ IsSum(g, d)
        BY <1>1, <2>1, <2>2
      <3> HIDE DEF n
      <3>2. f[n] = g[n]
        BY <3>1, SumsAgree
      <3> QED
        BY <3>2 DEF n
    <2>4. g[Len(c) + 1] = g[Len(c)] + x
      <3>1. Len(c) + 1 \in 0 .. Len(d) /\ Len(c) + 1 # 0 /\ (Len(c) + 1) - 1 = Len(c)
        BY <2>1
      <3>2. \A k \in 0 .. Len(d) : g[k] = IF k = 0 THEN 0 ELSE g[k - 1] + d[k]
        BY <2>2 DEF IsSum
      <3> QED
        BY <2>1, <3>1, <3>2
    <2>5. X!Total(d) = X!Total(c) + x
      BY <1>1, <2>1, <2>2, <2>3, <2>4
    <2> QED
      BY <2>5 DEF d
  <1> QED
    BY <1>2, <1>3, <1>4

----------------------------------------------------------------------------
(* The invariant of a run, and lemmas about its parts. *)

\* A statement, and what is kept of its result.
Sent == [does : {"read", "begin", "end", "set", "fail"}, names : Nat, rows : Seq(Nat \ {0})]
ResultSets == [kind : {"set"}, rows : Seq(Nat), seen : Nat, typed : BOOLEAN,
               retention : {"complete", "row_cap", "data_limit", "unavailable"}]
Result == {X!None} \cup ResultSets

\* A statement is being looked at, is sent or has been.
InStatement == step \in {"check", "send", "rows", "describe", "next"}
\* It has been accepted.
Accepted == step \in {"rows", "describe", "next"}

Steps == {"check", "send", "rows", "describe", "next", "probe", "done"}
Servers == [alive : BOOLEAN, transaction : {"autocommit", "open", "failed"},
            conforming : BOOLEAN]
Outcomes == [status : {"succeeded", "cancelled", "connection_lost", "failed"},
             transaction : {"autocommit", "open", "failed", "unknown"}, prose : BOOLEAN]

\* What each variable of a run holds.
RunTypes ==
    /\ buffer \in Seq(Sent) /\ bound \in BOOLEAN /\ cap \in Nat
    /\ step \in Steps /\ index \in Nat /\ backend \in Servers
    /\ arrived \in Seq(Nat) /\ set \in Result /\ results \in Seq(Result)
    /\ budget \in [charged : 0 .. Limit, closed : BOOLEAN]
    /\ outcome \in Outcomes

\* One result for each statement before the one that is run.
Placed ==
    /\ Len(results) <= Len(buffer)
    /\ InStatement => index \in 1 .. Len(buffer) /\ Len(results) = index - 1
    /\ ~Accepted => set = X!None
    /\ step = "describe" => set # X!None
    /\ step = "rows" /\ set = X!None => arrived = << >>

\* What has arrived are the first rows of the statement, and all of them when it ran.
Arrives ==
    /\ Accepted =>
        /\ Len(arrived) <= Len(buffer[index].rows)
        /\ \A i \in 1 .. Len(arrived) : arrived[i] = buffer[index].rows[i]
    /\ step \in {"describe", "next"} => arrived = buffer[index].rows

\* A result has the first rows of those that arrived, and says why it has no more.
Tells(s, received, most, closed) ==
    /\ Len(s.rows) <= Len(received) /\ \A i \in 1 .. Len(s.rows) : s.rows[i] = received[i]
    /\ Len(s.rows) <= most /\ s.seen = Len(received)
    /\ s.retention = "complete" => Len(s.rows) = s.seen
    /\ s.retention = "row_cap" => Len(s.rows) = most /\ s.seen > most
    /\ s.retention = "data_limit" => Len(s.rows) < s.seen /\ closed
    /\ s.retention = "unavailable" => Len(s.rows) = 0 /\ closed

\* Every result does.
SetsTell ==
    /\ set # X!None => Tells(set, arrived, cap, budget.closed)
    /\ \A i \in 1 .. Len(results) :
         results[i] # X!None => Tells(results[i], buffer[i].rows, cap, budget.closed)

\* Their rows have been charged.
IsCharged == X!Total(X!Charges(results)) + X!Charge(set) <= budget.charged

\* What is told in the end is not told before.
IsTold ==
    /\ bound => ~outcome.prose
    /\ step # "done" => outcome.transaction = "unknown"
    /\ outcome.transaction \in {backend.transaction, "unknown"}

\* The inductive invariant of a run.
Runs == RunTypes /\ Placed /\ Arrives /\ SetsTell /\ IsCharged /\ IsTold

\* A prefix is one element by element.
LEMMA Prefixes ==
    ASSUME NEW s \in Seq(Nat), NEW t \in Seq(Nat)
    PROVE  X!IsPrefix(s, t) <=>
             Len(s) <= Len(t) /\ \A i \in 1 .. Len(s) : s[i] = t[i]
  <1>1. ASSUME Len(s) <= Len(t)
        PROVE  /\ SubSeq(s, 1, Len(s)) \in Seq(Nat) /\ SubSeq(t, 1, Len(s)) \in Seq(Nat)
               /\ Len(SubSeq(s, 1, Len(s))) = Len(s) /\ Len(SubSeq(t, 1, Len(s))) = Len(s)
               /\ \A i \in 1 .. Len(s) :
                    SubSeq(s, 1, Len(s))[i] = s[i] /\ SubSeq(t, 1, Len(s))[i] = t[i]
    BY <1>1
  <1>2. ASSUME Len(s) <= Len(t), \A i \in 1 .. Len(s) : s[i] = t[i]
        PROVE  SubSeq(s, 1, Len(s)) = SubSeq(t, 1, Len(s))
    <2> DEFINE u == SubSeq(s, 1, Len(s))
               v == SubSeq(t, 1, Len(s))
    <2>1. /\ u \in Seq(Nat) /\ v \in Seq(Nat) /\ Len(u) = Len(v)
          /\ \A i \in 1 .. Len(u) : u[i] = v[i]
      BY <1>1, <1>2
    <2> HIDE DEF u, v
    <2>2. u = v
      BY <2>1, SeqEqual
    <2> QED
      BY <2>2 DEF u, v
  <1>3. ASSUME Len(s) <= Len(t), SubSeq(s, 1, Len(s)) = SubSeq(t, 1, Len(s)),
               NEW i \in 1 .. Len(s)
        PROVE  s[i] = t[i]
    <2>1. SubSeq(s, 1, Len(s))[i] = s[i] /\ SubSeq(t, 1, Len(s))[i] = t[i]
      BY <1>1, <1>3
    <2> QED
      BY <1>3, <2>1
  <1> QED
    BY <1>2, <1>3 DEF X!IsPrefix

\* No set is none.
LEMMA SetsAreSome == \A s \in ResultSets : s # X!None
  <1>1. X!None.kind = "none"
    BY DEF X!None
  <1>2. \A s \in ResultSets : s.kind = "set"
    BY DEF ResultSets
  <1> QED
    BY <1>1, <1>2

\* What a result is charged.
LEMMA ChargesAdd ==
    ASSUME NEW sets \in Seq(Result)
    PROVE  /\ X!Charges(sets) \in Seq(Nat)
           /\ X!Total(X!Charges(sets)) \in Nat
           /\ \A s \in Result :
                /\ X!Charge(s) \in Nat
                /\ X!Total(X!Charges(Append(sets, s))) = X!Total(X!Charges(sets)) + X!Charge(s)
  <1>1. \A s \in Result : X!Charge(s) \in Nat
    <2>1. \A s \in Result : s # X!None => s.rows \in Seq(Nat)
      BY DEF Result, ResultSets
    <2> QED
      BY <2>1, Totals DEF X!Charge
  <1>2. X!Charges(sets) \in Seq(Nat)
    BY <1>1 DEF X!Charges
  <1>3. ASSUME NEW s \in Result
        PROVE  X!Charges(Append(sets, s)) = Append(X!Charges(sets), X!Charge(s))
    <2> DEFINE u == X!Charges(Append(sets, s))
               v == Append(X!Charges(sets), X!Charge(s))
    <2>1. Append(sets, s) \in Seq(Result) /\ Len(Append(sets, s)) = Len(sets) + 1
      OBVIOUS
    <2>2. u \in Seq(Nat) /\ Len(u) = Len(sets) + 1
      BY <1>1, <2>1 DEF X!Charges
    <2>3. v \in Seq(Nat) /\ Len(v) = Len(sets) + 1
      BY <1>1, <1>2 DEF X!Charges
    <2>4. ASSUME NEW i \in 1 .. Len(sets) + 1
          PROVE  u[i] = v[i]
      BY <1>1, <1>2, <2>1 DEF X!Charges
    <2> HIDE DEF u, v
    <2>5. u = v
      BY <2>2, <2>3, <2>4, SeqEqual
    <2> QED
      BY <2>5 DEF u, v
  <1> QED
    BY <1>1, <1>2, <1>3, Totals

\* The results of the statements before stay as they are.
LEMMA ResultsStay ==
    ASSUME SetsTell, UNCHANGED <<buffer, cap, results>>, budget.closed => budget'.closed
    PROVE  \A i \in 1 .. Len(results') :
             results'[i] # X!None => Tells(results'[i], buffer'[i].rows, cap', budget'.closed)
  BY DEF SetsTell, Tells

\* The charges of results that stay.
LEMMA ChargesStay ==
    ASSUME UNCHANGED results
    PROVE  X!Total(X!Charges(results))' = X!Total(X!Charges(results))
  BY DEF X!Total, X!Charges, X!Charge, X!None

\* A step that only moves on.
LEMMA StillStep ==
    ASSUME Runs, step' \in Steps, index' \in Nat, backend' \in Servers, outcome' \in Outcomes,
           UNCHANGED <<buffer, bound, cap, arrived, set, budget, results>>
    PROVE  RunTypes' /\ SetsTell' /\ IsCharged'
  <1>1. RunTypes'
    BY DEF Runs, RunTypes, Result
  <1>2. SetsTell'
    <2>1. set' # X!None => Tells(set', arrived', cap', budget'.closed)
      BY DEF Runs, SetsTell
    <2> QED
      BY <2>1, ResultsStay DEF Runs, SetsTell
  <1>3. IsCharged'
    BY ChargesStay DEF Runs, IsCharged, X!Charge
  <1> QED
    BY <1>1, <1>2, <1>3

\* A run ends.
LEMMA StopStep ==
    ASSUME Runs, NEW error, X!StopWith(error), bound => ~error.prose, error.prose \in BOOLEAN,
           backend' \in Servers
    PROVE  Runs'
  <1>1. /\ step' \in {"probe", "done"} /\ set' = X!None
        /\ UNCHANGED <<buffer, bound, cap, index, arrived, budget, results>>
    BY DEF X!StopWith, X!run
  <1>2. outcome'.transaction = "unknown" /\ outcome'.prose = error.prose /\ outcome' \in Outcomes
    BY DEF X!StopWith, Outcomes
  <1>3. RunTypes'
    BY <1>1, <1>2 DEF Runs, RunTypes, Result, Steps
  <1>4. Placed' /\ Arrives'
    BY <1>1 DEF Runs, Placed, Arrives, InStatement, Accepted
  <1>5. SetsTell'
    BY <1>1, ResultsStay DEF Runs, SetsTell
  <1>6. IsCharged'
    <2>1. X!Charge(set') = 0 /\ X!Charge(set) \in Nat
      BY <1>1, ChargesAdd DEF X!Charge, Runs, RunTypes
    <2>2. X!Total(X!Charges(results)) + 0 <= budget.charged
      <3>1. results \in Seq(Result) /\ budget \in [charged : 0 .. Limit, closed : BOOLEAN]
        BY DEF Runs, RunTypes
      <3>2. X!Total(X!Charges(results)) \in Nat /\ budget.charged \in Int
        BY <3>1, ChargesAdd, ClientAssumption
      <3> QED
        BY <2>1, <3>2 DEF Runs, IsCharged
    <2> QED
      BY <1>1, <2>1, <2>2, ChargesStay DEF IsCharged
  <1>7. IsTold'
    BY <1>1, <1>2 DEF IsTold
  <1> QED
    BY <1>3, <1>4, <1>5, <1>6, <1>7 DEF Runs

\* It goes on without the types of the columns, or ends without the transaction.
LEMMA GoOnStep ==
    ASSUME Runs, X!GoOn, step \in {"describe", "probe"}, backend' \in Servers
    PROVE  Runs'
  <1>1. /\ step' = IF step = "describe" THEN "next" ELSE "done"
        /\ UNCHANGED <<buffer, bound, cap, index, arrived, set, budget, results, outcome>>
    BY DEF X!GoOn, X!run
  <1>2. RunTypes' /\ SetsTell' /\ IsCharged'
    BY <1>1, StillStep DEF Runs, RunTypes, Steps
  <1>3. Placed' /\ Arrives' /\ IsTold'
    BY <1>1 DEF Runs, Placed, Arrives, InStatement, Accepted, IsTold
  <1> QED
    BY <1>2, <1>3 DEF Runs

\* What is charged stays within the allowance, and what is refused closes it.
LEMMA Admits ==
    ASSUME RunTypes, NEW charge \in Nat \ {0}, NEW b, b = X!admit_data(charge)
    PROVE  /\ b \in [charged : 0 .. Limit, closed : BOOLEAN]
           /\ budget.closed => b.closed
           /\ X!Admitted(b) => b.charged = budget.charged + charge /\ ~budget.closed
           /\ ~X!Admitted(b) => b.charged = budget.charged /\ b.closed
  <1>1. budget \in [charged : 0 .. Limit, closed : BOOLEAN] /\ Limit \in Nat
    BY ClientAssumption DEF RunTypes
  <1>2. CASE budget.closed \/ budget.charged + charge > Limit
    <2>1. b = [budget EXCEPT !.closed = TRUE]
      BY <1>2 DEF X!admit_data
    <2> QED
      BY <1>1, <2>1 DEF X!Admitted
  <1>3. CASE ~(budget.closed \/ budget.charged + charge > Limit)
    <2>1. b = [budget EXCEPT !.charged = budget.charged + charge]
      BY <1>3 DEF X!admit_data
    <2> QED
      BY <1>1, <1>3, <2>1 DEF X!Admitted
  <1> QED
    BY <1>2, <1>3

\* No error tells words that may quote a value.
LEMMA Errors ==
    ASSUME NEW cause \in {"refused", "cancel_request", "closed"}
    PROVE  /\ bound => ~X!ErrorOf(cause).prose /\ ~X!OwnError.prose
           /\ bound \in BOOLEAN => X!ErrorOf(cause).prose \in BOOLEAN /\ X!OwnError.prose \in BOOLEAN
           /\ ~X!OwnError.prose
  BY DEF X!ErrorOf, X!ParameterizedError, X!QueryError, X!OwnError

----------------------------------------------------------------------------
(* The steps of a run. *)

\* The statement that is run is one.
LEMMA StatementsAreSent ==
    ASSUME RunTypes, Placed, InStatement
    PROVE  buffer[index] \in Sent
  <1>1. buffer \in Seq(Sent) /\ index \in 1 .. Len(buffer)
    BY DEF RunTypes, Placed
  <1> QED
    BY <1>1

\* The server is still one.
LEMMA ServersStay ==
    ASSUME backend \in Servers
    PROVE  /\ X!Aborted \in Servers /\ X!Effect \in Servers
           /\ [backend EXCEPT !.alive = FALSE] \in Servers
  BY DEF Servers, X!Aborted, X!Effect

\* The lexer is looked at.
LEMMA CheckStep ==
    ASSUME Runs, X!Check
    PROVE  Runs'
  <1>1. step = "check" /\ backend' = backend /\ backend \in Servers /\ bound \in BOOLEAN
    BY DEF X!Check, Runs, RunTypes
  <1>2. CASE X!StopWith(X!ErrorOf("refused"))
    BY <1>1, <1>2, Errors, StopStep
  <1>3. CASE X!StopWith(X!OwnError)
    BY <1>1, <1>3, Errors, StopStep
  <1>4. CASE step' = "send" /\ UNCHANGED <<X!run, index, arrived, set, budget, results, outcome>>
    <2>1. UNCHANGED <<buffer, bound, cap>>
      BY <1>4 DEF X!run
    <2>2. RunTypes' /\ SetsTell' /\ IsCharged'
      BY <1>1, <1>4, <2>1, StillStep DEF Runs, RunTypes, Steps
    <2>3. Placed' /\ Arrives' /\ IsTold'
      BY <1>1, <1>4, <2>1 DEF Runs, Placed, Arrives, InStatement, Accepted, IsTold
    <2> QED
      BY <2>2, <2>3 DEF Runs
  <1> QED
    BY <1>2, <1>3, <1>4 DEF X!Check

\* A statement is sent.
LEMMA SendStep ==
    ASSUME Runs, X!Send
    PROVE  Runs'
  <1>1. step = "send" /\ backend' \in Servers /\ bound \in BOOLEAN
    BY ServersStay DEF X!Send, Runs, RunTypes
  <1>2. CASE X!StopWith(X!ErrorOf("refused"))
    BY <1>1, <1>2, Errors, StopStep
  <1>3. CASE /\ step' = "rows" /\ arrived' = << >> /\ set' = X!None
             /\ UNCHANGED <<X!run, index, budget, results, outcome>>
    <2>1. UNCHANGED <<buffer, bound, cap>>
      BY <1>3 DEF X!run
    <2>2. RunTypes'
      BY <1>1, <1>3, <2>1 DEF Runs, RunTypes, Steps, Result
    <2>3. Placed' /\ IsTold'
      BY <1>1, <1>3, <2>1 DEF Runs, Placed, InStatement, Accepted, IsTold
    <2>4. Arrives'
      <3>1. buffer[index] \in Sent
        BY <1>1, StatementsAreSent DEF Runs, InStatement
      <3>2. Len(buffer[index].rows) \in Nat /\ Len(arrived') = 0
        BY <1>3, <3>1 DEF Sent
      <3> QED
        BY <1>3, <2>1, <3>2 DEF Arrives
    <2>5. SetsTell'
      BY <1>3, <2>1, ResultsStay DEF Runs, SetsTell
    <2>6. set = X!None
      BY <1>1 DEF Runs, Placed, Accepted
    <2>7. IsCharged'
      BY <1>3, <2>6, ChargesStay DEF Runs, IsCharged, X!Charge
    <2> QED
      BY <2>2, <2>3, <2>4, <2>5, <2>7 DEF Runs
  <1>4. X!StopWith(X!ErrorOf("refused")) \/ (/\ step' = "rows" /\ arrived' = << >> /\ set' = X!None
             /\ UNCHANGED <<X!run, index, budget, results, outcome>>)
    BY DEF X!Send
  <1> QED
    BY <1>2, <1>3, <1>4

\* A result whose retention or whose count is changed is one.
LEMMA SetsChange ==
    ASSUME NEW s \in ResultSets, NEW n \in Nat,
           NEW r \in {"complete", "row_cap", "data_limit", "unavailable"},
           NEW d, d = [s EXCEPT !.seen = n, !.retention = r]
    PROVE  d \in ResultSets /\ d.rows = s.rows /\ d.seen = n /\ d.retention = r
  BY DEF ResultSets

\* A new result has no rows.
LEMMA NewSets ==
    /\ X!NewSet \in ResultSets /\ X!UnavailableSet \in ResultSets
    /\ Len(X!NewSet.rows) = 0 /\ Len(X!UnavailableSet.rows) = 0
    /\ X!NewSet.seen = 0 /\ X!UnavailableSet.seen = 0
    /\ X!NewSet.retention = "complete" /\ X!UnavailableSet.retention = "unavailable"
  <1>1. << >> \in Seq(Nat) /\ Len(<< >>) = 0
    OBVIOUS
  <1>2. X!NewSet = [kind |-> "set", rows |-> << >>, seen |-> 0, retention |-> "complete",
                   typed |-> FALSE]
    BY DEF X!NewSet
  <1>3. /\ X!NewSet \in ResultSets /\ Len(X!NewSet.rows) = 0 /\ X!NewSet.seen = 0
        /\ X!NewSet.retention = "complete"
    BY <1>1, <1>2 DEF ResultSets
  <1>4. X!UnavailableSet = [X!NewSet EXCEPT !.retention = "unavailable"]
    BY DEF X!UnavailableSet
  <1>5. /\ X!UnavailableSet \in ResultSets /\ X!UnavailableSet.rows = X!NewSet.rows
        /\ X!UnavailableSet.seen = X!NewSet.seen /\ X!UnavailableSet.retention = "unavailable"
    BY <1>3, <1>4 DEF ResultSets
  <1> QED
    BY <1>3, <1>5

\* The columns of a result are described.
LEMMA RowDescriptionStep ==
    ASSUME Runs, X!RowDescription
    PROVE  Runs'
  <1>1. /\ step = "rows" /\ set = X!None /\ buffer[index].names # 0
        /\ budget' = X!admit_data(buffer[index].names)
        /\ set' = X!Describe(budget')
        /\ UNCHANGED <<buffer, bound, cap, step, index, backend, arrived, results, outcome>>
    BY DEF X!RowDescription, X!run, X!Statement
  <1>2. buffer[index].names \in Nat \ {0}
    <2>1. buffer[index] \in Sent
      BY <1>1, StatementsAreSent DEF Runs, InStatement
    <2> QED
      BY <1>1, <2>1 DEF Sent
  <1> DEFINE b == X!admit_data(buffer[index].names)
  <1>3. /\ b \in [charged : 0 .. Limit, closed : BOOLEAN]
        /\ budget.closed => b.closed
        /\ X!Admitted(b) => b.charged = budget.charged + buffer[index].names
        /\ ~X!Admitted(b) => b.charged = budget.charged /\ b.closed
    BY <1>2, Admits DEF Runs
  <1>4. set' = IF X!Admitted(b) THEN X!NewSet ELSE X!UnavailableSet
    BY <1>1 DEF X!Describe
  <1>5. budget' = b
    BY <1>1
  <1> HIDE DEF b
  <1>6. set' \in ResultSets /\ Len(set'.rows) = 0 /\ set'.seen = 0 /\ set' # X!None
    BY <1>4, NewSets, SetsAreSome
  <1>7. RunTypes'
    BY <1>1, <1>3, <1>5, <1>6 DEF Runs, RunTypes, Result
  <1>8. Placed' /\ IsTold'
    BY <1>1, <1>6 DEF Runs, Placed, InStatement, Accepted, IsTold
  <1>9. Arrives'
    BY <1>1 DEF Runs, Arrives, Accepted
  <1>10. Tells(set', arrived', cap', budget'.closed)
    <2>1. arrived' = << >> /\ cap' \in Nat
      BY <1>1 DEF Runs, RunTypes, Placed
    <2>2. \/ set'.retention = "complete"
          \/ set'.retention = "unavailable" /\ budget'.closed
      BY <1>3, <1>4, <1>5, NewSets
    <2>3. Len(set'.rows) = 0 /\ Len(arrived') = 0
      BY <1>6, <2>1
    <2> DEFINE rows == set'.rows
    <2>4. Len(rows) <= Len(arrived') /\ Len(rows) <= cap' /\ \A i \in 1 .. Len(rows) : rows[i] = arrived'[i]
      BY <2>1, <2>3
    <2> QED
      BY <1>6, <2>2, <2>3, <2>4 DEF Tells
  <1>11. SetsTell'
    BY <1>1, <1>3, <1>5, <1>10, ResultsStay DEF Runs, SetsTell
  <1>12. IsCharged'
    <2>1. X!Charge(set)' = 0 /\ X!Charge(set) = 0
      <3>1. set'.rows \in Seq(Nat) /\ Len(set'.rows) = 0
        BY <1>6 DEF ResultSets
      <3>2. X!Total(set'.rows) = 0
        BY <3>1, Totals
      <3> QED
        BY <1>1, <1>6, <3>2 DEF X!Charge
    <2>2. budget'.charged >= budget.charged /\ budget'.charged \in Int /\ budget.charged \in Int
      BY <1>2, <1>3, <1>5, ClientAssumption DEF Runs, RunTypes
    <2>3. X!Total(X!Charges(results)) \in Nat
      BY ChargesAdd DEF Runs, RunTypes
    <2>4. X!Total(X!Charges(results))' = X!Total(X!Charges(results))
      BY <1>1, ChargesStay
    <2> QED
      BY <2>1, <2>2, <2>3, <2>4 DEF Runs, IsCharged
  <1> QED
    BY <1>7, <1>8, <1>9, <1>11, <1>12 DEF Runs

\* A result from which a row is left out says so.
LEMMA DiscardTells ==
    ASSUME NEW s \in ResultSets, NEW received \in Seq(Nat), NEW row \in Nat, NEW most \in Nat,
           NEW closed \in BOOLEAN, NEW closes \in BOOLEAN, closed => closes, Tells(s, received, most, closed),
           NEW d, d.rows = s.rows, d.seen = s.seen + 1,
           \/ s.retention # "complete" /\ d.retention = s.retention
           \/ Len(s.rows) >= most /\ d.retention = "row_cap"
           \/ closes /\ d.retention = "data_limit"
    PROVE  Tells(d, Append(received, row), most, closes)
  <1> DEFINE got == Append(received, row)
             n == Len(s.rows)
  <1>1. /\ Len(got) = Len(received) + 1
        /\ \A i \in 1 .. Len(received) : got[i] = received[i]
    OBVIOUS
  <1>2. /\ n \in Nat /\ Len(received) \in Nat /\ n <= Len(received) /\ n <= most
        /\ s.seen = Len(received)
        /\ \A i \in 1 .. n : s.rows[i] = received[i]
    BY DEF Tells, ResultSets
  <1>3. Len(d.rows) = n /\ Len(d.rows) <= Len(got) /\ Len(d.rows) <= most /\ d.seen = Len(got)
    BY <1>1, <1>2
  <1>4. \A i \in 1 .. Len(d.rows) : d.rows[i] = got[i]
    BY <1>1, <1>2
  <1>5. d.seen \in Nat /\ n < d.seen
    BY <1>1, <1>2
  <1>6. s.retention \in {"complete", "row_cap", "data_limit", "unavailable"}
    BY DEF ResultSets
  <1> HIDE DEF n, got
  <1>7. d.retention # "complete"
    BY <1>6
  <1>8. d.retention = "row_cap" => Len(d.rows) = most /\ d.seen > most
    BY <1>2, <1>3, <1>5, <1>6 DEF Tells, n
  <1>9. d.retention = "data_limit" => Len(d.rows) < d.seen /\ closes
    BY <1>3, <1>5, <1>6 DEF Tells
  <1>10. d.retention = "unavailable" => Len(d.rows) = 0 /\ closes
    BY <1>6 DEF Tells
  <1>11. Tells(d, got, most, closes)
    BY <1>3, <1>4, <1>7, <1>8, <1>9, <1>10 DEF Tells
  <1> QED
    BY <1>11 DEF got

\* A row is kept only by a result that has every row so far.
LEMMA KeepTells ==
    ASSUME NEW s \in ResultSets, NEW received \in Seq(Nat), NEW row \in Nat, NEW most \in Nat,
           NEW closed \in BOOLEAN, NEW closes \in BOOLEAN, Tells(s, received, most, closed), ~closed,
           s.retention # "unavailable", Len(s.rows) < most,
           NEW k, k.rows = Append(s.rows, row), k.seen = s.seen + 1, k.retention = s.retention
    PROVE  Tells(k, Append(received, row), most, closes)
  <1> DEFINE got == Append(received, row)
             rows == Append(s.rows, row)
  <1>1. s.retention = "complete"
    BY DEF Tells, ResultSets
  <1>2. /\ s.rows \in Seq(Nat) /\ Len(s.rows) \in Nat /\ Len(s.rows) = Len(received)
        /\ s.seen = Len(received)
        /\ \A i \in 1 .. Len(s.rows) : s.rows[i] = received[i]
    BY <1>1 DEF Tells, ResultSets
  <1>3. Len(got) = Len(received) + 1 /\ Len(rows) = Len(s.rows) + 1
    BY <1>2
  <1>4. \A i \in 1 .. Len(rows) : rows[i] = got[i]
    BY <1>2, <1>3
  <1> HIDE DEF got, rows
  <1>5. k.rows = rows
    BY DEF rows
  <1>6. Tells(k, got, most, closes)
    BY <1>1, <1>2, <1>3, <1>4, <1>5 DEF Tells
  <1> QED
    BY <1>6 DEF got

\* A row arrives.
LEMMA RowStep ==
    ASSUME Runs, X!Row
    PROVE  Runs'
  <1> DEFINE row == buffer[index].rows[Len(arrived) + 1]
             b == X!admit_data(row)
  <1>1. /\ step = "rows" /\ set # X!None /\ Len(arrived) < Len(buffer[index].rows)
        /\ backend' = backend
    BY DEF X!Row, X!Statement
  <1>2. CASE X!StopWith(X!OwnError)
    <2>1. backend' \in Servers
      BY <1>1 DEF Runs, RunTypes
    <2>2. ~X!OwnError.prose /\ X!OwnError.prose \in BOOLEAN
      BY DEF X!OwnError
    <2> QED
      BY <1>2, <2>1, <2>2, StopStep
  <1>3. CASE ~X!StopWith(X!OwnError)
    <2>1. /\ arrived' = Append(arrived, row)
          /\ \/ /\ set.retention = "unavailable"
                /\ set' = X!Discarded("unavailable") /\ budget' = budget
             \/ /\ Len(set.rows) >= cap
                /\ set' = X!Discarded("row_cap") /\ budget' = budget
             \/ /\ set.retention # "unavailable" /\ ~(Len(set.rows) >= cap)
                /\ budget' = b
                /\ set' = IF X!Admitted(b) THEN X!Kept(row) ELSE X!Discarded("data_limit")
          /\ UNCHANGED <<buffer, bound, cap, step, index, results, outcome>>
      BY <1>3 DEF X!Row, X!run, X!Statement
    <2>2. /\ set \in ResultSets /\ cap \in Nat /\ arrived \in Seq(Nat)
          /\ Tells(set, arrived, cap, budget.closed)
      BY <1>1 DEF Runs, RunTypes, Result, SetsTell
    <2>3. row \in Nat \ {0}
      <3>1. buffer[index] \in Sent
        BY <1>1, StatementsAreSent DEF Runs, InStatement
      <3>2. buffer[index].rows \in Seq(Nat \ {0}) /\ Len(arrived) + 1 \in 1 .. Len(buffer[index].rows)
        BY <1>1, <2>2, <3>1 DEF Sent
      <3> QED
        BY <3>2
    <2> HIDE DEF row
    <2>4. /\ b \in [charged : 0 .. Limit, closed : BOOLEAN]
          /\ budget.closed => b.closed
          /\ X!Admitted(b) => b.charged = budget.charged + row /\ ~budget.closed
          /\ ~X!Admitted(b) => b.charged = budget.charged /\ b.closed
      BY <2>3, Admits DEF Runs
    <2> HIDE DEF b
    <2>5. /\ budget' \in [charged : 0 .. Limit, closed : BOOLEAN]
          /\ budget.closed => budget'.closed
      BY <2>1, <2>4 DEF Runs, RunTypes
    <2>6. ASSUME NEW cause \in {"row_cap", "data_limit", "unavailable"},
                 set' = X!Discarded(cause)
          PROVE  /\ set' \in ResultSets /\ set'.rows = set.rows /\ set'.seen = set.seen + 1
                 /\ set'.retention = IF set.retention = "complete" THEN cause ELSE set.retention
      <3> DEFINE r == IF set.retention = "complete" THEN cause ELSE set.retention
                 n == set.seen + 1
      <3>1. set' = [set EXCEPT !.seen = n, !.retention = r]
        BY <2>6 DEF X!Discarded
      <3>2. n \in Nat /\ r \in {"complete", "row_cap", "data_limit", "unavailable"}
        BY <2>2 DEF ResultSets
      <3> HIDE DEF r, n
      <3>3. /\ set' \in ResultSets /\ set'.rows = set.rows /\ set'.seen = n
            /\ set'.retention = r
        <4>1. set \in ResultSets
          BY <2>2
        <4>2. [set EXCEPT !.seen = n, !.retention = r] \in ResultSets
          BY <3>2, <4>1 DEF ResultSets
        <4>3. set' \in ResultSets
          BY <3>1, <4>2
        <4>4. set'.rows = set.rows
          BY <3>1, <4>1 DEF ResultSets
        <4>5. set'.seen = n
          BY <3>1, <4>1 DEF ResultSets
        <4>6. set'.retention = r
          BY <3>1, <4>1 DEF ResultSets
        <4> QED
          BY <4>3, <4>4, <4>5, <4>6
      <3> QED
        BY <3>3 DEF r, n
    <2>7. ASSUME set' = X!Kept(row)
          PROVE  /\ set' \in ResultSets /\ set'.rows = Append(set.rows, row)
                 /\ set'.seen = set.seen + 1 /\ set'.retention = set.retention
      <3>1. set' = [set EXCEPT !.seen = set.seen + 1, !.rows = Append(set.rows, row)]
        BY <2>7 DEF X!Kept
      <3>2. set.seen + 1 \in Nat /\ Append(set.rows, row) \in Seq(Nat)
        BY <2>2, <2>3 DEF ResultSets
      <3> QED
        BY <2>2, <3>1, <3>2 DEF ResultSets
    <2>8. /\ set' \in ResultSets /\ Tells(set', arrived', cap', budget'.closed)
          /\ X!Charge(set') - X!Charge(set) <= budget'.charged - budget.charged
          /\ X!Charge(set') \in Int
      <3>1. /\ X!Charge(set) = X!Total(set.rows) /\ X!Total(set.rows) \in Nat
            /\ \A s \in ResultSets : X!Charge(s) = X!Total(s.rows)
            /\ X!Total(Append(set.rows, row)) = X!Total(set.rows) + row
        <4>1. set.rows \in Seq(Nat) /\ row \in Nat
          BY <2>2, <2>3 DEF ResultSets
        <4>2. \A s \in ResultSets : X!Charge(s) = X!Total(s.rows)
          BY SetsAreSome DEF X!Charge
        <4>3. X!Total(set.rows) \in Nat /\ X!Total(Append(set.rows, row)) = X!Total(set.rows) + row
          BY <4>1, Totals
        <4> QED
          BY <2>2, <4>2, <4>3
      <3>2. budget.charged \in Int /\ budget.closed \in BOOLEAN /\ budget'.closed \in BOOLEAN
        BY <2>5, ClientAssumption DEF Runs, RunTypes
      <3>3. ASSUME NEW cause \in {"row_cap", "data_limit", "unavailable"},
                   set' = X!Discarded(cause),
                   \/ cause = "unavailable" /\ set.retention = "unavailable"
                   \/ cause = "row_cap" /\ Len(set.rows) >= cap
                   \/ cause = "data_limit" /\ budget'.closed,
                   budget'.charged = budget.charged
            PROVE  /\ set' \in ResultSets /\ Tells(set', arrived', cap', budget'.closed)
                   /\ X!Charge(set') - X!Charge(set) <= budget'.charged - budget.charged
                   /\ X!Charge(set') \in Int
        <4>1. /\ set' \in ResultSets /\ set'.rows = set.rows /\ set'.seen = set.seen + 1
              /\ set'.retention = IF set.retention = "complete" THEN cause ELSE set.retention
          BY <2>6, <3>3
        <4>2. row \in Nat
          BY <2>3
        <4>5. \/ set.retention # "complete" /\ set'.retention = set.retention
              \/ Len(set.rows) >= cap /\ set'.retention = "row_cap"
              \/ budget'.closed /\ set'.retention = "data_limit"
          BY <3>3, <4>1
        <4>3. Tells(set', Append(arrived, row), cap, budget'.closed)
          BY <2>2, <2>5, <3>2, <4>1, <4>2, <4>5, DiscardTells
        <4>4. X!Charge(set') = X!Charge(set) /\ X!Charge(set) \in Nat
          BY <3>1, <4>1
        <4> QED
          BY <2>1, <3>2, <3>3, <4>1, <4>3, <4>4
      <3>4. CASE set.retention = "unavailable" /\ set' = X!Discarded("unavailable") /\ budget' = budget
        BY <3>3, <3>4
      <3>5. CASE Len(set.rows) >= cap /\ set' = X!Discarded("row_cap") /\ budget' = budget
        BY <3>3, <3>5
      <3>6. CASE X!Admitted(b) /\ set.retention # "unavailable" /\ ~(Len(set.rows) >= cap)
                 /\ budget' = b /\ set' = X!Kept(row)
        <4>1. Len(set.rows) < cap /\ row \in Nat /\ ~budget.closed
          BY <2>2, <2>3, <2>4, <3>6 DEF ResultSets
        <4>2. /\ set' \in ResultSets /\ set'.rows = Append(set.rows, row)
              /\ set'.seen = set.seen + 1 /\ set'.retention = set.retention
          BY <2>7, <3>6
        <4>3. Tells(set', Append(arrived, row), cap, budget'.closed)
          BY <2>2, <3>2, <3>6, <4>1, <4>2, KeepTells
        <4>4. /\ X!Charge(set') = X!Charge(set) + row /\ X!Charge(set) \in Nat
              /\ budget'.charged = budget.charged + row
          BY <2>4, <3>1, <3>6, <4>2
        <4> QED
          BY <2>1, <3>2, <4>1, <4>2, <4>3, <4>4
      <3>7. CASE ~X!Admitted(b) /\ budget' = b /\ set' = X!Discarded("data_limit")
        BY <2>4, <3>3, <3>7
      <3> QED
        BY <2>1, <3>4, <3>5, <3>6, <3>7
    <2>9. RunTypes'
      <3>1. arrived' \in Seq(Nat)
        BY <2>1, <2>2, <2>3
      <3> QED
        BY <1>1, <2>1, <2>5, <2>8, <3>1 DEF Runs, RunTypes, Result
    <2>10. Placed' /\ IsTold'
      BY <1>1, <2>1, <2>8, SetsAreSome DEF Runs, Placed, InStatement, Accepted, IsTold
    <2>11. Arrives'
      <3>1. Len(arrived') = Len(arrived) + 1 /\ Len(arrived) \in Nat
            /\ \A i \in 1 .. Len(arrived') :
                 arrived'[i] = IF i = Len(arrived) + 1 THEN row ELSE arrived[i]
        BY <2>1, <2>2, <2>3
      <3>2. \A i \in 1 .. Len(arrived) : arrived[i] = buffer[index].rows[i]
        BY <1>1 DEF Runs, Arrives, Accepted
      <3>3. \A i \in 1 .. Len(arrived') : arrived'[i] = buffer[index].rows[i]
        BY <3>1, <3>2 DEF row
      <3>4. Len(buffer[index].rows) \in Nat
        <4>1. buffer[index] \in Sent
          BY <1>1, StatementsAreSent DEF Runs, InStatement
        <4> QED
          BY <4>1 DEF Sent
      <3>5. Len(arrived') <= Len(buffer[index].rows)
        BY <1>1, <3>1, <3>4
      <3> QED
        BY <1>1, <2>1, <3>3, <3>5 DEF Arrives, Accepted
    <2>12. SetsTell'
      BY <2>1, <2>5, <2>8, ResultsStay DEF Runs, SetsTell
    <2>13. IsCharged'
      <3>1. results \in Seq(Result) /\ set \in Result /\ budget.charged \in Int
            /\ budget'.charged \in Int
        BY <2>5, ClientAssumption DEF Runs, RunTypes
      <3>2. X!Total(X!Charges(results)) \in Nat /\ X!Charge(set) \in Nat
        BY <3>1, ChargesAdd
      <3>3. X!Total(X!Charges(results))' = X!Total(X!Charges(results))
        BY <2>1, ChargesStay
      <3>4. X!Total(X!Charges(results)) + X!Charge(set') <= budget'.charged
        BY <2>8, <3>1, <3>2 DEF Runs, IsCharged
      <3> QED
        BY <3>3, <3>4 DEF IsCharged, X!Charge
    <2> QED
      BY <2>9, <2>10, <2>11, <2>12, <2>13 DEF Runs
  <1> QED
    BY <1>2, <1>3

\* The statement ran: what arrived is all of it.
LEMMA CompleteStep ==
    ASSUME Runs, X!Complete
    PROVE  Runs'
  <1>1. /\ step = "rows" /\ Len(arrived) = Len(buffer[index].rows)
        /\ step' = IF set # X!None /\ set.retention # "unavailable" /\ ~budget.closed
                   THEN "describe" ELSE "next"
        /\ UNCHANGED <<buffer, bound, cap, index, backend, arrived, set, budget, results, outcome>>
    BY DEF X!Complete, X!run, X!Statement
  <1>2. RunTypes' /\ SetsTell' /\ IsCharged'
    BY <1>1, StillStep DEF Runs, RunTypes, Steps
  <1>3. Placed' /\ IsTold'
    BY <1>1 DEF Runs, Placed, InStatement, Accepted, IsTold
  <1>4. arrived = buffer[index].rows
    <2>1. buffer[index] \in Sent
      BY <1>1, StatementsAreSent DEF Runs, InStatement
    <2> DEFINE rows == buffer[index].rows
    <2>2. rows \in Seq(Nat \ {0}) /\ Nat \ {0} \subseteq Nat
      BY <2>1 DEF Sent
    <2> HIDE DEF rows
    <2>3. rows \in Seq(Nat)
      BY <2>2, SeqMonotonic
    <2>4. arrived \in Seq(Nat)
      BY DEF Runs, RunTypes
    <2>5. Len(arrived) = Len(rows) /\ \A i \in 1 .. Len(arrived) : arrived[i] = rows[i]
      BY <1>1 DEF Runs, Arrives, Accepted, rows
    <2>6. arrived = rows
      BY <2>3, <2>4, <2>5, SeqEqual
    <2> QED
      BY <2>6 DEF rows
  <1>5. Arrives'
    BY <1>1, <1>4 DEF Runs, Arrives, Accepted
  <1> QED
    BY <1>2, <1>3, <1>5 DEF Runs

\* The types of its columns are asked for.
LEMMA DescribeStep ==
    ASSUME Runs, X!DescribeColumns
    PROVE  Runs'
  <1>1. /\ step = "describe" /\ step' = "next" /\ set \in ResultSets
        /\ UNCHANGED <<buffer, bound, cap, index, arrived, results, outcome>>
    BY DEF X!DescribeColumns, X!run, Runs, RunTypes, Placed, Result
  <1>2. backend' \in Servers /\ backend \in Servers /\ budget \in [charged : 0 .. Limit, closed : BOOLEAN]
    BY ServersStay DEF X!DescribeColumns, Runs, RunTypes
  <1>3. Placed' /\ Arrives' /\ IsTold'
    <2>1. set' # X!None
      <3>1. CASE UNCHANGED set
        BY <1>1, <3>1, SetsAreSome
      <3>2. CASE set' = [set EXCEPT !.typed = TRUE]
        <4>1. set' \in ResultSets
          BY <1>1, <3>2 DEF ResultSets
        <4> QED
          BY <4>1, SetsAreSome
      <3> QED
        BY <3>1, <3>2 DEF X!DescribeColumns
    <2> QED
      BY <1>1, <2>1 DEF Runs, Placed, Arrives, InStatement, Accepted, IsTold
  <1>4. CASE UNCHANGED <<set, budget>>
    <2>1. RunTypes' /\ SetsTell' /\ IsCharged'
      BY <1>1, <1>2, <1>4, StillStep DEF Runs, RunTypes, Steps
    <2> QED
      BY <1>3, <2>1 DEF Runs
  <1>5. CASE /\ budget.charged + 1 <= Limit
             /\ budget' = [budget EXCEPT !.charged = budget.charged + 1]
             /\ set' = [set EXCEPT !.typed = TRUE]
    <2>1. /\ set' \in ResultSets /\ set'.rows = set.rows /\ set'.seen = set.seen
          /\ set'.retention = set.retention
      BY <1>1, <1>5 DEF ResultSets
    <2>2. /\ budget' \in [charged : 0 .. Limit, closed : BOOLEAN]
          /\ budget'.closed = budget.closed /\ budget'.charged = budget.charged + 1
          /\ budget.charged \in Int
      BY <1>2, <1>5, ClientAssumption
    <2>3. RunTypes'
      BY <1>1, <1>2, <2>1, <2>2 DEF Runs, RunTypes, Steps, Result
    <2>4. SetsTell'
      <3>1. Tells(set, arrived, cap, budget.closed)
        BY <1>1, SetsAreSome DEF Runs, SetsTell
      <3>2. Tells(set', arrived', cap', budget'.closed)
        BY <1>1, <2>1, <2>2, <3>1 DEF Tells
      <3> QED
        BY <1>1, <2>2, <3>2, ResultsStay DEF Runs, SetsTell
    <2>5. IsCharged'
      <3>1. X!Charge(set') = X!Charge(set)
        BY <1>1, <2>1, SetsAreSome DEF X!Charge
      <3>2. X!Total(X!Charges(results)) \in Nat /\ X!Charge(set) \in Nat
        BY ChargesAdd DEF Runs, RunTypes
      <3>3. X!Total(X!Charges(results))' = X!Total(X!Charges(results))
        BY <1>1, ChargesStay
      <3>4. X!Total(X!Charges(results)) + X!Charge(set') <= budget'.charged
        BY <2>2, <3>1, <3>2 DEF Runs, IsCharged
      <3> QED
        BY <3>3, <3>4 DEF IsCharged, X!Charge
    <2> QED
      BY <1>3, <2>3, <2>4, <2>5 DEF Runs
  <1> QED
    BY <1>4, <1>5 DEF X!DescribeColumns

\* The result is filed and the next statement looked at.
LEMMA NextStep ==
    ASSUME Runs, X!NextStatement
    PROVE  Runs'
  <1>1. /\ step = "next" /\ results' = Append(results, set) /\ set' = X!None /\ arrived' = << >>
        /\ UNCHANGED <<buffer, bound, cap, backend, budget, outcome>>
        /\ \/ index = Len(buffer) /\ step' = "probe" /\ index' = index
           \/ index # Len(buffer) /\ index' = index + 1 /\ step' \in {"check", "send"}
    BY DEF X!NextStatement, X!run
  <1>2. /\ buffer \in Seq(Sent) /\ index \in 1 .. Len(buffer) /\ Len(results) = index - 1
        /\ results \in Seq(Result) /\ set \in Result
    BY <1>1 DEF Runs, RunTypes, Placed, InStatement
  <1>3. /\ results' \in Seq(Result) /\ Len(results') = index /\ index' \in Nat
        /\ \A i \in 1 .. Len(results') : results'[i] = IF i = index THEN set ELSE results[i]
    BY <1>1, <1>2
  <1>4. RunTypes'
    <2>1. << >> \in Seq(Nat)
      OBVIOUS
    <2> QED
      BY <1>1, <1>3, <2>1 DEF Runs, RunTypes, Steps, Result
  <1>5. Placed' /\ Arrives' /\ IsTold'
    <2>1. ASSUME index # Len(buffer), index' = index + 1
          PROVE  index' \in 1 .. Len(buffer) /\ Len(results') = index' - 1
      <3>1. Len(buffer) \in Nat
        BY <1>2
      <3>2. Len(results') = index /\ index \in 1 .. Len(buffer)
        BY <1>2, <1>3
      <3> QED
        BY <2>1, <3>1, <3>2
    <2>2. step' \in {"check", "send"} => index' \in 1 .. Len(buffer) /\ Len(results') = index' - 1
      BY <1>1, <2>1
    <2> QED
      BY <1>1, <2>2 DEF Runs, Placed, Arrives, InStatement, Accepted, IsTold
  <1>6. SetsTell'
    <2> SUFFICES ASSUME NEW i \in 1 .. Len(results'), results'[i] # X!None
                 PROVE  Tells(results'[i], buffer[i].rows, cap, budget.closed)
      BY <1>1 DEF SetsTell
    <2>1. CASE i = index
      <3>1. arrived = buffer[index].rows
        BY <1>1 DEF Runs, Arrives
      <3>2. results'[i] = set
        BY <1>3, <2>1
      <3> QED
        BY <2>1, <3>1, <3>2 DEF Runs, SetsTell
    <2>2. CASE i # index
      <3>1. i \in 1 .. Len(results) /\ results'[i] = results[i]
        BY <1>2, <1>3, <2>2
      <3> QED
        BY <3>1 DEF Runs, SetsTell
    <2> QED
      BY <2>1, <2>2
  <1>7. IsCharged'
    <2>1. /\ X!Total(X!Charges(results)) \in Nat /\ X!Charge(set) \in Nat
          /\ X!Total(X!Charges(Append(results, set))) = X!Total(X!Charges(results)) + X!Charge(set)
      BY <1>2, ChargesAdd
    <2>2. X!Charge(set') = 0
      BY <1>1 DEF X!Charge
    <2>3. X!Total(X!Charges(results')) + X!Charge(set') <= budget.charged
      BY <1>1, <2>1, <2>2 DEF Runs, IsCharged
    <2>4. /\ X!Total(X!Charges(results))' = X!Total(X!Charges(results'))
          /\ X!Charge(set)' = X!Charge(set')
      BY DEF X!Total, X!Charges, X!Charge, X!None
    <2> QED
      BY <1>1, <2>3, <2>4 DEF IsCharged
  <1> QED
    BY <1>4, <1>5, <1>6, <1>7 DEF Runs

\* The transaction is told.
LEMMA ProbeStep ==
    ASSUME Runs, X!Probe
    PROVE  Runs'
  <1>1. /\ step = "probe" /\ step' = "done"
        /\ outcome' = [outcome EXCEPT !.transaction = backend.transaction]
        /\ UNCHANGED <<buffer, bound, cap, index, backend, arrived, set, budget, results>>
    BY DEF X!Probe, X!run
  <1>2. outcome \in Outcomes /\ backend.transaction \in {"autocommit", "open", "failed"}
    BY DEF Runs, RunTypes, Servers
  <1>3. /\ outcome' \in Outcomes /\ outcome'.prose = outcome.prose
        /\ outcome'.transaction = backend.transaction
    BY <1>1, <1>2 DEF Outcomes
  <1>4. RunTypes' /\ SetsTell' /\ IsCharged'
    BY <1>1, <1>3, StillStep DEF Runs, RunTypes, Steps
  <1>5. Placed' /\ Arrives' /\ IsTold'
    BY <1>1, <1>3 DEF Runs, Placed, Arrives, InStatement, Accepted, IsTold
  <1> QED
    BY <1>4, <1>5 DEF Runs

\* Requests are cancelled and connections lost.
LEMMA TroubleSteps ==
    ASSUME Runs, X!Cancelled \/ X!Lost \/ X!Broken
    PROVE  Runs'
  <1>1. backend \in Servers /\ bound \in BOOLEAN
    BY DEF Runs, RunTypes
  <1>2. CASE X!Cancelled
    <2>1. /\ backend' = X!Aborted /\ step \in X!Waiting
          /\ IF step \in {"describe", "probe"} THEN X!GoOn
             ELSE X!StopWith(X!ErrorOf("cancel_request"))
      BY <1>2 DEF X!Cancelled
    <2>2. backend' \in Servers
      BY <1>1, <2>1, ServersStay
    <2> QED
      BY <1>1, <2>1, <2>2, Errors, StopStep, GoOnStep
  <1>3. CASE X!Lost
    <2>1. /\ step # "done" /\ backend' = [backend EXCEPT !.alive = FALSE]
          /\ UNCHANGED <<buffer, bound, cap, step, index, arrived, set, budget, results, outcome>>
      BY <1>3 DEF X!Lost, X!run
    <2>2. backend' \in Servers
      BY <1>1, <2>1, ServersStay
    <2>3. RunTypes' /\ SetsTell' /\ IsCharged'
      BY <2>1, <2>2, StillStep DEF Runs, RunTypes
    <2>4. Placed' /\ Arrives' /\ IsTold'
      BY <2>1 DEF Runs, Placed, Arrives, InStatement, Accepted, IsTold
    <2> QED
      BY <2>3, <2>4 DEF Runs
  <1>4. CASE X!Broken
    <2>1. /\ backend' = backend /\ step \in X!Waiting
          /\ IF step \in {"describe", "probe"} THEN X!GoOn
             ELSE X!StopWith(X!ErrorOf("closed"))
      BY <1>4 DEF X!Broken
    <2> QED
      BY <1>1, <2>1, Errors, StopStep, GoOnStep
  <1> QED
    BY <1>2, <1>3, <1>4

\* Every step of a run keeps the invariant.
LEMMA RunsStep ==
    ASSUME Runs, X!Next
    PROVE  Runs'
  BY CheckStep, SendStep, RowDescriptionStep, RowStep, CompleteStep, DescribeStep, NextStep,
     ProbeStep, TroubleSteps DEF X!Next

\* Nothing has arrived or been charged when a run begins.
LEMMA RunsInit == X!Init => Runs
  <1> SUFFICES ASSUME X!Init PROVE Runs
    OBVIOUS
  <1>1. /\ buffer \in Buffer /\ bound \in BOOLEAN /\ cap \in Cap /\ index = 1
        /\ step = (IF buffer = << >> THEN "probe" ELSE IF bound THEN "check" ELSE "send")
        /\ backend \in [alive : {TRUE}, transaction : {"autocommit", "open", "failed"},
                        conforming : BOOLEAN]
        /\ arrived = << >> /\ set = X!None /\ results = << >>
        /\ budget = [charged |-> 0, closed |-> FALSE]
        /\ outcome = [status |-> "succeeded", transaction |-> "unknown", prose |-> FALSE]
    BY DEF X!Init
  <1>2. /\ << >> \in Seq(Nat) /\ << >> \in Seq(Result) /\ Len(<< >>) = 0 /\ 0 \in 0 .. Limit
        /\ buffer \in Seq(Sent) /\ cap \in Nat
    BY <1>1, ClientAssumption DEF Sent
  <1>3. RunTypes
    BY <1>1, <1>2 DEF RunTypes, Steps, Servers, Outcomes, Result
  <1>4. Placed
    <2>1. buffer # << >> => 1 \in 1 .. Len(buffer)
      BY <1>2
    <2> QED
      BY <1>1, <1>2, <2>1 DEF Placed, InStatement, Accepted
  <1>5. Arrives /\ SetsTell /\ IsTold
    BY <1>1, <1>2 DEF Arrives, Accepted, SetsTell, IsTold
  <1>6. IsCharged
    <2>1. X!Charges(results) \in Seq(Nat) /\ X!Charges(results) = << >>
      BY <1>1 DEF X!Charges
    <2>2. X!Total(X!Charges(results)) = 0
      BY <2>1, Totals
    <2> QED
      BY <1>1, <2>2 DEF IsCharged, X!Charge
  <1> QED
    BY <1>3, <1>4, <1>5, <1>6 DEF Runs

\* What the invariant says of the results, as the property says it.
LEMMA TellingIsTelling ==
    ASSUME RunTypes, NEW s \in ResultSets, NEW received \in Seq(Nat),
           Tells(s, received, cap, budget.closed)
    PROVE  X!TellsOf(s, received)
  <1>1. s.rows \in Seq(Nat) /\ s.retention \in {"complete", "row_cap", "data_limit", "unavailable"}
    BY DEF ResultSets
  <1>2. X!IsPrefix(s.rows, received)
    BY <1>1, Prefixes DEF Tells
  <1>3. s.retention = "unavailable" => s.rows = << >>
    BY <1>1 DEF Tells
  <1> HIDE DEF X!IsPrefix
  <1> QED
    BY <1>1, <1>2, <1>3 DEF Tells, X!TellsOf

\* The invariant says what the property does.
LEMMA RunsTold == Runs => X!RunIsToldTruly
  <1> SUFFICES ASSUME Runs PROVE X!RunIsToldTruly
    OBVIOUS
  <1>1. /\ results \in Seq(Result) /\ set \in Result /\ budget.charged \in 0 .. Limit
        /\ arrived \in Seq(Nat)
    BY DEF Runs, RunTypes
  <1>2. X!Sets = IF Accepted THEN Append(results, set) ELSE results
    BY DEF X!Sets, Accepted
  <1>3. X!Total(X!Charges(X!Sets)) <= Limit
    <2>1. /\ X!Total(X!Charges(results)) \in Nat /\ X!Charge(set) \in Nat
          /\ X!Total(X!Charges(Append(results, set))) = X!Total(X!Charges(results)) + X!Charge(set)
      BY <1>1, ChargesAdd
    <2>2. X!Total(X!Charges(X!Sets)) <= X!Total(X!Charges(results)) + X!Charge(set)
      BY <1>2, <2>1
    <2>3. X!Total(X!Charges(X!Sets)) \in Nat
      BY <1>2, <2>1
    <2> QED
      BY <1>1, <2>1, <2>2, <2>3, ClientAssumption DEF Runs, IsCharged
  <1>4. ASSUME NEW i \in DOMAIN X!Sets, X!Sets[i] # X!None
        PROVE  X!TellsOf(X!Sets[i], X!Received(i))
    <2>1. CASE i \in 1 .. Len(results)
      <3>1. X!Sets[i] = results[i] /\ X!Received(i) = buffer[i].rows /\ results[i] \in Result
        BY <1>1, <1>2, <2>1 DEF X!Received
      <3>2. results[i] \in ResultSets /\ Tells(results[i], buffer[i].rows, cap, budget.closed)
        BY <1>4, <2>1, <3>1 DEF Runs, SetsTell, Result
      <3>3. buffer[i].rows \in Seq(Nat)
        <4>1. buffer \in Seq(Sent) /\ Len(results) <= Len(buffer)
          BY DEF Runs, RunTypes, Placed
        <4>2. buffer[i] \in Sent
          BY <1>1, <2>1, <4>1
        <4>3. buffer[i].rows \in Seq(Nat \ {0}) /\ Nat \ {0} \subseteq Nat
          BY <4>2 DEF Sent
        <4> QED
          BY <4>3, SeqMonotonic
      <3> QED
        BY <3>1, <3>2, <3>3, TellingIsTelling DEF Runs
    <2>2. CASE i \notin 1 .. Len(results)
      <3>1. X!Sets[i] = set /\ X!Received(i) = arrived
        BY <1>1, <1>2, <2>2 DEF X!Received
      <3>2. set \in ResultSets /\ Tells(set, arrived, cap, budget.closed)
        BY <1>1, <1>4, <3>1 DEF Runs, SetsTell, Result
      <3> QED
        BY <1>1, <3>1, <3>2, TellingIsTelling DEF Runs
    <2> QED
      BY <2>1, <2>2
  <1> QED
    BY <1>3, <1>4 DEF X!RunIsToldTruly, Runs, IsTold

\* Of the parts of the client, the invariant is about its runs.
OfRuns == part = "execution" => Runs

\* A behaviour that is of a run begins with one.
LEMMA RunsStart == Init => OfRuns
  BY RunsInit DEF Init, OfRuns

\* A step of the client is one of its run or leaves it.
LEMMA RunsMove == OfRuns /\ [Next]_vars => OfRuns'
  <1> SUFFICES ASSUME OfRuns, [Next]_vars, part' = "execution"
               PROVE  Runs'
    BY DEF OfRuns
  <1>1. CASE UNCHANGED vars
    <2>1. /\ Runs
          /\ UNCHANGED <<buffer, bound, cap, step, index, backend, arrived, set, budget, results,
                         outcome>>
      BY <1>1 DEF vars, execution, OfRuns
    <2>2. RunTypes' /\ SetsTell' /\ IsCharged'
      BY <2>1, StillStep DEF Runs, RunTypes
    <2>3. Placed' /\ Arrives' /\ IsTold'
      BY <2>1 DEF Runs, Placed, Arrives, InStatement, Accepted, IsTold
    <2> QED
      BY <2>2, <2>3 DEF Runs
  <1>2. CASE part = "execution" /\ X!Next
    BY <1>2, RunsStep DEF OfRuns
  <1> QED
    BY <1>1, <1>2 DEF Next

\* Whatever the statements, their rows, the row cap and the allowance, and whatever is cancelled
\* or lost: every result has the first rows that arrived for its statement, counts them all and
\* says why it has fewer; all of them together stay within the allowance; the transaction that
\* is reported is the server's or not known; and no words that may quote a bound value are told
\* (query/result.rs:489, retention_budget.rs:31, session.rs:443).
THEOREM RunsTellTheTruth == Spec => []RunIsToldTruly
  <1>1. OfRuns => RunIsToldTruly
    BY RunsTold DEF OfRuns, RunIsToldTruly
  <1> QED
    BY RunsStart, RunsMove, <1>1, PTL DEF Spec

----------------------------------------------------------------------------
(* Values that follow from one another. *)

\* Values that follow from one another, one after the other.
Follows(f, base, make, n) ==
    f[0] = base /\ \A k \in 1 .. n : f[k] = make[k][f[k - 1]]

\* Whatever the steps, there are such values,
LEMMA Recursion ==
    ASSUME NEW V, NEW base \in V, NEW N \in Nat, NEW make \in [1 .. N -> [V -> V]]
    PROVE  \E f \in [0 .. N -> V] : Follows(f, base, make, N)
  <1> DEFINE S == {n \in Nat : n <= N => \E f \in [0 .. n -> V] : Follows(f, base, make, n)}
  <1>1. 0 \in S
    <2> DEFINE f == [k \in 0 .. 0 |-> base]
    <2>1. f \in [0 .. 0 -> V] /\ f[0] = base
      OBVIOUS
    <2>2. \A k \in 1 .. 0 : FALSE
      OBVIOUS
    <2>3. Follows(f, base, make, 0)
      BY <2>1, <2>2 DEF Follows
    <2> QED
      BY <2>1, <2>3
  <1>2. ASSUME NEW n \in Nat, n \in S
        PROVE  n + 1 \in S
    <2> SUFFICES ASSUME n + 1 <= N
                 PROVE  \E g \in [0 .. n + 1 -> V] : Follows(g, base, make, n + 1)
      OBVIOUS
    <2>1. PICK f \in [0 .. n -> V] : Follows(f, base, make, n)
      BY <1>2
    <2> DEFINE g == [k \in 0 .. n + 1 |-> IF k = n + 1 THEN make[n + 1][f[n]] ELSE f[k]]
    <2>2. f[n] \in V /\ n + 1 \in 1 .. N
      OBVIOUS
    <2>3. make[n + 1][f[n]] \in V
      <3>1. make[n + 1] \in [V -> V]
        BY <2>2
      <3> QED
        BY <2>2, <3>1
    <2>4. g \in [0 .. n + 1 -> V]
      BY <2>3
    <2>5. g[n + 1] = make[n + 1][f[n]] /\ \A k \in 0 .. n : g[k] = f[k]
      OBVIOUS
    <2> HIDE DEF g
    <2>6. g[0] = base /\ n \in 0 .. n /\ (n + 1) - 1 = n
      BY <2>1, <2>5 DEF Follows
    <2>7. ASSUME NEW k \in 1 .. n + 1
          PROVE  g[k] = make[k][g[k - 1]]
      <3>1. CASE k = n + 1
        BY <2>5, <2>6, <3>1
      <3>2. CASE k # n + 1
        <4>1. k \in 1 .. n /\ k \in 0 .. n /\ k - 1 \in 0 .. n
          BY <3>2
        <4> QED
          BY <2>1, <2>5, <4>1 DEF Follows
      <3> QED
        BY <3>1, <3>2
    <2> QED
      BY <2>4, <2>6, <2>7 DEF Follows
  <1> HIDE DEF S
  <1>3. N \in S
    BY <1>1, <1>2, Induction
  <1> QED
    BY <1>3 DEF S

\* and they are the same as long as the steps are.
LEMMA RecursionAgrees ==
    ASSUME NEW f, NEW g, NEW base, NEW make, NEW n \in Nat,
           Follows(f, base, make, n), Follows(g, base, make, n)
    PROVE  f[n] = g[n]
  <1> DEFINE S == {k \in Nat : k <= n => f[k] = g[k]}
  <1>1. 0 \in S
    BY DEF Follows
  <1>2. ASSUME NEW k \in Nat, k \in S
        PROVE  k + 1 \in S
    <2> SUFFICES ASSUME k + 1 <= n PROVE f[k + 1] = g[k + 1]
      OBVIOUS
    <2>1. k + 1 \in 1 .. n /\ (k + 1) - 1 = k /\ f[k] = g[k]
      BY <1>2
    <2> QED
      BY <2>1 DEF Follows
  <1> HIDE DEF S
  <1>3. n \in S
    BY <1>1, <1>2, Induction
  <1> QED
    BY <1>3 DEF S

----------------------------------------------------------------------------
(* The history: what is read back of a file. *)

Lines == Seq(Seq(Nat))

\* What one line adds to what was read.
Reader(page) ==
    [n \in 1 .. Len(page) |->
        [v \in Seq(Nat) |-> IF H!Whole(page[n]) THEN Append(v, page[n][1]) ELSE v]]

\* Reading a file is reading its page one after the other.
LEMMA ReadsFollow ==
    ASSUME NEW page \in Lines
    PROVE  \E f \in [0 .. Len(page) -> Seq(Nat)] :
             /\ Follows(f, <<>>, Reader(page), Len(page))
             /\ H!EntriesOf(page) = f[Len(page)]
  <1> DEFINE N == Len(page)
             Is(f) == f = [n \in 0 .. N |->
                             IF n = 0 THEN <<>>
                             ELSE IF H!Whole(page[n]) THEN Append(f[n - 1], page[n][1])
                                  ELSE f[n - 1]]
  <1>0. N \in Nat /\ \A n \in 1 .. N : page[n] \in Seq(Nat)
    BY DEF Lines
  <1>1. ASSUME NEW n \in 1 .. N, H!Whole(page[n])
        PROVE  page[n][1] \in Nat
    <2>1. page[n] \in Seq(Nat) /\ Len(page[n]) = 1
      BY <1>0, <1>1 DEF H!Whole
    <2> QED
      BY <2>1
  <1>2. Reader(page) \in [1 .. N -> [Seq(Nat) -> Seq(Nat)]]
    BY <1>1 DEF Reader
  <1>3. ASSUME NEW f \in [0 .. N -> Seq(Nat)], Follows(f, <<>>, Reader(page), N)
        PROVE  Is(f)
    <2>1. ASSUME NEW n \in 1 .. N
          PROVE  f[n] = IF H!Whole(page[n]) THEN Append(f[n - 1], page[n][1]) ELSE f[n - 1]
      <3>1. n - 1 \in 0 .. N
        BY <1>0
      <3>2. f[n - 1] \in Seq(Nat) /\ f[n] = Reader(page)[n][f[n - 1]]
        BY <1>3, <3>1 DEF Follows
      <3> QED
        BY <3>2 DEF Reader
    <2>2. f[0] = <<>>
      BY <1>3 DEF Follows
    <2>3. \A n \in 0 .. N : n # 0 => n \in 1 .. N
      BY <1>0
    <2> QED
      BY <2>1, <2>2, <2>3
  <1>4. PICK g \in [0 .. N -> Seq(Nat)] : Follows(g, <<>>, Reader(page), N)
    <2>1. <<>> \in Seq(Nat)
      OBVIOUS
    <2> HIDE DEF N
    <2> QED
      BY <1>0, <1>2, <2>1, Recursion
  <1> DEFINE r == CHOOSE f : Is(f)
  <1>5. Is(r)
    <2>1. Is(g)
      BY <1>3, <1>4
    <2> HIDE DEF Is
    <2> QED
      BY <2>1
  <1>6. H!EntriesOf(page) = r[N]
    BY DEF H!EntriesOf
  <1>7. r[N] = g[N]
    <2> DEFINE S == {n \in Nat : n <= N => r[n] = g[n]}
    <2>1. Is(g)
      BY <1>3, <1>4
    <2> HIDE DEF r, N
    <2>2. \A n \in 0 .. N :
            /\ r[n] = IF n = 0 THEN <<>>
                      ELSE IF H!Whole(page[n]) THEN Append(r[n - 1], page[n][1]) ELSE r[n - 1]
            /\ g[n] = IF n = 0 THEN <<>>
                      ELSE IF H!Whole(page[n]) THEN Append(g[n - 1], page[n][1]) ELSE g[n - 1]
      BY <1>5, <2>1
    <2>3. 0 \in S
      BY <1>0, <2>2
    <2>4. ASSUME NEW n \in Nat, n \in S
          PROVE  n + 1 \in S
      <3> SUFFICES ASSUME n + 1 <= N PROVE r[n + 1] = g[n + 1]
        OBVIOUS
      <3>1. n + 1 \in 0 .. N /\ (n + 1) - 1 = n /\ n + 1 # 0 /\ r[n] = g[n]
        BY <1>0, <2>4
      <3> QED
        BY <2>2, <3>1
    <2> HIDE DEF S
    <2>5. N \in S
      BY <1>0, <2>3, <2>4, Induction
    <2> QED
      BY <1>0, <2>5 DEF S
  <1> QED
    BY <1>4, <1>6, <1>7

\* One more line adds its entry, if it has one.
LEMMA ReadsOneMore ==
    ASSUME NEW page \in Lines, NEW line \in Seq(Nat)
    PROVE  /\ H!EntriesOf(page) \in Seq(Nat)
           /\ H!EntriesOf(Append(page, line)) =
                IF H!Whole(line) THEN Append(H!EntriesOf(page), line[1])
                ELSE H!EntriesOf(page)
  <1> DEFINE more == Append(page, line)
             N == Len(page)
  <1>1. /\ more \in Lines /\ N \in Nat /\ Len(more) = N + 1 /\ more[N + 1] = line
        /\ \A n \in 1 .. N : more[n] = page[n]
    BY DEF Lines
  <1> HIDE DEF more
  <1>2. PICK f \in [0 .. N -> Seq(Nat)] :
               Follows(f, <<>>, Reader(page), N) /\ H!EntriesOf(page) = f[N]
    BY ReadsFollow
  <1>3. PICK g \in [0 .. Len(more) -> Seq(Nat)] :
               Follows(g, <<>>, Reader(more), Len(more)) /\ H!EntriesOf(more) = g[Len(more)]
    BY <1>1, ReadsFollow
  <1>4. Follows(g, <<>>, Reader(page), N)
    <2>1. ASSUME NEW n \in 1 .. N
          PROVE  Reader(page)[n] = Reader(more)[n] /\ n \in 1 .. Len(more)
      <3>1. n \in 1 .. Len(more) /\ more[n] = page[n]
        BY <1>1
      <3> QED
        BY <3>1 DEF Reader, N
    <2> QED
      BY <1>3, <2>1 DEF Follows
  <1>5. f[N] = g[N]
    <2> HIDE DEF N
    <2> QED
      BY <1>1, <1>2, <1>4, RecursionAgrees
  <1>6. g[N] \in Seq(Nat) /\ N + 1 \in 1 .. Len(more) /\ (N + 1) - 1 = N
    BY <1>1
  <1>7. g[N + 1] = IF H!Whole(line) THEN Append(g[N], line[1]) ELSE g[N]
    <2>1. g[N + 1] = Reader(more)[N + 1][g[N]]
      BY <1>3, <1>6 DEF Follows
    <2> QED
      BY <1>1, <1>6, <2>1 DEF Reader
  <1> QED
    BY <1>1, <1>2, <1>3, <1>5, <1>6, <1>7 DEF more

\* Nothing is read of no page.
LEMMA ReadsNothing == H!EntriesOf(<<>>) = <<>>
  <1>1. <<>> \in Lines /\ Len(<<>>) = 0
    BY DEF Lines
  <1>2. PICK f \in [0 .. Len(<<>>) -> Seq(Nat)] :
               /\ Follows(f, <<>>, Reader(<<>>), Len(<<>>))
               /\ H!EntriesOf(<<>>) = f[Len(<<>>)]
    BY <1>1, ReadsFollow
  <1> QED
    BY <1>1, <1>2 DEF Follows

\* The entries that are read are those of whole page, in the order of the page.
Reads(page, e) ==
    /\ e \in Seq(Nat \ {0})
    /\ \A i \in 1 .. Len(e) :
         \E a \in 1 .. Len(page) : H!Whole(page[a]) /\ page[a][1] = e[i]
    /\ \A i, j \in 1 .. Len(e) : i < j =>
         \E a, b \in 1 .. Len(page) :
            /\ a < b /\ H!Whole(page[a]) /\ H!Whole(page[b])
            /\ page[a][1] = e[i] /\ page[b][1] = e[j]

\* One more line of the file is one more entry, if it is whole,
LEMMA ReadsMore ==
    ASSUME NEW page \in Lines, NEW line \in Seq(Nat), NEW e, Reads(page, e)
    PROVE  Reads(Append(page, line), IF H!Whole(line) THEN Append(e, line[1]) ELSE e)
  <1> DEFINE more == Append(page, line)
             N == Len(page)
  <1>1. /\ N \in Nat /\ Len(more) = N + 1 /\ more[N + 1] = line
        /\ \A n \in 1 .. N : more[n] = page[n]
    BY DEF Lines
  <1> HIDE DEF more, N
  <1>2. /\ e \in Seq(Nat \ {0})
        /\ \A i \in 1 .. Len(e) :
             \E a \in 1 .. Len(more) : a <= N /\ H!Whole(more[a]) /\ more[a][1] = e[i]
        /\ \A i, j \in 1 .. Len(e) : i < j =>
             \E a, b \in 1 .. Len(more) :
                /\ a < b /\ H!Whole(more[a]) /\ H!Whole(more[b])
                /\ more[a][1] = e[i] /\ more[b][1] = e[j]
    <2>1. e \in Seq(Nat \ {0})
      BY DEF Reads
    <2>2. ASSUME NEW i \in 1 .. Len(e)
          PROVE  \E a \in 1 .. Len(more) : a <= N /\ H!Whole(more[a]) /\ more[a][1] = e[i]
      <3>1. PICK a \in 1 .. N : H!Whole(page[a]) /\ page[a][1] = e[i]
        BY DEF Reads, N
      <3> QED
        BY <1>1, <3>1
    <2>3. ASSUME NEW i \in 1 .. Len(e), NEW j \in 1 .. Len(e), i < j
          PROVE  \E a, b \in 1 .. Len(more) :
                   /\ a < b /\ H!Whole(more[a]) /\ H!Whole(more[b])
                   /\ more[a][1] = e[i] /\ more[b][1] = e[j]
      <3>1. PICK a \in 1 .. N, b \in 1 .. N :
                   /\ a < b /\ H!Whole(page[a]) /\ H!Whole(page[b])
                   /\ page[a][1] = e[i] /\ page[b][1] = e[j]
        BY <2>3 DEF Reads, N
      <3>2. a \in 1 .. Len(more) /\ b \in 1 .. Len(more) /\ more[a] = page[a] /\ more[b] = page[b]
        BY <1>1
      <3> QED
        BY <3>1, <3>2
    <2> QED
      BY <2>1, <2>2, <2>3
  <1>3. CASE ~H!Whole(line)
    <2>1. Reads(more, e)
      BY <1>2 DEF Reads
    <2> QED
      BY <1>3, <2>1 DEF more
  <1>4. CASE H!Whole(line)
    <2> DEFINE d == Append(e, line[1])
               M == Len(e)
    <2>1. line[1] \in Nat \ {0}
      BY <1>4 DEF H!Whole, H!Torn
    <2>2. /\ d \in Seq(Nat \ {0}) /\ M \in Nat /\ Len(d) = M + 1 /\ d[M + 1] = line[1]
          /\ \A i \in 1 .. M : d[i] = e[i]
      BY <1>2, <2>1
    <2> HIDE DEF d, M
    <2>3. ASSUME NEW i \in 1 .. Len(d)
          PROVE  \E a \in 1 .. Len(more) : H!Whole(more[a]) /\ more[a][1] = d[i]
      <3>1. CASE i = M + 1
        <4>1. N + 1 \in 1 .. Len(more) /\ H!Whole(more[N + 1]) /\ more[N + 1][1] = d[i]
          BY <1>1, <1>4, <2>2, <3>1
        <4> QED
          BY <4>1
      <3>2. CASE i # M + 1
        <4>1. i \in 1 .. Len(e) /\ d[i] = e[i]
          BY <2>2, <3>2 DEF M
        <4> QED
          BY <1>2, <4>1
      <3> QED
        BY <3>1, <3>2
    <2>4. ASSUME NEW i \in 1 .. Len(d), NEW j \in 1 .. Len(d), i < j
          PROVE  \E a, b \in 1 .. Len(more) :
                    /\ a < b /\ H!Whole(more[a]) /\ H!Whole(more[b])
                    /\ more[a][1] = d[i] /\ more[b][1] = d[j]
      <3>1. i \in 1 .. Len(e) /\ d[i] = e[i]
        BY <2>2, <2>4 DEF M
      <3>2. CASE j = M + 1
        <4>1. PICK a \in 1 .. Len(more) : a <= N /\ H!Whole(more[a]) /\ more[a][1] = e[i]
          BY <1>2, <3>1
        <4>2. N + 1 \in 1 .. Len(more) /\ a < N + 1 /\ H!Whole(more[N + 1])
              /\ more[N + 1][1] = d[j]
          BY <1>1, <1>4, <2>2, <3>2, <4>1
        <4> QED
          BY <3>1, <4>1, <4>2
      <3>3. CASE j # M + 1
        <4>1. j \in 1 .. Len(e) /\ d[j] = e[j]
          BY <2>2, <3>3 DEF M
        <4>2. \E a, b \in 1 .. Len(more) :
                 /\ a < b /\ H!Whole(more[a]) /\ H!Whole(more[b])
                 /\ more[a][1] = e[i] /\ more[b][1] = e[j]
          <5> HIDE DEF d
          <5> QED
            BY <1>2, <2>4, <3>1, <4>1
        <4> QED
          BY <3>1, <4>1, <4>2
      <3> QED
        BY <3>2, <3>3
    <2> QED
      <3>1. Reads(more, d)
        BY <2>2, <2>3, <2>4 DEF Reads
      <3> QED
        BY <1>4, <3>1 DEF d, more
  <1> QED
    BY <1>3, <1>4

\* and what a page is read as are its whole lines, in their order.
LEMMA ReadsAll == \A page \in Lines : Reads(page, H!EntriesOf(page))
  <1> DEFINE S == {n \in Nat : \A page \in Lines :
                      Len(page) = n => Reads(page, H!EntriesOf(page))}
  <1>1. 0 \in S
    <2> SUFFICES ASSUME NEW page \in Lines, Len(page) = 0
                 PROVE  Reads(page, H!EntriesOf(page))
      OBVIOUS
    <2>1. page = <<>> /\ Len(<<>>) = 0 /\ <<>> \in Seq(Nat \ {0})
      BY DEF Lines
    <2>2. \A i \in 1 .. Len(<<>>) : FALSE
      OBVIOUS
    <2>3. Reads(<<>>, <<>>)
      BY <2>1, <2>2 DEF Reads
    <2> QED
      BY <2>1, <2>3, ReadsNothing
  <1>2. ASSUME NEW n \in Nat, n \in S
        PROVE  n + 1 \in S
    <2> SUFFICES ASSUME NEW page \in Lines, Len(page) = n + 1
                 PROVE  Reads(page, H!EntriesOf(page))
      OBVIOUS
    <2>1. PICK less \in Lines, line \in Seq(Nat) : page = Append(less, line)
      <3>1. page \in Seq(Seq(Nat)) /\ page # <<>>
        BY DEF Lines
      <3> QED
        BY <3>1, SequenceEmptyOrAppend DEF Lines
    <2>2. Len(less) = n
      BY <2>1 DEF Lines
    <2>3. Reads(less, H!EntriesOf(less))
      BY <1>2, <2>2
    <2>4. Reads(Append(less, line), IF H!Whole(line) THEN Append(H!EntriesOf(less), line[1])
                                    ELSE H!EntriesOf(less))
      BY <2>3, ReadsMore
    <2>5. H!EntriesOf(Append(less, line)) =
            IF H!Whole(line) THEN Append(H!EntriesOf(less), line[1]) ELSE H!EntriesOf(less)
      BY ReadsOneMore
    <2> QED
      BY <2>1, <2>4, <2>5
  <1> HIDE DEF S
  <1>3. Nat \subseteq S
    BY <1>1, <1>2, Induction
  <1> SUFFICES ASSUME NEW page \in Lines PROVE Reads(page, H!EntriesOf(page))
    OBVIOUS
  <1>4. Len(page) \in Nat
    BY DEF Lines
  <1> QED
    BY <1>3, <1>4 DEF S

\* What is kept is what is read again.
LEMMA ReadsWhatIsKept == \A e \in Seq(Nat \ {0}) :
                           H!Lines(e) \in Lines /\ H!EntriesOf(H!Lines(e)) = e
  <1> DEFINE Body(e) == [i \in DOMAIN e |-> <<e[i]>>]
             S == {n \in Nat : \A e \in Seq(Nat \ {0}) :
                      Len(e) = n => Body(e) \in Lines /\ H!EntriesOf(Body(e)) = e}
  <1>1. 0 \in S
    <2> SUFFICES ASSUME NEW e \in Seq(Nat \ {0}), Len(e) = 0
                 PROVE  Body(e) \in Lines /\ H!EntriesOf(Body(e)) = e
      OBVIOUS
    <2>1. e = <<>> /\ Body(e) = <<>> /\ <<>> \in Lines
      BY DEF Lines
    <2> QED
      BY <2>1, ReadsNothing
  <1>2. ASSUME NEW n \in Nat, n \in S
        PROVE  n + 1 \in S
    <2> SUFFICES ASSUME NEW e \in Seq(Nat \ {0}), Len(e) = n + 1
                 PROVE  Body(e) \in Lines /\ H!EntriesOf(Body(e)) = e
      OBVIOUS
    <2>1. PICK d \in Seq(Nat \ {0}), x \in Nat \ {0} : e = Append(d, x)
      <3>1. e # <<>>
        OBVIOUS
      <3> QED
        BY <3>1, SequenceEmptyOrAppend
    <2>2. Len(d) = n
      BY <2>1
    <2>3. Body(d) \in Lines /\ H!EntriesOf(Body(d)) = d
      BY <1>2, <2>2
    <2>4. <<x>> \in Seq(Nat) /\ H!Whole(<<x>>) /\ <<x>>[1] = x
      BY DEF H!Whole, H!Torn
    <2>5. Body(e) = Append(Body(d), <<x>>)
      BY <2>1
    <2>6. Append(Body(d), <<x>>) \in Lines
      BY <2>3, <2>4 DEF Lines
    <2> QED
      BY <2>1, <2>3, <2>4, <2>5, <2>6, ReadsOneMore
  <1> HIDE DEF S
  <1>3. Nat \subseteq S
    BY <1>1, <1>2, Induction
  <1> SUFFICES ASSUME NEW e \in Seq(Nat \ {0})
               PROVE  H!Lines(e) \in Lines /\ H!EntriesOf(H!Lines(e)) = e
    OBVIOUS
  <1>4. Body(e) \in Lines /\ H!EntriesOf(Body(e)) = e
    BY <1>3 DEF S
  <1>5. H!Lines(e) = Append(Body(e), <<>>) /\ <<>> \in Seq(Nat) /\ ~H!Whole(<<>>)
    BY DEF H!Lines, H!Whole
  <1>6. Append(Body(e), <<>>) \in Lines
    BY <1>4, <1>5 DEF Lines
  <1> QED
    BY <1>4, <1>5, <1>6, ReadsOneMore

----------------------------------------------------------------------------
(* Entries that are in the order w in which they were written.              *)

\* x was written, and before y.
IsIn(x, w) == \E k \in DOMAIN w : w[k] = x
Precedes(x, y, w) == \E k, l \in DOMAIN w : k < l /\ w[k] = x /\ w[l] = y

\* Entries that were written in that order.
Sound(s, w) ==
    /\ s \in Seq(Nat \ {0})
    /\ \A i \in 1 .. Len(s) : IsIn(s[i], w)
    /\ \A i, j \in 1 .. Len(s) : i < j => Precedes(s[i], s[j], w)

\* So are the whole lines of a file.
SoundFile(f, w) ==
    \A a \in 1 .. Len(f) : H!Whole(f[a]) =>
        /\ IsIn(f[a][1], w)
        /\ \A b \in 1 .. Len(f) : a < b /\ H!Whole(f[b]) => Precedes(f[a][1], f[b][1], w)

\* Lists that are told one after the other: the later ones are of later entries, and each has
\* the newest first.
Ordered(news, w) ==
    \A m \in DOMAIN news : \A i \in 1 .. Len(news[m]) :
        /\ IsIn(news[m][i], w)
        /\ \A j \in 1 .. Len(news[m]) : i < j => Precedes(news[m][j], news[m][i], w)
        /\ \A n \in DOMAIN news : \A j \in 1 .. Len(news[n]) :
             m < n => Precedes(news[m][i], news[n][j], w)

\* More may be written.
Grows(w, v) == v = w \/ \E x \in Nat : v = Append(w, x)

\* What was written stays so, in its order.
LEMMA WrittenStays ==
    ASSUME NEW w \in Seq(Nat), NEW v, Grows(w, v)
    PROVE  /\ v \in Seq(Nat)
           /\ \A x : IsIn(x, w) => IsIn(x, v)
           /\ \A x, y : Precedes(x, y, w) => Precedes(x, y, v)
           /\ \A s : Sound(s, w) => Sound(s, v)
           /\ \A f : SoundFile(f, w) => SoundFile(f, v)
  <1>1. v \in Seq(Nat) /\ \A k \in DOMAIN w : k \in DOMAIN v /\ v[k] = w[k]
    BY DEF Grows
  <1>2. ASSUME NEW x, IsIn(x, w) PROVE IsIn(x, v)
    <2>1. PICK k \in DOMAIN w : w[k] = x
      BY <1>2 DEF IsIn
    <2> QED
      BY <1>1, <2>1 DEF IsIn
  <1>3. ASSUME NEW x, NEW y, Precedes(x, y, w) PROVE Precedes(x, y, v)
    <2>1. PICK k \in DOMAIN w, l \in DOMAIN w : k < l /\ w[k] = x /\ w[l] = y
      BY <1>3 DEF Precedes
    <2> QED
      BY <1>1, <2>1 DEF Precedes
  <1>4. \A s : Sound(s, w) => Sound(s, v)
    BY <1>2, <1>3 DEF Sound
  <1>5. \A f : SoundFile(f, w) => SoundFile(f, v)
    BY <1>2, <1>3 DEF SoundFile
  <1> QED
    BY <1>1, <1>2, <1>3, <1>4, <1>5

\* What is written now comes after what was written before.
LEMMA WrittenNow ==
    ASSUME NEW w \in Seq(Nat), NEW x \in Nat
    PROVE  /\ IsIn(x, Append(w, x))
           /\ \A y : IsIn(y, w) => Precedes(y, x, Append(w, x))
  <1> DEFINE v == Append(w, x)
  <1>1. /\ Len(w) + 1 \in DOMAIN v /\ v[Len(w) + 1] = x
        /\ \A k \in DOMAIN w : k \in DOMAIN v /\ v[k] = w[k] /\ k < Len(w) + 1
    OBVIOUS
  <1> HIDE DEF v
  <1>2. ASSUME NEW y, IsIn(y, w) PROVE Precedes(y, x, v)
    <2>1. PICK k \in DOMAIN w : w[k] = y
      BY <1>2 DEF IsIn
    <2> QED
      BY <1>1, <2>1 DEF Precedes
  <1>3. IsIn(x, v)
    BY <1>1 DEF IsIn
  <1> QED
    BY <1>2, <1>3 DEF v

\* What is read of a file whose lines are in order is in order.
LEMMA EntriesAreSound ==
    ASSUME NEW f \in Lines, NEW w, SoundFile(f, w)
    PROVE  Sound(H!EntriesOf(f), w)
  <1> DEFINE e == H!EntriesOf(f)
  <1>1. Reads(f, e)
    BY ReadsAll
  <1> HIDE DEF e
  <1>2. ASSUME NEW i \in 1 .. Len(e) PROVE IsIn(e[i], w)
    <2>1. PICK a \in 1 .. Len(f) : H!Whole(f[a]) /\ f[a][1] = e[i]
      BY <1>1 DEF Reads
    <2> QED
      BY <2>1 DEF SoundFile
  <1>3. ASSUME NEW i \in 1 .. Len(e), NEW j \in 1 .. Len(e), i < j
        PROVE  Precedes(e[i], e[j], w)
    <2>1. PICK a \in 1 .. Len(f), b \in 1 .. Len(f) :
               /\ a < b /\ H!Whole(f[a]) /\ H!Whole(f[b])
               /\ f[a][1] = e[i] /\ f[b][1] = e[j]
      BY <1>1, <1>3 DEF Reads
    <2>2. Precedes(f[a][1], f[b][1], w)
      BY <2>1 DEF SoundFile
    <2> QED
      BY <2>1, <2>2
  <1>4. Sound(e, w)
    BY <1>1, <1>2, <1>3 DEF Sound, Reads
  <1> QED
    BY <1>4 DEF e

\* A file to which one more line is added.
LEMMA LineAdded ==
    ASSUME NEW f \in Lines, NEW w \in Seq(Nat), SoundFile(f, w), NEW line \in Seq(Nat),
           ~H!Whole(line)
    PROVE  Append(f, line) \in Lines /\ SoundFile(Append(f, line), w)
  <1> DEFINE g == Append(f, line)
  <1>1. /\ g \in Lines /\ Len(f) \in Nat /\ Len(g) = Len(f) + 1 /\ g[Len(f) + 1] = line
        /\ \A a \in 1 .. Len(f) : g[a] = f[a]
    BY DEF Lines
  <1> HIDE DEF g
  <1>2. ASSUME NEW a \in 1 .. Len(g), H!Whole(g[a])
        PROVE  a \in 1 .. Len(f) /\ g[a] = f[a]
    BY <1>1, <1>2
  <1>3. SoundFile(g, w)
    BY <1>2 DEF SoundFile
  <1> QED
    BY <1>1, <1>3 DEF g

\* A file in the last line of which one more text is written, in its place in the order
\* unless it is torn.
LEMMA TextAdded ==
    ASSUME NEW f \in Lines, f # <<>>, NEW w \in Seq(Nat), SoundFile(f, w), NEW x \in Nat,
           NEW v, v = IF x = 0 THEN w ELSE Append(w, x)
    PROVE  LET g == [f EXCEPT ![Len(f)] = Append(@, x)]
           IN /\ g \in Lines /\ g # <<>> /\ SoundFile(g, v)
              /\ Len(H!EntriesOf(g)) <= Len(H!EntriesOf(f)) + 1
              /\ x = 0 => Len(H!EntriesOf(g)) <= Len(H!EntriesOf(f))
  <1> DEFINE g == [f EXCEPT ![Len(f)] = Append(@, x)]
             N == Len(f)
             line == Append(f[N], x)
  <1>1. /\ N \in Nat \ {0} /\ f[N] \in Seq(Nat) /\ line \in Seq(Nat)
        /\ Len(line) = Len(f[N]) + 1 /\ Len(f[N]) \in Nat
        /\ Len(line) = 1 => line[1] = x
    BY DEF Lines
  <1>2. /\ g \in Lines /\ g # <<>> /\ Len(g) = N /\ g[N] = line
        /\ \A a \in 1 .. N : a # N => g[a] = f[a]
    BY <1>1 DEF Lines
  <1> HIDE DEF g, line, N
  <1>3. Grows(w, v) /\ v \in Seq(Nat)
    BY DEF Grows
  <1>4. SoundFile(f, v)
    BY <1>3, WrittenStays
  <1>5. H!Whole(line) => x # 0 /\ line[1] = x
    BY <1>1 DEF H!Whole, H!Torn
  <1>6. SoundFile(g, v)
    <2>1. ASSUME NEW a \in 1 .. N, H!Whole(g[a])
          PROVE  IsIn(g[a][1], v)
      <3>1. CASE a = N
        BY <1>2, <1>5, <2>1, <3>1, WrittenNow
      <3>2. CASE a # N
        BY <1>2, <1>4, <2>1, <3>2 DEF SoundFile, N
      <3> QED
        BY <3>1, <3>2
    <2>2. ASSUME NEW a \in 1 .. N, NEW b \in 1 .. N, a < b, H!Whole(g[a]), H!Whole(g[b])
          PROVE  Precedes(g[a][1], g[b][1], v)
      <3>1. a # N /\ g[a] = f[a]
        BY <1>1, <1>2, <2>2
      <3>2. CASE b = N
        <4>1. IsIn(f[a][1], w)
          BY <2>2, <3>1 DEF SoundFile, N
        <4>2. x # 0 /\ g[b][1] = x
          BY <1>2, <1>5, <2>2, <3>2
        <4> QED
          BY <3>1, <4>1, <4>2, WrittenNow
      <3>3. CASE b # N
        <4>1. g[b] = f[b]
          BY <1>2, <3>3
        <4> QED
          BY <1>4, <2>2, <3>1, <4>1 DEF SoundFile, N
      <3> QED
        BY <3>2, <3>3
    <2> QED
      BY <1>2, <2>1, <2>2 DEF SoundFile
  <1>7. PICK less \in Lines, last \in Seq(Nat) : f = Append(less, last)
    <2>1. f \in Seq(Seq(Nat))
      BY DEF Lines
    <2> QED
      BY <2>1, SequenceEmptyOrAppend DEF Lines
  <1>8. g = Append(less, line)
    <2>1. /\ Len(less) \in Nat /\ N = Len(less) + 1 /\ f[N] = last
          /\ \A a \in 1 .. Len(less) : f[a] = less[a]
      BY <1>7 DEF N, Lines
    <2> DEFINE h == Append(less, line)
    <2>2. /\ h \in Lines /\ Len(h) = N /\ h[N] = line /\ \A a \in 1 .. Len(less) : h[a] = less[a]
      BY <1>1, <2>1 DEF Lines
    <2> HIDE DEF h
    <2>3. ASSUME NEW a \in 1 .. Len(g) PROVE g[a] = h[a]
      <3>1. CASE a = N
        BY <1>2, <2>2, <3>1
      <3>2. CASE a # N
        <4>1. a \in 1 .. N /\ a \in 1 .. Len(less)
          BY <1>2, <2>1, <3>2
        <4>2. g[a] = f[a] /\ f[a] = less[a] /\ h[a] = less[a]
          BY <1>2, <2>1, <2>2, <3>2, <4>1
        <4> QED
          BY <4>2
      <3> QED
        BY <3>1, <3>2
    <2>4. g = h
      BY <1>2, <2>2, <2>3, SeqEqual DEF Lines
    <2> QED
      BY <2>4 DEF h
  <1>9. H!EntriesOf(less) \in Seq(Nat)
        /\ H!EntriesOf(g) \in {H!EntriesOf(less), Append(H!EntriesOf(less), line[1])}
        /\ H!EntriesOf(f) \in {H!EntriesOf(less), Append(H!EntriesOf(less), last[1])}
        /\ (~H!Whole(line) => H!EntriesOf(g) = H!EntriesOf(less))
    BY <1>1, <1>7, <1>8, ReadsOneMore
  <1> DEFINE e == H!EntriesOf(less)
  <1>10. Len(e) \in Nat /\ \A y : Len(Append(e, y)) = Len(e) + 1
    BY <1>9
  <1>11. Len(H!EntriesOf(g)) <= Len(H!EntriesOf(f)) + 1
    BY <1>9, <1>10
  <1>12. x = 0 => Len(H!EntriesOf(g)) <= Len(H!EntriesOf(f))
    BY <1>5, <1>9, <1>10
  <1> QED
    BY <1>2, <1>6, <1>11, <1>12 DEF g

\* Lists that are left, or that are there no more, are in order.
LEMMA OrderStays ==
    ASSUME NEW w \in Seq(Nat), NEW v, Grows(w, v), NEW t, NEW u, Ordered(t, w),
           \A m \in DOMAIN u : u[m] = <<>> \/ (m \in DOMAIN t /\ u[m] = t[m])
    PROVE  Ordered(u, v)
  <1>1. /\ \A x : IsIn(x, w) => IsIn(x, v)
        /\ \A x, y : Precedes(x, y, w) => Precedes(x, y, v)
    BY WrittenStays
  <1>2. ASSUME NEW m \in DOMAIN u, NEW i \in 1 .. Len(u[m])
        PROVE  m \in DOMAIN t /\ u[m] = t[m]
    <2>1. u[m] # <<>>
      BY <1>2
    <2> QED
      BY <2>1
  <1> QED
    BY <1>1, <1>2 DEF Ordered

\* The entry that is written now is the last that is told.
LEMMA OrderWrites ==
    ASSUME NEW w \in Seq(Nat), NEW x \in Nat, NEW n \in Nat, NEW t, NEW u, Ordered(t, w),
           DOMAIN t = 0 .. n, DOMAIN u = 0 .. n, u[n] = <<x>>,
           \A m \in 0 .. n : m # n => u[m] = t[m]
    PROVE  Ordered(u, Append(w, x))
  <1> DEFINE v == Append(w, x)
  <1>1. /\ \A y : IsIn(y, w) => IsIn(y, v) /\ Precedes(y, x, v)
        /\ \A y, z : Precedes(y, z, w) => Precedes(y, z, v)
        /\ IsIn(x, v)
    <2>1. Grows(w, v)
      BY DEF Grows
    <2> HIDE DEF v
    <2>2. /\ \A y : IsIn(y, w) => IsIn(y, v)
          /\ \A y, z : Precedes(y, z, w) => Precedes(y, z, v)
      BY <2>1, WrittenStays
    <2> QED
      BY <2>2, WrittenNow DEF v
  <1> HIDE DEF v
  <1>2. Len(u[n]) = 1 /\ u[n][1] = x
    OBVIOUS
  <1>3. ASSUME NEW m \in 0 .. n, NEW i \in 1 .. Len(u[m])
        PROVE  /\ IsIn(u[m][i], v)
               /\ \A j \in 1 .. Len(u[m]) : i < j => Precedes(u[m][j], u[m][i], v)
               /\ \A k \in 0 .. n : \A j \in 1 .. Len(u[k]) :
                    m < k => Precedes(u[m][i], u[k][j], v)
    <2>1. CASE m = n
      <3>0. u[m] = u[n] /\ Len(u[m]) = 1
        BY <1>2, <2>1
      <3>1. i = 1 /\ u[m][i] = x /\ \A j \in 1 .. Len(u[m]) : ~(i < j)
        BY <1>2, <3>0
      <3>2. \A k \in 0 .. n : ~(m < k)
        BY <2>1
      <3> QED
        BY <1>1, <3>1, <3>2
    <2>2. CASE m # n
      <3>1. u[m] = t[m] /\ m \in DOMAIN t /\ i \in 1 .. Len(t[m])
        BY <2>2
      <3>2. IsIn(t[m][i], w) /\ \A j \in 1 .. Len(t[m]) : i < j => Precedes(t[m][j], t[m][i], w)
        BY <3>1 DEF Ordered
      <3>3. ASSUME NEW k \in 0 .. n, NEW j \in 1 .. Len(u[k]), m < k
            PROVE  Precedes(u[m][i], u[k][j], v)
        <4>1. CASE k = n
          BY <1>1, <1>2, <3>1, <3>2, <4>1
        <4>2. CASE k # n
          <5>1. u[k] = t[k] /\ k \in DOMAIN t /\ j \in 1 .. Len(t[k])
            BY <4>2
          <5>2. Precedes(t[m][i], t[k][j], w)
            BY <3>1, <3>3, <5>1 DEF Ordered
          <5> QED
            BY <1>1, <3>1, <5>1, <5>2
        <4> QED
          BY <4>1, <4>2
      <3> QED
        BY <1>1, <3>1, <3>2, <3>3
    <2> QED
      BY <2>1, <2>2
  <1> QED
    BY <1>3 DEF Ordered, v

\* The list takes in what is told next, and forgets some of the oldest.
LEMMA OrderReceives ==
    ASSUME NEW w, NEW n \in Nat \ {0}, NEW t \in [0 .. n -> Seq(Nat)], NEW u, Ordered(t, w),
           DOMAIN u = 0 .. n - 1, NEW k \in Nat, k <= Len(t[1] \o t[0]),
           u[0] = SubSeq(t[1] \o t[0], 1, k), \A m \in 1 .. n - 1 : u[m] = t[m + 1]
    PROVE  Ordered(u, w)
  <1> DEFINE a == Len(t[1])
             b == Len(t[0])
  <1>1. 0 \in DOMAIN t /\ 1 \in DOMAIN t /\ t[0] \in Seq(Nat) /\ t[1] \in Seq(Nat)
        /\ a \in Nat /\ b \in Nat
    OBVIOUS
  <1>2. /\ Len(t[1] \o t[0]) = a + b /\ Len(u[0]) = k
        /\ \A i \in 1 .. k : u[0][i] = IF i <= a THEN t[1][i] ELSE t[0][i - a]
    BY <1>1
  <1>3. /\ \A i \in 1 .. a : IsIn(t[1][i], w)
        /\ \A i \in 1 .. b : IsIn(t[0][i], w)
        /\ \A i, j \in 1 .. a : i < j => Precedes(t[1][j], t[1][i], w)
        /\ \A i, j \in 1 .. b : i < j => Precedes(t[0][j], t[0][i], w)
        /\ \A i \in 1 .. b : \A j \in 1 .. a : Precedes(t[0][i], t[1][j], w)
    <2>1. 0 < 1
      OBVIOUS
    <2> QED
      BY <1>1, <2>1 DEF Ordered
  <1> HIDE DEF a, b
  <1>4. \A i \in 1 .. k : i <= a => i \in 1 .. a
    BY <1>1
  <1>5. \A i \in 1 .. k : ~(i <= a) => i - a \in 1 .. b
    BY <1>1, <1>2
  <1>6. ASSUME NEW i \in 1 .. k
        PROVE  IsIn(u[0][i], w)
    <2>1. CASE i <= a
      BY <1>3, <1>2, <1>4, <2>1
    <2>2. CASE ~(i <= a)
      BY <1>3, <1>2, <1>5, <2>2
    <2> QED
      BY <2>1, <2>2
  <1>7. ASSUME NEW i \in 1 .. k, NEW j \in 1 .. k, i < j
        PROVE  Precedes(u[0][j], u[0][i], w)
    <2>1. CASE j <= a
      <3>1. i \in 1 .. a /\ j \in 1 .. a /\ i <= a
        BY <1>1, <1>7, <2>1
      <3>2. u[0][i] = t[1][i] /\ u[0][j] = t[1][j]
        BY <1>2, <2>1, <3>1
      <3> QED
        BY <1>3, <1>7, <3>1, <3>2
    <2>2. CASE i <= a /\ ~(j <= a)
      <3>1. i \in 1 .. a /\ j - a \in 1 .. b /\ u[0][i] = t[1][i] /\ u[0][j] = t[0][j - a]
        BY <1>2, <1>4, <1>5, <2>2
      <3> QED
        BY <1>3, <3>1
    <2>3. CASE ~(i <= a) /\ ~(j <= a)
      <3>0. i - a \in 1 .. b /\ j - a \in 1 .. b
        BY <1>5, <2>3
      <3>1. i - a < j - a /\ u[0][i] = t[0][i - a] /\ u[0][j] = t[0][j - a]
        BY <1>1, <1>2, <1>7, <2>3
      <3> QED
        BY <1>3, <3>0, <3>1
    <2> QED
      BY <1>1, <1>7, <2>1, <2>2, <2>3
  <1>8. ASSUME NEW m \in 0 .. n - 1, NEW i \in 1 .. Len(u[m])
        PROVE  /\ IsIn(u[m][i], w)
               /\ \A j \in 1 .. Len(u[m]) : i < j => Precedes(u[m][j], u[m][i], w)
               /\ \A l \in 0 .. n - 1 : \A j \in 1 .. Len(u[l]) :
                    m < l => Precedes(u[m][i], u[l][j], w)
    <2>1. CASE m = 0
      <3>1. i \in 1 .. k
        BY <1>2, <2>1
      <3>2. ASSUME NEW l \in 0 .. n - 1, NEW j \in 1 .. Len(u[l]), m < l
            PROVE  Precedes(u[m][i], u[l][j], w)
        <4>1. l + 1 \in DOMAIN t /\ u[l] = t[l + 1] /\ j \in 1 .. Len(t[l + 1])
              /\ 0 < l + 1 /\ 1 < l + 1
          BY <2>1, <3>2
        <4>2. CASE i <= a
          <5>1. i \in 1 .. a /\ u[0][i] = t[1][i]
            BY <1>2, <1>4, <3>1, <4>2
          <5> QED
            BY <1>1, <2>1, <4>1, <5>1 DEF Ordered, a
        <4>3. CASE ~(i <= a)
          <5>1. i - a \in 1 .. b /\ u[0][i] = t[0][i - a]
            BY <1>2, <1>5, <3>1, <4>3
          <5> QED
            BY <1>1, <2>1, <4>1, <5>1 DEF Ordered, b
        <4> QED
          BY <4>2, <4>3
      <3> QED
        BY <1>2, <1>6, <1>7, <2>1, <3>1, <3>2
    <2>2. CASE m # 0
      <3>1. m + 1 \in DOMAIN t /\ u[m] = t[m + 1] /\ i \in 1 .. Len(t[m + 1])
        BY <2>2
      <3>2. \A l \in 0 .. n - 1 : m < l => l + 1 \in DOMAIN t /\ u[l] = t[l + 1] /\ m + 1 < l + 1
        BY <2>2
      <3> QED
        BY <3>1, <3>2 DEF Ordered
    <2> QED
      BY <2>1, <2>2
  <1> QED
    BY <1>8 DEF Ordered

----------------------------------------------------------------------------
(* The history that several sessions share.                                 *)

Message == [kind : {"loaded", "recorded"}, entries : Seq(Nat)]
Places == {"off", "idle", "opened", "texted", "ended", "pruning"}

HistoryTypes ==
    /\ file \in Lines /\ file # <<>>
    /\ written \in Seq(Nat) /\ recorded \in Nat /\ unpruned \in Nat
    /\ pc \in [Session -> Places] /\ recording \in [Session -> Nat]
    /\ attached \in [Session -> BOOLEAN] /\ kept \in [Session -> Seq(Nat)]
    /\ inbox \in [Session -> Seq(Message)] /\ memory \in [Session -> Seq(Nat)]

HasText(p) == pc[p] \in {"texted", "ended", "pruning"}

\* What a session has been told, the oldest news first: its list, the messages on their way,
\* and the entry whose text it has written.
News(p) ==
    [m \in 0 .. Len(inbox[p]) + 1 |->
        IF m = 0 THEN memory[p]
        ELSE IF m <= Len(inbox[p]) THEN inbox[p][m].entries
        ELSE IF HasText(p) THEN <<recording[p]>> ELSE <<>>]

\* What was read is the first that is told, what is being recorded is an entry, and what will
\* be kept was read.
SessionInv(p) ==
    /\ Ordered(News(p), written)
    /\ \A m \in 1 .. Len(inbox[p]) :
         inbox[p][m].kind = "loaded" => m = 1 /\ memory[p] = <<>>
    /\ pc[p] = "opened" \/ HasText(p) => recording[p] # 0
    /\ pc[p] = "pruning" => Sound(kept[p], written) /\ Len(kept[p]) <= MaxEntries

NearItsLength == MaxEntries # 0 => Len(H!Entries) <= MaxEntries + unpruned

\* The inductive invariant of the history.
HistoryInv ==
    /\ HistoryTypes /\ SoundFile(file, written) /\ NearItsLength
    /\ \A p \in Session : SessionInv(p)

\* A session that does nothing meanwhile.
LEMMA SessionStays ==
    ASSUME HistoryTypes, NEW p \in Session, SessionInv(p), Grows(written, written'),
           pc'[p] = pc[p], recording'[p] = recording[p], kept'[p] = kept[p],
           inbox'[p] = inbox[p], memory'[p] = memory[p]
    PROVE  SessionInv(p)'
  <1>1. News(p)' = News(p)
    BY DEF News, HasText
  <1>2. written \in Seq(Nat) /\ Ordered(News(p), written)
    BY DEF HistoryTypes, SessionInv
  <1>3. Ordered(News(p), written')
    <2>1. \A m \in DOMAIN News(p) : News(p)[m] = <<>> \/ (m \in DOMAIN News(p) /\ News(p)[m] = News(p)[m])
      OBVIOUS
    <2> QED
      BY <1>2, <2>1, OrderStays
  <1>4. \A s : Sound(s, written) => Sound(s, written')
    BY <1>2, WrittenStays
  <1> QED
    BY <1>1, <1>3, <1>4 DEF SessionInv, HasText

\* A session that makes a call, and has no text of another entry after it.
LEMMA SessionCalls ==
    ASSUME HistoryTypes, NEW p \in Session, SessionInv(p), UNCHANGED written,
           inbox'[p] = inbox[p], memory'[p] = memory[p],
           HasText(p)' => HasText(p) /\ recording'[p] = recording[p],
           (pc[p] = "opened" \/ HasText(p))' => recording'[p] # 0,
           (pc[p] = "pruning")' => Sound(kept'[p], written) /\ Len(kept'[p]) <= MaxEntries
    PROVE  SessionInv(p)'
  <1>1. \A m \in DOMAIN News(p)' :
           News(p)'[m] = <<>> \/ (m \in DOMAIN News(p) /\ News(p)'[m] = News(p)[m])
    BY DEF News, HasText
  <1>2. Grows(written, written') /\ written \in Seq(Nat) /\ Ordered(News(p), written)
    BY DEF Grows, HistoryTypes, SessionInv
  <1>3. Ordered(News(p)', written')
    BY <1>1, <1>2, OrderStays
  <1> QED
    BY <1>3 DEF SessionInv

\* A session whose record() returns tells the entry that it wrote, or nothing.
LEMMA SessionReturns ==
    ASSUME HistoryTypes, NEW p \in Session, SessionInv(p), UNCHANGED written,
           NEW e, e = <<>> \/ (HasText(p) /\ e = <<recording[p]>>),
           inbox'[p] = Append(inbox[p], H!Recorded(e)), memory'[p] = memory[p],
           pc'[p] = "idle"
    PROVE  SessionInv(p)'
  <1> DEFINE N == Len(inbox[p])
             message == H!Recorded(e)
  <1>1. /\ inbox[p] \in Seq(Message) /\ N \in Nat /\ Len(inbox'[p]) = N + 1
        /\ inbox'[p][N + 1] = message /\ \A m \in 1 .. N : inbox'[p][m] = inbox[p][m]
    <2>1. inbox[p] \in Seq(Message) /\ recording[p] \in Nat
      BY DEF HistoryTypes
    <2>2. e \in Seq(Nat)
      <3>1. \A x \in Nat : <<x>> \in Seq(Nat)
        OBVIOUS
      <3> QED
        BY <2>1, <3>1, EmptySeq
    <2>3. message \in Message
      BY <2>2 DEF H!Recorded, Message
    <2>4. inbox'[p] = Append(inbox[p], message)
      OBVIOUS
    <2> HIDE DEF message
    <2> QED
      BY <2>1, <2>3, <2>4, AppendProperties DEF N
  <1>2. message.kind = "recorded" /\ message.entries = e
    BY DEF H!Recorded
  <1> HIDE DEF N, message
  <1>3. ASSUME NEW m \in DOMAIN News(p)'
        PROVE  News(p)'[m] = <<>> \/ (m \in DOMAIN News(p) /\ News(p)'[m] = News(p)[m])
    <2>1. m \in 0 .. N + 2 /\ DOMAIN News(p) = 0 .. N + 1
      BY <1>1 DEF News, N
    <2>2. News(p)'[m] = IF m = 0 THEN memory[p]
                        ELSE IF m <= N + 1 THEN inbox'[p][m].entries ELSE <<>>
      BY <1>1 DEF News, HasText
    <2>3. CASE m = 0
      BY <1>1, <2>1, <2>2, <2>3 DEF News
    <2>4. CASE m \in 1 .. N
      <3>1. News(p)[m] = inbox[p][m].entries /\ m \in DOMAIN News(p)
        BY <1>1, <2>1, <2>4 DEF News, N
      <3> QED
        BY <1>1, <2>2, <2>4, <3>1
    <2>5. CASE m = N + 1
      <3>1. News(p)[m] = (IF HasText(p) THEN <<recording[p]>> ELSE <<>>) /\ m \in DOMAIN News(p)
        BY <1>1, <2>1, <2>5 DEF News, N
      <3>2. News(p)'[m] = e
        BY <1>1, <1>2, <2>2, <2>5
      <3> QED
        BY <3>1, <3>2
    <2>6. CASE m = N + 2
      BY <1>1, <2>2, <2>6
    <2> QED
      BY <1>1, <2>1, <2>3, <2>4, <2>5, <2>6
  <1>4. Grows(written, written') /\ written \in Seq(Nat) /\ Ordered(News(p), written)
    BY DEF Grows, HistoryTypes, SessionInv
  <1>5. Ordered(News(p)', written')
    BY <1>3, <1>4, OrderStays
  <1>6. \A m \in 1 .. Len(inbox'[p]) : inbox'[p][m].kind = "loaded" => m = 1 /\ memory'[p] = <<>>
    <2>1. \A m \in 1 .. Len(inbox'[p]) : m \in 1 .. N \/ m = N + 1
      BY <1>1
    <2> QED
      BY <1>1, <1>2, <2>1 DEF SessionInv, N
  <1> QED
    BY <1>5, <1>6 DEF SessionInv, HasText

\* A session that is over has been told nothing.
LEMMA SessionEnds ==
    ASSUME NEW p, inbox'[p] = <<>>, memory'[p] = <<>>, pc'[p] = "off"
    PROVE  SessionInv(p)'
  <1>1. \A m \in DOMAIN News(p)' : News(p)'[m] = <<>>
    BY DEF News, HasText
  <1>2. Ordered(News(p)', written')
    BY <1>1 DEF Ordered
  <1> QED
    BY <1>2 DEF SessionInv, HasText

----------------------------------------------------------------------------
(* Each call of record(), and what comes between.                           *)

\* The history is read and sent to the model.
LEMMA StartStep ==
    ASSUME HistoryInv, NEW p \in Session, H!Start(p)
    PROVE  HistoryInv'
  <1> USE DEF HistoryInv
  <1> DEFINE e == H!Recent(MemoryLimit)
  <1>1. Sound(H!Entries, written)
    BY EntriesAreSound DEF HistoryTypes, H!Entries
  <1>2. /\ e \in Seq(Nat)
        /\ \A i \in 1 .. Len(e) : IsIn(e[i], written)
        /\ \A i, j \in 1 .. Len(e) : i < j => Precedes(e[j], e[i], written)
    <2> DEFINE s == H!Entries
               r == H!Reverse(s)
               k == IF Len(r) < MemoryLimit THEN Len(r) ELSE MemoryLimit
    <2>1. s \in Seq(Nat) /\ Len(s) \in Nat
      BY <1>1 DEF Sound
    <2> HIDE DEF s
    <2>2. /\ r \in Seq(Nat) /\ Len(r) = Len(s)
          /\ \A i \in 1 .. Len(s) : r[i] = s[Len(s) - i + 1] /\ Len(s) - i + 1 \in 1 .. Len(s)
      BY <2>1 DEF H!Reverse
    <2> HIDE DEF r
    <2>3. k \in 0 .. Len(s)
      BY <2>1, <2>2, ClientAssumption
    <2>4. e = SubSeq(r, 1, k)
      BY DEF H!Recent, r, s
    <2> HIDE DEF k, e
    <2>5. e \in Seq(Nat) /\ Len(e) = k /\ \A i \in 1 .. k : e[i] = r[i] /\ i \in 1 .. Len(s)
      BY <2>1, <2>2, <2>3, <2>4
    <2>6. ASSUME NEW i \in 1 .. k
          PROVE  e[i] = s[Len(s) - i + 1] /\ Len(s) - i + 1 \in 1 .. Len(s)
      BY <2>2, <2>5
    <2>7. ASSUME NEW i \in 1 .. k, NEW j \in 1 .. k, i < j
          PROVE  Precedes(e[j], e[i], written)
      <3>1. Len(s) - j + 1 < Len(s) - i + 1
        BY <2>1, <2>3, <2>7
      <3> QED
        BY <1>1, <2>6, <3>1 DEF Sound, s
    <2> QED
      BY <1>1, <2>5, <2>6, <2>7 DEF Sound, s
  <1> HIDE DEF e
  <1>3. /\ pc' = [pc EXCEPT ![p] = "idle"] /\ inbox' = [inbox EXCEPT ![p] = <<H!Loaded(e)>>]
        /\ memory' = [memory EXCEPT ![p] = <<>>]
        /\ UNCHANGED <<file, recording, attached, kept, recorded, written, unpruned>>
    BY DEF H!Start, H!ghost, e
  <1>4. HistoryTypes'
    <2>1. H!Loaded(e) \in Message
      BY <1>2 DEF H!Loaded, Message
    <2> QED
      BY <1>3, <2>1 DEF HistoryTypes, Places
  <1>5. SessionInv(p)'
    <2>1. inbox'[p] = <<H!Loaded(e)>> /\ memory'[p] = <<>> /\ pc'[p] = "idle"
      BY <1>3 DEF HistoryTypes
    <2>2. H!Loaded(e).entries = e
      BY DEF H!Loaded
    <2>3. /\ DOMAIN News(p)' = 0 .. 2 /\ News(p)'[0] = <<>> /\ News(p)'[1] = e
          /\ News(p)'[2] = <<>>
      BY <2>1, <2>2 DEF News, HasText
    <2>4. \A m \in 0 .. 2 : m # 1 => News(p)'[m] = <<>>
      BY <2>3
    <2>5. \A m \in DOMAIN News(p)' : \A i \in 1 .. Len(News(p)'[m]) : m = 1
      BY <2>3, <2>4
    <2>6. Ordered(News(p)', written)
      BY <1>2, <2>3, <2>5 DEF Ordered
    <2> QED
      BY <1>3, <2>1, <2>6 DEF SessionInv, HasText
  <1>6. ASSUME NEW q \in Session, q # p PROVE SessionInv(q)'
    BY <1>3, <1>6, SessionStays DEF HistoryTypes, Grows
  <1> QED
    BY <1>3, <1>4, <1>5, <1>6 DEF NearItsLength, H!Entries

\* A message is taken into the list.
LEMMA ReceiveStep ==
    ASSUME HistoryInv, NEW p \in Session, H!Receive(p)
    PROVE  HistoryInv'
  <1> USE DEF HistoryInv
  <1> DEFINE m == inbox[p][1]
             all == m.entries \o memory[p]
             k == IF Len(all) < MemoryLimit THEN Len(all) ELSE MemoryLimit
             N == Len(inbox[p])
  <1>1. /\ inbox[p] # <<>> /\ pc[p] = "idle"
        /\ inbox' = [inbox EXCEPT ![p] = Tail(@)]
        /\ memory' = [memory EXCEPT ![p] =
              H!Shortened(IF Head(inbox[p]).kind = "loaded" THEN Head(inbox[p]).entries
                          ELSE Head(inbox[p]).entries \o @)]
        /\ UNCHANGED <<file, pc, recording, attached, kept, recorded, written, unpruned>>
    BY DEF H!Receive, H!ghost
  <1>2. /\ inbox[p] \in Seq(Message) /\ memory[p] \in Seq(Nat) /\ N \in Nat \ {0}
        /\ Head(inbox[p]) = m /\ m \in Message /\ m.entries \in Seq(Nat)
    <2>1. inbox[p] \in Seq(Message) /\ memory[p] \in Seq(Nat)
      BY DEF HistoryTypes
    <2>2. N \in Nat \ {0} /\ Head(inbox[p]) = m /\ m \in Message
      BY <1>1, <2>1
    <2>3. m.entries \in Seq(Nat)
      BY <2>2 DEF Message
    <2> QED
      BY <2>1, <2>2, <2>3
  <1>3. /\ inbox'[p] = Tail(inbox[p]) /\ inbox'[p] \in Seq(Message) /\ Len(inbox'[p]) = N - 1
        /\ \A i \in 1 .. N - 1 : inbox'[p][i] = inbox[p][i + 1]
    BY <1>1, <1>2 DEF HistoryTypes
  <1>4. all \in Seq(Nat) /\ Len(all) \in Nat /\ k \in 0 .. Len(all)
    <2>1. all \in Seq(Nat) /\ Len(all) \in Nat
      <3>1. m.entries \in Seq(Nat) /\ memory[p] \in Seq(Nat)
        BY <1>2
      <3>2. \A s, t \in Seq(Nat) : s \o t \in Seq(Nat) /\ Len(s \o t) \in Nat
        OBVIOUS
      <3> HIDE DEF m
      <3> QED
        BY <3>1, <3>2 DEF all
    <2> HIDE DEF all
    <2> QED
      BY <2>1, ClientAssumption
  <1>5. memory'[p] = SubSeq(all, 1, k)
    <2>1. m.kind = "loaded" => memory[p] = <<>>
      BY <1>2 DEF SessionInv
    <2> DEFINE taken == IF Head(inbox[p]).kind = "loaded" THEN Head(inbox[p]).entries
                        ELSE Head(inbox[p]).entries \o memory[p]
    <2>2. memory' = [memory EXCEPT ![p] = H!Shortened(taken)] /\ memory \in [Session -> Seq(Nat)]
      BY <1>1 DEF HistoryTypes
    <2>3. taken = all
      <3>1. m.entries \in Seq(Nat) /\ Head(inbox[p]) = m
        BY <1>2
      <3>2. taken = IF m.kind = "loaded" THEN m.entries ELSE m.entries \o memory[p]
        BY <3>1
      <3>3. CASE m.kind = "loaded"
        <4>1. m.entries \o <<>> = m.entries
          <5> HIDE DEF m
          <5> QED
            BY <3>1, ConcatEmptySeq
        <4> QED
          BY <2>1, <3>2, <3>3, <4>1
      <3>4. CASE m.kind # "loaded"
        BY <3>2, <3>4
      <3> QED
        BY <3>3, <3>4
    <2> HIDE DEF taken
    <2>4. memory'[p] = H!Shortened(all)
      BY <2>2, <2>3
    <2> QED
      BY <2>4 DEF H!Shortened
  <1> HIDE DEF all, k, m
  <1>6. SubSeq(all, 1, k) \in Seq(Nat)
    BY <1>4
  <1>7. HistoryTypes'
    BY <1>1, <1>3, <1>5, <1>6 DEF HistoryTypes
  <1>8. SessionInv(p)'
    <2> DEFINE t == News(p)
               u == News(p)'
    <2>1. /\ DOMAIN t = 0 .. N + 1 /\ DOMAIN u = 0 .. N
          /\ t[0] = memory[p] /\ t[1] = m.entries /\ u[0] = memory'[p]
      <3>1. DOMAIN u = 0 .. Len(inbox'[p]) + 1 /\ Len(inbox'[p]) + 1 = N
        BY <1>2, <1>3 DEF News
      <3>2. 0 \in DOMAIN u /\ 0 \in DOMAIN t /\ 1 \in DOMAIN t /\ 1 <= N
        BY <1>2, <3>1 DEF News
      <3> QED
        BY <1>2, <3>1, <3>2 DEF News, m
    <2>2. ASSUME NEW i \in 1 .. N PROVE u[i] = t[i + 1]
      <3>1. CASE i = N
        BY <1>1, <1>2, <1>3, <3>1 DEF News, HasText
      <3>2. CASE i # N
        <4>1. i \in 1 .. N - 1 /\ inbox'[p][i] = inbox[p][i + 1]
          BY <1>2, <1>3, <3>2
        <4> QED
          BY <1>2, <1>3, <4>1 DEF News
      <3> QED
        BY <3>1, <3>2
    <2>3. t \in [0 .. N + 1 -> Seq(Nat)]
      <3>1. ASSUME NEW i \in 0 .. N + 1 PROVE t[i] \in Seq(Nat)
        <4>1. t[i] = IF i = 0 THEN memory[p] ELSE IF i <= N THEN inbox[p][i].entries
                     ELSE IF HasText(p) THEN <<recording[p]>> ELSE <<>>
          BY DEF News
        <4>2. i # 0 /\ i <= N => inbox[p][i] \in Message
          BY <1>2
        <4>3. recording[p] \in Nat
          BY DEF HistoryTypes
        <4> QED
          BY <1>2, <4>1, <4>2, <4>3 DEF Message
      <3> QED
        BY <2>1, <3>1 DEF News
    <2>4. Ordered(t, written) /\ N + 1 \in Nat \ {0} /\ (N + 1) - 1 = N
      BY <1>2 DEF SessionInv
    <2>5. /\ DOMAIN u = 0 .. (N + 1) - 1 /\ k \in Nat /\ k <= Len(t[1] \o t[0])
          /\ u[0] = SubSeq(t[1] \o t[0], 1, k)
          /\ \A i \in 1 .. (N + 1) - 1 : u[i] = t[i + 1]
      <3>1. t[1] \o t[0] = all
        BY <2>1 DEF all
      <3>2. k \in Nat /\ k <= Len(all)
        BY <1>4
      <3> HIDE DEF t, u, N
      <3> QED
        BY <1>5, <2>1, <2>2, <2>4, <3>1, <3>2
    <2> HIDE DEF t, u, N
    <2>6. Ordered(u, written)
      BY <2>3, <2>4, <2>5, OrderReceives
    <2>7. \A i \in 1 .. Len(inbox'[p]) : inbox'[p][i].kind # "loaded"
      <3>1. ASSUME NEW i \in 1 .. N - 1 PROVE inbox[p][i + 1].kind # "loaded"
        <4>1. i + 1 \in 1 .. Len(inbox[p]) /\ i + 1 # 1
          BY <1>2 DEF N
        <4> QED
          BY <4>1 DEF SessionInv
      <3> QED
        BY <1>3, <3>1
    <2> QED
      BY <1>1, <2>6, <2>7 DEF SessionInv, HasText, u
  <1>9. ASSUME NEW q \in Session, q # p PROVE SessionInv(q)'
    BY <1>1, <1>9, SessionStays DEF HistoryTypes, Grows
  <1> QED
    BY <1>1, <1>7, <1>8, <1>9 DEF NearItsLength, H!Entries

\* A session that stops, or that is started anew.
LEMMA OthersStay ==
    ASSUME HistoryInv, NEW p \in Session, Grows(written, written'),
           \A q \in Session : q # p =>
             /\ pc'[q] = pc[q] /\ recording'[q] = recording[q] /\ kept'[q] = kept[q]
             /\ inbox'[q] = inbox[q] /\ memory'[q] = memory[q]
    PROVE  \A q \in Session : q # p => SessionInv(q)'
  BY SessionStays DEF HistoryInv

\* record() returns, and the file is as it should be.
LEMMA ReturnStep ==
    ASSUME HistoryInv, NEW p \in Session, NEW e,
           e = <<>> \/ (HasText(p) /\ e = <<recording[p]>>), H!Return(p, e),
           UNCHANGED written, recorded' \in Nat, unpruned' \in Nat,
           file' \in Lines, file' # <<>>, SoundFile(file', written), NearItsLength'
    PROVE  HistoryInv'
  <1>1. /\ pc' = [pc EXCEPT ![p] = "idle"]
        /\ inbox' = [inbox EXCEPT ![p] = Append(@, H!Recorded(e))]
        /\ recording' = [recording EXCEPT ![p] = 0]
        /\ attached' = [attached EXCEPT ![p] = FALSE]
        /\ kept' = [kept EXCEPT ![p] = <<>>] /\ memory' = memory
    BY DEF H!Return, H!Torn
  <1>2. HistoryTypes /\ SessionInv(p)
    BY DEF HistoryInv
  <1>3. e \in Seq(Nat)
    <2>1. recording[p] \in Nat /\ \A x \in Nat : <<x>> \in Seq(Nat)
      BY <1>2 DEF HistoryTypes
    <2> QED
      BY <2>1, EmptySeq
  <1>4. H!Recorded(e) \in Message
    BY <1>3 DEF H!Recorded, Message
  <1>5. Append(inbox[p], H!Recorded(e)) \in Seq(Message)
    BY <1>2, <1>4, AppendProperties DEF HistoryTypes
  <1>6. HistoryTypes'
    BY <1>1, <1>2, <1>5 DEF HistoryTypes, Places
  <1>7. SessionInv(p)'
    <2>1. inbox'[p] = Append(inbox[p], H!Recorded(e)) /\ memory'[p] = memory[p] /\ pc'[p] = "idle"
      BY <1>1, <1>2 DEF HistoryTypes
    <2> QED
      BY <1>2, <2>1, SessionReturns
  <1>8. \A q \in Session : q # p => SessionInv(q)'
    BY <1>1, <1>2, OthersStay DEF HistoryTypes, Grows
  <1>9. SoundFile(file', written')
    OBVIOUS
  <1> QED
    BY <1>6, <1>7, <1>8, <1>9 DEF HistoryInv

\* A file that is left as it is, is as it should be.
LEMMA FileStays ==
    ASSUME HistoryInv, UNCHANGED <<file, written, unpruned>>
    PROVE  /\ unpruned' \in Nat /\ file' \in Lines /\ file' # <<>>
           /\ SoundFile(file', written) /\ NearItsLength'
  BY DEF HistoryInv, HistoryTypes, NearItsLength, H!Entries

\* A session is over.
LEMMA EndStep ==
    ASSUME HistoryInv, NEW p \in Session,
           pc' = [pc EXCEPT ![p] = "off"], inbox' = [inbox EXCEPT ![p] = <<>>],
           memory' = [memory EXCEPT ![p] = <<>>],
           \A q \in Session : q # p => recording'[q] = recording[q] /\ kept'[q] = kept[q],
           HistoryTypes', UNCHANGED written, SoundFile(file', written), NearItsLength'
    PROVE  HistoryInv'
  <1>1. HistoryTypes
    BY DEF HistoryInv
  <1>2. SessionInv(p)'
    <2>1. inbox'[p] = <<>> /\ memory'[p] = <<>> /\ pc'[p] = "off"
      BY <1>1 DEF HistoryTypes
    <2> QED
      BY <2>1, SessionEnds
  <1>3. \A q \in Session : q # p => SessionInv(q)'
    BY <1>1, OthersStay DEF HistoryTypes, Grows
  <1>4. SoundFile(file', written')
    OBVIOUS
  <1> QED
    BY <1>2, <1>3, <1>4 DEF HistoryInv

\* A session that leaves keeps the invariant of the history,
LEMMA QuitStep ==
    ASSUME HistoryInv, NEW p \in Session, H!Quit(p)
    PROVE  HistoryInv'
  <1>1. /\ pc' = [pc EXCEPT ![p] = "off"] /\ inbox' = [inbox EXCEPT ![p] = <<>>]
        /\ memory' = [memory EXCEPT ![p] = <<>>]
        /\ UNCHANGED <<file, recording, attached, kept, recorded, written, unpruned>>
    BY DEF H!Quit, H!ghost
  <1>2. HistoryTypes'
    <2>1. HistoryTypes /\ <<>> \in Seq(Message) /\ <<>> \in Seq(Nat)
      BY EmptySeq DEF HistoryInv
    <2> QED
      BY <1>1, <2>1 DEF HistoryTypes, Places
  <1> QED
    BY <1>1, <1>2, FileStays, EndStep

\* one that refuses a statement,
LEMMA RefuseStep ==
    ASSUME HistoryInv, NEW p \in Session, H!Refuse(p)
    PROVE  HistoryInv'
  <1>1. H!Return(p, <<>>) /\ recorded' = recorded + 1 /\ UNCHANGED <<file, written, unpruned>>
    BY DEF H!Refuse, H!ghost
  <1>2. recorded' \in Nat
    BY <1>1 DEF HistoryInv, HistoryTypes
  <1> QED
    BY <1>1, <1>2, FileStays, ReturnStep

\* The file is opened for the next entry.
LEMMA OpenStep ==
    ASSUME HistoryInv, NEW p \in Session, H!Open(p)
    PROVE  HistoryInv'
  <1>1. /\ pc[p] = "idle" /\ recorded' = recorded + 1
        /\ recording' = [recording EXCEPT ![p] = recorded + 1]
        /\ attached' = [attached EXCEPT ![p] = TRUE] /\ pc' = [pc EXCEPT ![p] = "opened"]
        /\ UNCHANGED <<file, kept, inbox, memory, written, unpruned>>
    BY DEF H!Open, H!ghost
  <1>2. HistoryTypes /\ SessionInv(p)
    BY DEF HistoryInv
  <1>3. HistoryTypes'
    BY <1>1, <1>2 DEF HistoryTypes, Places
  <1>4. SessionInv(p)'
    <2>1. pc'[p] = "opened" /\ recording'[p] # 0
      BY <1>1, <1>2 DEF HistoryTypes
    <2> QED
      BY <1>1, <1>2, <2>1, SessionCalls DEF HasText
  <1>5. \A q \in Session : q # p => SessionInv(q)'
    BY <1>1, <1>2, OthersStay DEF HistoryTypes, Grows
  <1>6. SoundFile(file', written') /\ NearItsLength'
    BY <1>1, FileStays
  <1> QED
    BY <1>3, <1>4, <1>5, <1>6 DEF HistoryInv

\* The text of an entry goes to the file, or to one that is no longer at its path.
LEMMA WriteTextStep ==
    ASSUME HistoryInv, NEW p \in Session, H!WriteText(p)
    PROVE  HistoryInv'
  <1> DEFINE x == recording[p]
             N == Len(inbox[p])
  <1>1. /\ pc[p] = "opened" /\ pc' = [pc EXCEPT ![p] = "texted"]
        /\ written' = Append(written, x)
        /\ IF attached[p] THEN H!Write(x) /\ unpruned' = unpruned + 1
                          ELSE UNCHANGED <<file, unpruned>>
        /\ UNCHANGED <<recording, attached, kept, inbox, memory, recorded>>
    BY DEF H!WriteText
  <1>2. HistoryTypes /\ SessionInv(p) /\ SoundFile(file, written) /\ NearItsLength
    BY DEF HistoryInv
  <1>3. /\ x \in Nat /\ x # 0 /\ written \in Seq(Nat) /\ file \in Lines /\ file # <<>>
        /\ inbox[p] \in Seq(Message) /\ N \in Nat /\ unpruned \in Nat
    BY <1>1, <1>2 DEF HistoryTypes, SessionInv
  <1>4. Grows(written, written') /\ written' \in Seq(Nat)
    BY <1>1, <1>3 DEF Grows
  <1>5. /\ file' \in Lines /\ file' # <<>> /\ SoundFile(file', written')
        /\ unpruned' \in Nat /\ NearItsLength'
    <2>1. CASE attached[p]
      <3> DEFINE g == [file EXCEPT ![Len(file)] = Append(@, x)]
      <3>1. file' = g /\ unpruned' = unpruned + 1
        BY <1>1, <2>1 DEF H!Write
      <3>2. g \in Lines /\ g # <<>> /\ SoundFile(g, Append(written, x))
            /\ Len(H!EntriesOf(g)) <= Len(H!EntriesOf(file)) + 1
        BY <1>2, <1>3, TextAdded
      <3> HIDE DEF g, x
      <3>3. NearItsLength'
        <4>1. H!EntriesOf(g) \in Seq(Nat) /\ H!EntriesOf(file) \in Seq(Nat)
          BY <1>3, <3>2, ReadsAll DEF Reads
        <4>2. Len(H!EntriesOf(g)) \in Nat /\ Len(H!EntriesOf(file)) \in Nat
          BY <4>1
        <4> QED
          BY <1>2, <1>3, <3>1, <3>2, <4>2, ClientAssumption DEF NearItsLength, H!Entries
      <3> QED
        BY <1>1, <1>3, <3>1, <3>2, <3>3
    <2>2. CASE ~attached[p]
      <3>1. UNCHANGED <<file, unpruned>>
        BY <1>1, <2>2
      <3> QED
        BY <1>2, <1>3, <1>4, <3>1, WrittenStays DEF NearItsLength, H!Entries
    <2> QED
      BY <2>1, <2>2
  <1>6. HistoryTypes'
    BY <1>1, <1>2, <1>4, <1>5 DEF HistoryTypes, Places
  <1>7. SessionInv(p)'
    <2> DEFINE t == News(p)
               u == News(p)'
               n == N + 1
    <2>1. pc'[p] = "texted" /\ HasText(p)' /\ ~HasText(p)
      BY <1>1, <1>2 DEF HistoryTypes, HasText
    <2>2. /\ DOMAIN t = 0 .. n /\ DOMAIN u = 0 .. n /\ u[n] = <<x>>
          /\ \A m \in 0 .. n : m # n => u[m] = t[m]
      <3>1. inbox'[p] = inbox[p] /\ memory'[p] = memory[p] /\ recording'[p] = x
        BY <1>1
      <3>2. n \in 0 .. n /\ n # 0 /\ ~(n <= N) /\ \A m \in 0 .. n : m # n => m <= N
        BY <1>3
      <3>3. /\ t = [m \in 0 .. n |-> IF m = 0 THEN memory[p]
                                   ELSE IF m <= N THEN inbox[p][m].entries ELSE <<>>]
            /\ u = [m \in 0 .. n |-> IF m = 0 THEN memory[p]
                                   ELSE IF m <= N THEN inbox[p][m].entries ELSE <<x>>]
        BY <2>1, <3>1 DEF News
      <3> HIDE DEF t, u, n, N, x
      <3> QED
        BY <3>2, <3>3
    <2>3. Ordered(t, written) /\ n \in Nat
      BY <1>2, <1>3 DEF SessionInv
    <2> HIDE DEF t, u, n
    <2>4. Ordered(u, Append(written, x))
      BY <1>3, <2>2, <2>3, OrderWrites
    <2>5. Ordered(News(p)', written')
      BY <1>1, <2>4 DEF u
    <2> QED
      BY <1>1, <1>2, <1>3, <2>1, <2>5 DEF SessionInv
  <1>8. \A q \in Session : q # p => SessionInv(q)'
    BY <1>1, <1>2, <1>4, OthersStay DEF HistoryTypes
  <1> QED
    BY <1>5, <1>6, <1>7, <1>8 DEF HistoryInv

\* The line of an entry is ended.
LEMMA EndLineStep ==
    ASSUME HistoryInv, NEW p \in Session, H!EndLine(p)
    PROVE  HistoryInv'
  <1>1. /\ pc[p] = "texted" /\ pc' = [pc EXCEPT ![p] = "ended"]
        /\ file' = IF attached[p] THEN Append(file, <<>>) ELSE file
        /\ UNCHANGED <<recording, attached, kept, inbox, memory, recorded, written, unpruned>>
    BY DEF H!EndLine, H!ghost
  <1>2. HistoryTypes /\ SessionInv(p) /\ SoundFile(file, written) /\ NearItsLength
    BY DEF HistoryInv
  <1>3. /\ Append(file, <<>>) \in Lines /\ SoundFile(Append(file, <<>>), written)
        /\ Append(file, <<>>) # <<>> /\ H!EntriesOf(Append(file, <<>>)) = H!EntriesOf(file)
    <2>1. file \in Lines /\ written \in Seq(Nat) /\ <<>> \in Seq(Nat)
      BY <1>2 DEF HistoryTypes
    <2>2. ~H!Whole(<<>>)
      BY DEF H!Whole
    <2>3. Append(file, <<>>) # <<>>
      BY <2>1, AppendProperties DEF Lines
    <2> QED
      BY <1>2, <2>1, <2>2, <2>3, LineAdded, ReadsOneMore
  <1>4. file' \in Lines /\ file' # <<>> /\ SoundFile(file', written') /\ NearItsLength'
    <2>1. CASE attached[p]
      BY <1>1, <1>2, <1>3, <2>1 DEF NearItsLength, H!Entries
    <2>2. CASE ~attached[p]
      BY <1>1, <1>2, <2>2 DEF NearItsLength, H!Entries, HistoryTypes
    <2> QED
      BY <2>1, <2>2
  <1>5. HistoryTypes'
    BY <1>1, <1>2, <1>4 DEF HistoryTypes, Places
  <1>6. SessionInv(p)'
    <2>1. pc'[p] = "ended"
      BY <1>1, <1>2 DEF HistoryTypes
    <2>2. recording[p] # 0 /\ HasText(p)
      BY <1>1, <1>2 DEF SessionInv, HasText
    <2> QED
      BY <1>1, <1>2, <2>1, <2>2, SessionCalls
  <1>7. \A q \in Session : q # p => SessionInv(q)'
    BY <1>1, <1>2, OthersStay DEF HistoryTypes, Grows
  <1> QED
    BY <1>4, <1>5, <1>6, <1>7 DEF HistoryInv

\* The newest of entries in order are in order.
LEMMA NewestAreSound ==
    ASSUME NEW w, NEW s, Sound(s, w), NEW k \in Nat, k <= Len(s)
    PROVE  /\ Sound(SubSeq(s, Len(s) - k + 1, Len(s)), w)
           /\ Len(SubSeq(s, Len(s) - k + 1, Len(s))) = k
  <1> DEFINE n == Len(s)
             r == SubSeq(s, n - k + 1, n)
  <1>1. s \in Seq(Nat \ {0}) /\ n \in Nat
    BY DEF Sound
  <1>2. r \in Seq(Nat \ {0}) /\ Len(r) = k /\ \A i \in 1 .. k : r[i] = s[n - k + i]
    BY <1>1
  <1>3. \A i \in 1 .. k : n - k + i \in 1 .. n
    BY <1>1
  <1>4. \A i, j \in 1 .. k : i < j => n - k + i < n - k + j
    BY <1>1
  <1>5. /\ \A i \in 1 .. n : IsIn(s[i], w)
        /\ \A i, j \in 1 .. n : i < j => Precedes(s[i], s[j], w)
    BY DEF Sound
  <1> HIDE DEF r, n
  <1>6. Sound(r, w)
    BY <1>2, <1>3, <1>4, <1>5 DEF Sound
  <1> QED
    BY <1>2, <1>6 DEF r, n

\* A file of nothing but entries in order is in order.
LEMMA KeptIsSound ==
    ASSUME NEW w, NEW s, Sound(s, w)
    PROVE  /\ H!Lines(s) \in Lines /\ H!Lines(s) # <<>> /\ SoundFile(H!Lines(s), w)
           /\ H!EntriesOf(H!Lines(s)) = s
  <1> DEFINE n == Len(s)
             f == H!Lines(s)
             whole == [i \in DOMAIN s |-> <<s[i]>>]
  <1>1. /\ s \in Seq(Nat \ {0}) /\ n \in Nat /\ DOMAIN s = 1 .. n
        /\ \A i \in 1 .. n : IsIn(s[i], w)
        /\ \A i, j \in 1 .. n : i < j => Precedes(s[i], s[j], w)
    BY DEF Sound
  <1>2. f \in Lines /\ H!EntriesOf(f) = s
    BY <1>1, ReadsWhatIsKept
  <1>3. /\ f # <<>> /\ Len(f) = n + 1 /\ f[n + 1] = <<>>
        /\ \A i \in 1 .. n : f[i] = <<s[i]>>
    <2>1. whole \in Seq(Seq(Nat)) /\ Len(whole) = n
      <3>1. \A i \in 1 .. n : <<s[i]>> \in Seq(Nat)
        BY <1>1
      <3>2. whole \in [1 .. n -> Seq(Nat)]
        BY <1>1, <3>1
      <3> HIDE DEF whole
      <3> QED
        BY <1>1, <3>2
    <2>2. f = Append(whole, <<>>)
      BY DEF H!Lines
    <2>3. \A i \in 1 .. n : whole[i] = <<s[i]>>
      BY <1>1
    <2> HIDE DEF whole, f, n
    <2> QED
      BY <1>1, <2>1, <2>2, <2>3, AppendProperties, EmptySeq
  <1> HIDE DEF f, n
  <1>4. \A i \in 1 .. Len(f) : H!Whole(f[i]) => i \in 1 .. n /\ f[i][1] = s[i]
    <2>1. ~H!Whole(<<>>)
      BY DEF H!Whole
    <2>2. \A i \in 1 .. Len(f) : i \in 1 .. n \/ i = n + 1
      BY <1>1, <1>3
    <2>3. \A i \in 1 .. n : f[i][1] = s[i]
      BY <1>3
    <2> QED
      BY <1>3, <2>1, <2>2, <2>3
  <1>5. SoundFile(f, w)
    BY <1>1, <1>4 DEF SoundFile
  <1> QED
    BY <1>2, <1>3, <1>5 DEF f

\* The file is read back, and is short enough or is to be pruned.
LEMMA ReadBackStep ==
    ASSUME HistoryInv, NEW p \in Session, H!ReadBack(p)
    PROVE  HistoryInv'
  <1>1. /\ pc[p] = "ended"
        /\ IF H!TooLong
           THEN /\ pc' = [pc EXCEPT ![p] = "pruning"]
                /\ kept' = [kept EXCEPT ![p] = H!Newest]
                /\ UNCHANGED <<recording, attached, inbox, memory, unpruned>>
           ELSE H!Return(p, <<recording[p]>>) /\ unpruned' = 0
        /\ UNCHANGED <<file, recorded, written>>
    BY DEF H!ReadBack
  <1>2. HistoryTypes /\ SessionInv(p) /\ SoundFile(file, written) /\ NearItsLength
    BY DEF HistoryInv
  <1>3. Sound(H!Entries, written) /\ H!Entries \in Seq(Nat) /\ Len(H!Entries) \in Nat
    BY <1>2, EntriesAreSound DEF HistoryTypes, H!Entries, Sound
  <1>4. CASE H!TooLong
    <2>1. /\ pc' = [pc EXCEPT ![p] = "pruning"] /\ kept' = [kept EXCEPT ![p] = H!Newest]
          /\ UNCHANGED <<file, recording, attached, inbox, memory, recorded, written, unpruned>>
      BY <1>1, <1>4
    <2>2. MaxEntries <= Len(H!Entries) /\ MaxEntries \in Nat
      BY <1>3, <1>4, ClientAssumption DEF H!TooLong
    <2>3. Sound(H!Newest, written) /\ Len(H!Newest) = MaxEntries
      <3> DEFINE s == H!Entries
      <3>1. Sound(s, written) /\ MaxEntries <= Len(s)
        BY <1>3, <2>2
      <3>2. H!Newest = SubSeq(s, Len(s) - MaxEntries + 1, Len(s))
        BY DEF H!Newest
      <3> HIDE DEF s
      <3> QED
        BY <2>2, <3>1, <3>2, NewestAreSound
    <2>4. HistoryTypes'
      <3>1. H!Newest \in Seq(Nat)
        BY <2>3 DEF Sound
      <3> QED
        BY <1>2, <2>1, <3>1 DEF HistoryTypes, Places
    <2>5. SessionInv(p)'
      <3>1. recording[p] # 0 /\ HasText(p)
        BY <1>1, <1>2 DEF SessionInv, HasText
      <3>2. kept'[p] = H!Newest
        BY <1>2, <2>1 DEF HistoryTypes
      <3>3. Sound(kept'[p], written) /\ Len(kept'[p]) <= MaxEntries
        BY <2>2, <2>3, <3>2
      <3> QED
        BY <1>2, <2>1, <3>1, <3>3, SessionCalls
    <2>6. \A q \in Session : q # p => SessionInv(q)'
      BY <1>2, <2>1, OthersStay DEF HistoryTypes, Grows
    <2>7. SoundFile(file', written') /\ NearItsLength'
      BY <2>1, FileStays
    <2> QED
      BY <2>4, <2>5, <2>6, <2>7 DEF HistoryInv
  <1>5. CASE ~H!TooLong
    <2>1. H!Return(p, <<recording[p]>>) /\ unpruned' = 0 /\ UNCHANGED <<file, recorded, written>>
      BY <1>1, <1>5
    <2>2. NearItsLength'
      BY <1>3, <1>5, <2>1, ClientAssumption DEF NearItsLength, H!TooLong, H!Entries
    <2>3. HasText(p)
      BY <1>1 DEF HasText
    <2>4. /\ recorded' \in Nat /\ unpruned' \in Nat /\ file' \in Lines /\ file' # <<>>
          /\ SoundFile(file', written)
      BY <1>2, <2>1 DEF HistoryTypes
    <2> QED
      BY <2>1, <2>2, <2>3, <2>4, ReturnStep
  <1> QED
    BY <1>4, <1>5

\* The file is replaced by its newest entries, as they were read.
LEMMA ReplaceStep ==
    ASSUME HistoryInv, NEW p \in Session, H!Replace(p)
    PROVE  HistoryInv'
  <1>1. /\ pc[p] = "pruning" /\ file' = H!Lines(kept[p])
        /\ attached' = [q \in Session |-> FALSE] /\ pc' = [pc EXCEPT ![p] = "idle"]
        /\ inbox' = [inbox EXCEPT ![p] = Append(@, H!Recorded(<<recording[p]>>))]
        /\ recording' = [recording EXCEPT ![p] = 0]
        /\ kept' = [kept EXCEPT ![p] = <<>>] /\ unpruned' = 0
        /\ UNCHANGED <<memory, recorded, written>>
    BY DEF H!Replace, H!ReplaceBy, H!Torn
  <1>2. HistoryTypes /\ SessionInv(p)
    BY DEF HistoryInv
  <1>3. Sound(kept[p], written) /\ Len(kept[p]) <= MaxEntries
    BY <1>1, <1>2 DEF SessionInv
  <1>4. /\ file' \in Lines /\ file' # <<>> /\ SoundFile(file', written')
        /\ H!Entries' = kept[p]
    BY <1>1, <1>3, KeptIsSound DEF H!Entries
  <1>5. NearItsLength'
    <2>1. Len(kept[p]) \in Nat
      BY <1>3 DEF Sound
    <2> QED
      BY <1>1, <1>3, <1>4, <2>1, ClientAssumption DEF NearItsLength
  <1>6. HistoryTypes'
    <2>1. recording[p] \in Nat /\ inbox[p] \in Seq(Message)
      BY <1>2 DEF HistoryTypes
    <2>2. H!Recorded(<<recording[p]>>) \in Message
      BY <2>1 DEF H!Recorded, Message
    <2>3. Append(inbox[p], H!Recorded(<<recording[p]>>)) \in Seq(Message)
      BY <2>1, <2>2, AppendProperties
    <2> QED
      BY <1>1, <1>2, <1>4, <2>3 DEF HistoryTypes, Places
  <1>7. SessionInv(p)'
    <2>1. /\ inbox'[p] = Append(inbox[p], H!Recorded(<<recording[p]>>))
          /\ memory'[p] = memory[p] /\ pc'[p] = "idle" /\ HasText(p)
      BY <1>1, <1>2 DEF HistoryTypes, HasText
    <2> QED
      BY <1>1, <1>2, <2>1, SessionReturns
  <1>8. \A q \in Session : q # p => SessionInv(q)'
    BY <1>1, <1>2, OthersStay DEF HistoryTypes, Grows
  <1> QED
    BY <1>4, <1>5, <1>6, <1>7, <1>8 DEF HistoryInv

\* Some of a text that is no entry.
LEMMA TearLeaves ==
    ASSUME HistoryInv, NEW p \in Session, H!Tear(p) \/ UNCHANGED file,
           UNCHANGED <<written, unpruned>>
    PROVE  /\ unpruned' \in Nat /\ file' \in Lines /\ file' # <<>>
           /\ SoundFile(file', written) /\ NearItsLength'
  <1>1. file' = file \/ H!Write(0)
    BY DEF H!Tear, H!Torn
  <1>2. CASE file' = file
    BY <1>2, FileStays
  <1>3. CASE H!Write(0)
    <2> DEFINE g == [file EXCEPT ![Len(file)] = Append(@, 0)]
    <2>1. HistoryTypes /\ SoundFile(file, written) /\ NearItsLength
      BY DEF HistoryInv
    <2>2. file \in Lines /\ file # <<>> /\ written \in Seq(Nat)
      BY <2>1 DEF HistoryTypes
    <2>3. file' = g
      BY <1>3 DEF H!Write
    <2>4. /\ g \in Lines /\ g # <<>> /\ SoundFile(g, written)
          /\ Len(H!EntriesOf(g)) <= Len(H!EntriesOf(file))
      BY <2>1, <2>2, TextAdded
    <2> HIDE DEF g
    <2>5. Len(H!EntriesOf(g)) \in Nat /\ Len(H!EntriesOf(file)) \in Nat
      <3>1. H!EntriesOf(g) \in Seq(Nat) /\ H!EntriesOf(file) \in Seq(Nat)
        BY <2>2, <2>4, ReadsAll DEF Reads
      <3> QED
        BY <3>1
    <2>6. NearItsLength'
      BY <2>1, <2>3, <2>4, <2>5, ClientAssumption DEF NearItsLength, H!Entries, HistoryTypes
    <2> QED
      BY <2>1, <2>3, <2>4, <2>6 DEF HistoryTypes
  <1> QED
    BY <1>1, <1>2, <1>3

\* one whose write fails,
LEMMA FailStep ==
    ASSUME HistoryInv, NEW p \in Session, H!Fail(p)
    PROVE  HistoryInv'
  <1>1. /\ H!Tear(p) \/ UNCHANGED file
        /\ H!Return(p, <<>>) /\ UNCHANGED <<recorded, written, unpruned>>
    BY DEF H!Fail, H!ghost
  <1>2. recorded' \in Nat
    BY <1>1 DEF HistoryInv, HistoryTypes
  <1> QED
    BY <1>1, <1>2, TearLeaves, ReturnStep

\* one that dies,
LEMMA CrashStep ==
    ASSUME HistoryInv, NEW p \in Session, H!Crash(p)
    PROVE  HistoryInv'
  <1>1. /\ H!Tear(p) \/ UNCHANGED file
        /\ pc' = [pc EXCEPT ![p] = "off"] /\ recording' = [recording EXCEPT ![p] = 0]
        /\ attached' = [attached EXCEPT ![p] = FALSE] /\ kept' = [kept EXCEPT ![p] = <<>>]
        /\ inbox' = [inbox EXCEPT ![p] = <<>>] /\ memory' = [memory EXCEPT ![p] = <<>>]
        /\ UNCHANGED <<recorded, written, unpruned>>
    BY DEF H!Crash, H!ghost, H!Torn
  <1>2. /\ unpruned' \in Nat /\ file' \in Lines /\ file' # <<>>
        /\ SoundFile(file', written) /\ NearItsLength'
    BY <1>1, TearLeaves
  <1>3. HistoryTypes'
    <2>1. HistoryTypes /\ <<>> \in Seq(Message) /\ <<>> \in Seq(Nat)
      BY EmptySeq DEF HistoryInv
    <2> QED
      BY <1>1, <1>2, <2>1 DEF HistoryTypes, Places
  <1>4. \A q \in Session : q # p => recording'[q] = recording[q] /\ kept'[q] = kept[q]
    BY <1>1 DEF HistoryInv, HistoryTypes
  <1> QED
    BY <1>1, <1>2, <1>3, <1>4, EndStep

\* No file, nothing to read.
LEMMA NoFileIsSound ==
    ASSUME NEW w
    PROVE  /\ H!NoFile \in Lines /\ H!NoFile # <<>> /\ SoundFile(H!NoFile, w)
           /\ H!EntriesOf(H!NoFile) = <<>>
  <1>1. H!NoFile = Append(<<>>, <<>>)
    BY DEF H!NoFile
  <1>2. ~H!Whole(<<>>) /\ <<>> \in Lines /\ <<>> \in Seq(Nat)
    BY EmptySeq DEF H!Whole, Lines
  <1>3. H!EntriesOf(H!NoFile) = <<>>
    BY <1>1, <1>2, ReadsOneMore, ReadsNothing
  <1>4. H!NoFile \in Lines /\ H!NoFile # <<>> /\ Len(H!NoFile) = 1 /\ H!NoFile[1] = <<>>
    <2>1. H!NoFile \in Lines
      BY <1>1, <1>2, AppendProperties DEF Lines
    <2> QED
      BY <2>1 DEF H!NoFile
  <1>5. SoundFile(H!NoFile, w)
    BY <1>2, <1>4 DEF SoundFile
  <1> QED
    BY <1>3, <1>4, <1>5

\* and a log that is cleared.
LEMMA ClearStep ==
    ASSUME HistoryInv, H!Clear
    PROVE  HistoryInv'
  <1>1. /\ file' = H!NoFile /\ attached' = [p \in Session |-> FALSE] /\ unpruned' = 0
        /\ UNCHANGED <<pc, recording, kept, inbox, memory, recorded, written>>
    BY DEF H!Clear
  <1>2. HistoryTypes
    BY DEF HistoryInv
  <1>3. file' \in Lines /\ file' # <<>> /\ SoundFile(file', written') /\ H!Entries' = <<>>
    BY <1>1, NoFileIsSound DEF H!Entries
  <1>4. HistoryTypes'
    BY <1>1, <1>2, <1>3 DEF HistoryTypes
  <1>5. NearItsLength'
    <2>1. Len(H!Entries') = 0 /\ MaxEntries \in Nat /\ unpruned' = 0
      BY <1>1, <1>3, ClientAssumption
    <2> QED
      BY <2>1 DEF NearItsLength
  <1>6. \A q \in Session : SessionInv(q)'
    BY <1>1, <1>2, SessionStays DEF HistoryInv, Grows
  <1> QED
    BY <1>3, <1>4, <1>5, <1>6 DEF HistoryInv

\* The invariant of the history holds at the start,
LEMMA HistoryInit == H!Init => HistoryInv
  <1> SUFFICES ASSUME H!Init PROVE HistoryInv
    OBVIOUS
  <1>1. /\ file = H!NoFile
        /\ pc = [p \in Session |-> "off"] /\ recording = [p \in Session |-> 0]
        /\ attached = [p \in Session |-> FALSE] /\ kept = [p \in Session |-> <<>>]
        /\ inbox = [p \in Session |-> <<>>] /\ memory = [p \in Session |-> <<>>]
        /\ recorded = 0 /\ written = <<>> /\ unpruned = 0
    BY DEF H!Init, H!Torn
  <1>2. file \in Lines /\ file # <<>> /\ SoundFile(file, written) /\ H!Entries = <<>>
    BY <1>1, NoFileIsSound DEF H!Entries
  <1>3. HistoryTypes
    <2>1. <<>> \in Seq(Message) /\ <<>> \in Seq(Nat)
      BY EmptySeq
    <2> QED
      BY <1>1, <1>2, <2>1 DEF HistoryTypes, Places
  <1>4. NearItsLength
    <2>1. Len(H!Entries) = 0 /\ MaxEntries \in Nat /\ unpruned = 0
      BY <1>1, <1>2, ClientAssumption
    <2> QED
      BY <2>1 DEF NearItsLength
  <1>5. ASSUME NEW p \in Session PROVE SessionInv(p)
    <2>1. inbox[p] = <<>> /\ memory[p] = <<>> /\ pc[p] = "off"
      BY <1>1
    <2>2. \A m \in DOMAIN News(p) : News(p)[m] = <<>>
      BY <2>1 DEF News, HasText
    <2>3. Ordered(News(p), written)
      BY <2>2 DEF Ordered
    <2> QED
      BY <2>1, <2>3 DEF SessionInv, HasText
  <1> QED
    BY <1>2, <1>3, <1>4, <1>5 DEF HistoryInv

\* and every step of every session keeps it.
LEMMA HistoryNext == HistoryInv /\ [H!Next]_history => HistoryInv'
  <1> SUFFICES ASSUME HistoryInv, [H!Next]_history PROVE HistoryInv'
    OBVIOUS
  <1>1. CASE H!Clear
    BY <1>1, ClearStep
  <1>2. ASSUME NEW p \in Session,
               \/ H!Start(p) \/ H!Receive(p) \/ H!Quit(p) \/ H!Refuse(p)
               \/ H!Open(p) \/ H!WriteText(p) \/ H!EndLine(p) \/ H!ReadBack(p) \/ H!Replace(p)
               \/ H!Fail(p) \/ H!Crash(p)
        PROVE  HistoryInv'
    <2>1. CASE H!Start(p)
      BY <2>1, StartStep
    <2>2. CASE H!Receive(p)
      BY <2>2, ReceiveStep
    <2>3. CASE H!Quit(p) \/ H!Refuse(p) \/ H!Open(p)
      BY <2>3, QuitStep, RefuseStep, OpenStep
    <2>4. CASE H!WriteText(p) \/ H!EndLine(p)
      BY <2>4, WriteTextStep, EndLineStep
    <2>5. CASE H!ReadBack(p) \/ H!Replace(p)
      BY <2>5, ReadBackStep, ReplaceStep
    <2>6. CASE H!Fail(p) \/ H!Crash(p)
      BY <2>6, FailStep, CrashStep
    <2> QED
      BY <1>2, <2>1, <2>2, <2>3, <2>4, <2>5, <2>6
  <1>3. CASE UNCHANGED history
    <2>1. HistoryTypes /\ UNCHANGED <<file, pc, recording, attached, kept, inbox, memory,
                                      recorded, written, unpruned>>
      BY <1>3 DEF history, HistoryInv
    <2>2. \A p \in Session : SessionInv(p)'
      BY <2>1, SessionStays DEF HistoryInv, Grows
    <2>3. HistoryTypes'
      BY <2>1 DEF HistoryTypes
    <2>4. SoundFile(file', written') /\ NearItsLength'
      BY <2>1, FileStays
    <2> QED
      BY <2>2, <2>3, <2>4 DEF HistoryInv
  <1> QED
    BY <1>1, <1>2, <1>3 DEF H!Next

\* From the invariant of the news to what is read back and offered.
LEMMA HistoryIsInOrder == HistoryInv => H!SharedStaysInOrder
  <1> SUFFICES ASSUME HistoryInv PROVE H!SharedStaysInOrder
    OBVIOUS
  <1>1. H!InOrder(H!Entries)
    <2>1. Sound(H!Entries, written)
      BY EntriesAreSound DEF HistoryInv, HistoryTypes, H!Entries
    <2>2. DOMAIN H!Entries = 1 .. Len(H!Entries)
      BY <2>1 DEF Sound
    <2> QED
      BY <2>1, <2>2 DEF Sound, Precedes, H!InOrder
  <1>2. ASSUME NEW p \in Session PROVE H!InOrder(H!Reverse(memory[p]))
    <2> DEFINE s == memory[p]
               n == Len(s)
               r == H!Reverse(s)
    <2>1. s \in Seq(Nat) /\ n \in Nat /\ inbox[p] \in Seq(Message)
      BY DEF HistoryInv, HistoryTypes
    <2>2. DOMAIN r = 1 .. n /\ \A i \in 1 .. n : r[i] = s[n - i + 1] /\ n - i + 1 \in 1 .. n
      BY <2>1 DEF H!Reverse
    <2>3. 0 \in DOMAIN News(p) /\ News(p)[0] = s
      BY <2>1 DEF News
    <2>4. \A i, j \in 1 .. n : i < j => Precedes(s[j], s[i], written)
      BY <2>3 DEF HistoryInv, SessionInv, Ordered
    <2>5. ASSUME NEW i \in 1 .. n, NEW j \in 1 .. n, i < j
          PROVE  Precedes(r[i], r[j], written)
      <3>1. n - j + 1 < n - i + 1 /\ n - j + 1 \in 1 .. n /\ n - i + 1 \in 1 .. n
        <4>1. n \in Nat
          BY <2>1
        <4> HIDE DEF n
        <4> QED
          BY <2>5, <4>1
      <3>2. r[i] = s[n - i + 1] /\ r[j] = s[n - j + 1]
        BY <2>2
      <3> HIDE DEF s, r, n
      <3> QED
        BY <2>4, <3>1, <3>2
    <2> HIDE DEF r
    <2>6. H!InOrder(r)
      BY <2>2, <2>5 DEF H!InOrder, Precedes
    <2> QED
      BY <2>6 DEF r
  <1> QED
    BY <1>1, <1>2 DEF H!SharedStaysInOrder, HistoryInv, NearItsLength

\* Whatever several sessions, crashes, failing calls and `history clear` do between any two
\* calls of record(): what is read back from the file was written, in that order and once; so
\* was what every session offers to run again, newest first; and the file is longer than
\* history.max_entries by no more than the texts whose record() has not seen it short enough
\* yet (history.rs:280 and 326, app/update.rs).
THEOREM SharedHistoryInOrder == Spec => []SharedStaysInOrder
  <1> DEFINE Inv == part = "history" => HistoryInv
  <1>1. Init => Inv
    BY HistoryInit DEF Init
  <1>2. Inv /\ [Next]_vars => Inv'
    <2> SUFFICES ASSUME Inv, [Next]_vars, part' = "history" PROVE HistoryInv'
      OBVIOUS
    <2>1. part = "history"
      BY DEF Next, vars
    <2>2. [H!Next]_history
      BY <2>1 DEF Next, vars
    <2> QED
      BY <2>1, <2>2, HistoryNext
  <1>3. Inv => SharedStaysInOrder
    BY HistoryIsInOrder DEF SharedStaysInOrder
  <1> QED
    BY <1>1, <1>2, <1>3, PTL DEF Spec

----------------------------------------------------------------------------
(* No entry is written, read back or offered twice.                         *)

Once(s) == \A i, j \in DOMAIN s : s[i] = s[j] => i = j

\* What is written was recorded, and what is about to be written is new.
WrittenOnce ==
    /\ Once(written)
    /\ \A k \in DOMAIN written : written[k] <= recorded
    /\ \A p \in Session : pc[p] = "opened" =>
         /\ recording[p] <= recorded /\ ~IsIn(recording[p], written)
         /\ \A q \in Session : q # p /\ pc[q] = "opened" => recording[q] # recording[p]

\* A call that writes no text, and starts no entry.
LEMMA NothingNew ==
    ASSUME HistoryTypes, HistoryTypes', WrittenOnce, UNCHANGED written, recorded <= recorded',
           \A q \in Session : pc'[q] = "opened" => pc[q] = "opened" /\ recording'[q] = recording[q]
    PROVE  WrittenOnce'
  <1>1. /\ written \in Seq(Nat) /\ recorded \in Nat /\ recorded' \in Nat
        /\ recording \in [Session -> Nat]
    BY DEF HistoryTypes
  <1>2. Once(written')
    BY DEF WrittenOnce
  <1>3. \A k \in DOMAIN written' : written'[k] <= recorded'
    BY <1>1 DEF WrittenOnce
  <1>4. ASSUME NEW p \in Session, pc'[p] = "opened"
        PROVE  /\ recording'[p] <= recorded' /\ ~IsIn(recording'[p], written')
               /\ \A q \in Session : q # p /\ pc'[q] = "opened" => recording'[q] # recording'[p]
    <2>1. pc[p] = "opened" /\ recording'[p] = recording[p] /\ recording[p] \in Nat
      BY <1>1, <1>4
    <2>2. recording[p] <= recorded /\ ~IsIn(recording[p], written)
      BY <2>1 DEF WrittenOnce
    <2>3. recording'[p] <= recorded'
      BY <1>1, <2>1, <2>2
    <2> QED
      BY <2>1, <2>2, <2>3 DEF WrittenOnce
  <1> QED
    BY <1>2, <1>3, <1>4 DEF WrittenOnce

\* No step writes an entry that was written.
LEMMA WrittenOnceNext ==
    ASSUME HistoryInv, WrittenOnce, [H!Next]_history
    PROVE  WrittenOnce'
  <1>1. HistoryTypes /\ HistoryTypes'
    BY HistoryNext DEF HistoryInv
  <1>2. /\ written \in Seq(Nat) /\ recorded \in Nat /\ recorded' \in Nat
        /\ recording \in [Session -> Nat] /\ pc \in [Session -> Places]
    BY <1>1 DEF HistoryTypes
  <1>3. ASSUME NEW p \in Session, H!Open(p)
        PROVE  WrittenOnce'
    <2>1. /\ recorded' = recorded + 1 /\ written' = written
          /\ recording' = [recording EXCEPT ![p] = recorded + 1]
          /\ pc' = [pc EXCEPT ![p] = "opened"]
      BY <1>3 DEF H!Open, H!ghost
    <2>2. recording'[p] = recorded + 1 /\ recording'[p] \in Nat
      BY <1>2, <2>1
    <2>3. \A q \in Session : q # p => pc'[q] = pc[q] /\ recording'[q] = recording[q]
      BY <1>2, <2>1
    <2>4. \A k \in DOMAIN written : written[k] \in Nat /\ written[k] <= recorded
      BY <1>2 DEF WrittenOnce
    <2>5. ~IsIn(recording'[p], written)
      BY <1>2, <2>2, <2>4 DEF IsIn
    <2>6. ASSUME NEW q \in Session, q # p, pc'[q] = "opened"
          PROVE  /\ recording'[q] <= recorded /\ recording'[q] \in Nat
                 /\ ~IsIn(recording'[q], written) /\ recording'[q] # recording'[p]
      <3>1. recording'[q] = recording[q] /\ recording[q] \in Nat /\ pc[q] = "opened"
        BY <1>2, <2>3, <2>6
      <3>2. recording[q] <= recorded /\ ~IsIn(recording[q], written)
        BY <3>1 DEF WrittenOnce
      <3> QED
        BY <1>2, <2>2, <3>1, <3>2
    <2>7. ASSUME NEW q \in Session, q # p, pc'[q] = "opened",
                 NEW r \in Session, r # q, pc'[r] = "opened"
          PROVE  recording'[r] # recording'[q]
      <3>1. CASE r = p
        BY <2>6, <2>7, <3>1
      <3>2. CASE r # p
        <4>1. pc[q] = "opened" /\ pc[r] = "opened" /\ recording'[q] = recording[q]
              /\ recording'[r] = recording[r]
          BY <2>3, <2>7, <3>2
        <4> QED
          BY <2>7, <4>1 DEF WrittenOnce
      <3> QED
        BY <3>1, <3>2
    <2>8. \A q \in Session : pc'[q] = "opened" =>
            /\ recording'[q] <= recorded' /\ ~IsIn(recording'[q], written')
            /\ \A r \in Session : r # q /\ pc'[r] = "opened" => recording'[r] # recording'[q]
      BY <1>2, <2>1, <2>2, <2>5, <2>6, <2>7
    <2>9. Once(written') /\ \A k \in DOMAIN written' : written'[k] <= recorded'
      BY <1>2, <2>1, <2>4 DEF WrittenOnce
    <2> QED
      BY <2>8, <2>9 DEF WrittenOnce
  <1>4. ASSUME NEW p \in Session, H!WriteText(p)
        PROVE  WrittenOnce'
    <2> DEFINE x == recording[p]
               n == Len(written)
    <2>1. /\ pc[p] = "opened" /\ pc' = [pc EXCEPT ![p] = "texted"]
          /\ written' = Append(written, x) /\ UNCHANGED <<recording, recorded>>
      BY <1>4 DEF H!WriteText
    <2>2. x \in Nat /\ x <= recorded /\ ~IsIn(x, written) /\ n \in Nat
      BY <1>2, <2>1 DEF WrittenOnce
    <2>3. /\ DOMAIN written' = 1 .. n + 1 /\ DOMAIN written = 1 .. n /\ written'[n + 1] = x
          /\ \A k \in 1 .. n : written'[k] = written[k]
      BY <1>2, <2>1, <2>2
    <2> HIDE DEF x, n
    <2>4. \A k \in 1 .. n + 1 : k = n + 1 \/ k \in 1 .. n
      BY <2>2
    <2>5. \A k \in 1 .. n : written[k] # x
      BY <2>2, <2>3 DEF IsIn
    <2>6. Once(written') /\ \A k \in DOMAIN written' : written'[k] <= recorded'
      BY <2>1, <2>2, <2>3, <2>4, <2>5 DEF WrittenOnce, Once
    <2>7. \A q \in Session : pc'[q] = "opened" => q # p /\ pc[q] = "opened"
      BY <1>2, <2>1
    <2>8. \A q \in Session : pc'[q] = "opened" => ~IsIn(recording[q], written')
      <3>1. ASSUME NEW q \in Session, pc'[q] = "opened" PROVE ~IsIn(recording[q], written')
        <4>1. recording[q] # x /\ ~IsIn(recording[q], written)
          BY <2>1, <2>7, <3>1 DEF WrittenOnce, x
        <4> QED
          BY <2>3, <2>4, <4>1 DEF IsIn
      <3> QED
        BY <3>1
    <2> QED
      BY <2>1, <2>6, <2>7, <2>8 DEF WrittenOnce
  <1>5. CASE H!Clear \/ UNCHANGED history
    BY <1>1, <1>2, <1>5, NothingNew DEF H!Clear, history
  <1>6. ASSUME NEW p \in Session,
               \/ H!Start(p) \/ H!Receive(p) \/ H!Quit(p) \/ H!Refuse(p)
               \/ H!EndLine(p) \/ H!ReadBack(p) \/ H!Replace(p) \/ H!Fail(p) \/ H!Crash(p)
        PROVE  WrittenOnce'
    <2>1. UNCHANGED written /\ (recorded' = recorded \/ recorded' = recorded + 1)
      BY <1>6 DEF H!Start, H!Receive, H!Quit, H!Refuse, H!EndLine, H!ReadBack, H!Replace,
                  H!ReplaceBy, H!Fail, H!Crash, H!ghost
    <2>2. \A q \in Session :
            pc'[q] = "opened" => pc[q] = "opened" /\ recording'[q] = recording[q]
      <3>1. CASE H!Start(p) \/ H!Receive(p) \/ H!Quit(p)
        BY <1>2, <3>1 DEF H!Start, H!Receive, H!Quit
      <3>2. CASE H!Refuse(p) \/ H!Fail(p)
        BY <1>2, <3>2 DEF H!Refuse, H!Fail, H!Return
      <3>3. CASE H!EndLine(p) \/ H!ReadBack(p)
        BY <1>2, <3>3 DEF H!EndLine, H!ReadBack, H!Return
      <3>4. CASE H!Replace(p) \/ H!Crash(p)
        BY <1>2, <3>4 DEF H!Replace, H!ReplaceBy, H!Crash
      <3> QED
        BY <1>6, <3>1, <3>2, <3>3, <3>4
    <2> QED
      BY <1>1, <1>2, <2>1, <2>2, NothingNew
  <1> QED
    BY <1>3, <1>4, <1>5, <1>6 DEF H!Next

\* What is in the order of distinct entries is distinct.
LEMMA OrderedOnce ==
    ASSUME NEW w, Once(w), NEW s, NEW n \in Nat, DOMAIN s = 1 .. n,
           \A i, j \in 1 .. n : i < j => Precedes(s[i], s[j], w) \/ Precedes(s[j], s[i], w),
           DOMAIN w \subseteq Nat
    PROVE  Once(s)
  <1>1. \A x : ~Precedes(x, x, w)
    BY DEF Precedes, Once
  <1>2. \A i, j \in 1 .. n : i # j => i < j \/ j < i
    OBVIOUS
  <1> QED
    BY <1>1, <1>2 DEF Once

\* No entry is read back from the file twice, and none is offered twice: neither a prune that
\* writes an old reading back over the file of another session, nor a report of what the
\* first reading already had, repeats one (history.rs:326, app/update.rs).
THEOREM NoEntryIsOfferedTwice ==
    Spec => [](part = "history" => Once(H!Entries) /\ \A p \in Session : Once(memory[p]))
  <1> DEFINE Inv == part = "history" => HistoryInv /\ WrittenOnce
  <1>1. Init => Inv
    <2> SUFFICES ASSUME H!Init PROVE HistoryInv /\ WrittenOnce
      BY DEF Init
    <2>1. written = <<>> /\ \A p \in Session : pc[p] = "off"
      BY DEF H!Init
    <2> QED
      BY <2>1, HistoryInit DEF WrittenOnce, Once
  <1>2. Inv /\ [Next]_vars => Inv'
    <2> SUFFICES ASSUME Inv, [Next]_vars, part' = "history" PROVE HistoryInv' /\ WrittenOnce'
      OBVIOUS
    <2>1. part = "history"
      BY DEF Next, vars
    <2>2. [H!Next]_history
      BY <2>1 DEF Next, vars
    <2> QED
      BY <2>1, <2>2, HistoryNext, WrittenOnceNext
  <1>3. ASSUME HistoryInv, WrittenOnce
        PROVE  Once(H!Entries) /\ \A p \in Session : Once(memory[p])
    <2>1. DOMAIN written \subseteq Nat /\ Once(written)
      BY <1>3 DEF HistoryInv, HistoryTypes, WrittenOnce
    <2>2. Sound(H!Entries, written)
      BY <1>3, EntriesAreSound DEF HistoryInv, HistoryTypes, H!Entries
    <2>3. DOMAIN H!Entries = 1 .. Len(H!Entries) /\ Len(H!Entries) \in Nat
      BY <2>2 DEF Sound
    <2>4. Once(H!Entries)
      BY <2>1, <2>2, <2>3, OrderedOnce DEF Sound
    <2>5. ASSUME NEW p \in Session PROVE Once(memory[p])
      <3>1. /\ DOMAIN memory[p] = 1 .. Len(memory[p]) /\ Len(memory[p]) \in Nat
            /\ 0 \in DOMAIN News(p) /\ News(p)[0] = memory[p]
        BY <1>3 DEF HistoryInv, HistoryTypes, News
      <3>2. \A i, j \in 1 .. Len(memory[p]) :
              i < j => Precedes(memory[p][j], memory[p][i], written)
        BY <1>3, <3>1 DEF HistoryInv, SessionInv, Ordered
      <3> QED
        BY <2>1, <3>1, <3>2, OrderedOnce
    <2> QED
      BY <2>4, <2>5
  <1>4. Inv => (part = "history" => Once(H!Entries) /\ \A p \in Session : Once(memory[p]))
    BY <1>3
  <1> QED
    BY <1>1, <1>2, <1>4, PTL DEF Spec

----------------------------------------------------------------------------
(* The history of one session.                                              *)

\* What a file holds does not depend on how long it may be.
LEMMA ReadAlike == \A f : A!EntriesOf(f) = H!EntriesOf(f)
  BY DEF A!EntriesOf, H!EntriesOf, A!Whole, H!Whole, A!Torn, H!Torn

AloneTypes ==
    /\ file \in Lines /\ file # <<>>
    /\ recorded \in Nat /\ faults = 0 /\ clears = 0
    /\ pc \in [{"alone"} -> Places] /\ recording \in [{"alone"} -> Nat]
    /\ attached \in [{"alone"} -> BOOLEAN] /\ kept \in [{"alone"} -> Seq(Nat)]

\* Nobody takes the file away from a session that records, the last line is open for the
\* next text or ends with the last one, and the file is short enough outside of record().
AloneInv ==
    /\ AloneTypes
    /\ pc["alone"] \in {"opened", "texted", "ended", "pruning"} =>
         recording["alone"] \in 1 .. AloneRecorded /\ attached["alone"]
    /\ file[Len(file)] = IF pc["alone"] = "texted" THEN <<recording["alone"]>> ELSE <<>>
    /\ pc["alone"] \in {"off", "idle", "opened"} => ~A!TooLong
    /\ pc["alone"] = "pruning" => A!TooLong /\ kept["alone"] = A!Newest

\* The log is of the file.
LEMMA LogStays ==
    ASSUME A!Entries' = A!Entries
    PROVE  A!TooLong' = A!TooLong /\ A!Newest' = A!Newest /\ A!Log' = A!Log
  BY DEF A!TooLong, A!Newest, A!Log

\* The last line of a page to which a line is added.
LEMMA LastLine ==
    ASSUME NEW f \in Lines, NEW line \in Seq(Nat)
    PROVE  /\ Append(f, line) \in Lines /\ Append(f, line) # <<>>
           /\ Append(f, line)[Len(Append(f, line))] = line
  <1> DEFINE g == Append(f, line)
             V == Seq(Nat)
  <1>1. f \in Seq(V) /\ line \in V
    BY DEF Lines
  <1> HIDE DEF V
  <1>2. g \in Seq(V) /\ g # <<>> /\ Len(g) = Len(f) + 1 /\ g[Len(f) + 1] = line
    BY <1>1, AppendProperties
  <1> HIDE DEF g
  <1>3. g \in Lines /\ g # <<>> /\ g[Len(g)] = line
    BY <1>2 DEF V, Lines
  <1> QED
    BY <1>3 DEF g

\* An open line says nothing, and the text of an entry says that entry.
LEMMA OpenLineSaysNothing ==
    ASSUME NEW f \in Lines, f # <<>>, f[Len(f)] = <<>>, NEW x \in Nat \ {0}
    PROVE  LET g == [f EXCEPT ![Len(f)] = Append(@, x)]
           IN /\ g \in Lines /\ g # <<>> /\ g[Len(g)] = <<x>>
              /\ H!EntriesOf(g) = Append(H!EntriesOf(f), x)
  <1> DEFINE g == [f EXCEPT ![Len(f)] = Append(@, x)]
             n == Len(f)
  <1>1. PICK h \in Lines, line \in Seq(Nat) : f = Append(h, line)
    BY SequenceEmptyOrAppend DEF Lines
  <1>2. h \in Seq(Seq(Nat)) /\ n = Len(h) + 1 /\ line = <<>> /\ Len(h) \in Nat
    <2>1. h \in Seq(Seq(Nat)) /\ line \in Seq(Nat)
      BY DEF Lines
    <2>2. Len(f) = Len(h) + 1 /\ f[Len(h) + 1] = line /\ Len(h) \in Nat
      BY <1>1, <2>1, AppendProperties
    <2> QED
      BY <2>1, <2>2
  <1>3. <<x>> \in Seq(Nat) /\ Append(<<>>, x) = <<x>>
    OBVIOUS
  <1>4. g = Append(h, <<x>>)
    <2>1. f \in Seq(Seq(Nat)) /\ n \in 1 .. Len(f)
      BY <1>2 DEF Lines
    <2>2. g \in Seq(Seq(Nat)) /\ Len(g) = n /\ g[n] = <<x>>
          /\ \A i \in 1 .. n : i # n => g[i] = f[i]
      BY <1>3, <2>1
    <2>3. /\ Append(h, <<x>>) \in Seq(Seq(Nat)) /\ Len(Append(h, <<x>>)) = n
          /\ Append(h, <<x>>)[n] = <<x>>
          /\ \A i \in 1 .. n : i # n => Append(h, <<x>>)[i] = h[i] /\ f[i] = h[i]
      BY <1>1, <1>2, <1>3, AppendProperties
    <2> HIDE DEF g, n
    <2>4. \A i \in 1 .. n : g[i] = Append(h, <<x>>)[i]
      BY <2>2, <2>3
    <2> QED
      BY <2>2, <2>3, <2>4, SeqEqual
  <1>5. H!Whole(<<x>>) /\ ~H!Whole(<<>>)
    BY DEF H!Whole, H!Torn
  <1>6. H!EntriesOf(f) = H!EntriesOf(h)
    BY <1>1, <1>2, <1>5, ReadsOneMore
  <1>7. H!EntriesOf(g) = Append(H!EntriesOf(h), x)
    <2>1. H!EntriesOf(Append(h, <<x>>)) = Append(H!EntriesOf(h), <<x>>[1])
      BY <1>3, <1>5, ReadsOneMore
    <2> QED
      BY <1>4, <2>1
  <1>8. g \in Lines /\ g # <<>> /\ g[Len(g)] = <<x>>
    BY <1>3, <1>4, LastLine
  <1> QED
    BY <1>6, <1>7, <1>8

\* The one session starts with a log that promises nothing.
LEMMA AloneInit == A!Init => AloneInv /\ A!Log = <<>>
  <1> SUFFICES ASSUME A!Init PROVE AloneInv /\ A!Log = <<>>
    OBVIOUS
  <1>1. /\ file = H!NoFile /\ pc = [p \in {"alone"} |-> "off"]
        /\ recording = [p \in {"alone"} |-> 0] /\ attached = [p \in {"alone"} |-> FALSE]
        /\ kept = [p \in {"alone"} |-> <<>>] /\ recorded = 0 /\ faults = 0 /\ clears = 0
    BY DEF A!Init, A!NoFile, H!NoFile, A!Torn
  <1>2. file \in Lines /\ file # <<>> /\ H!EntriesOf(file) = <<>>
    BY <1>1, NoFileIsSound
  <1>3. Len(file) = 1 /\ file[1] = <<>>
    BY <1>1 DEF H!NoFile
  <1>4. A!Entries = <<>> /\ Len(A!Entries) = 0
    BY <1>2, ReadAlike DEF A!Entries
  <1>5. ~A!TooLong
    BY <1>4, ClientAssumption DEF A!TooLong
  <1>6. AloneTypes
    <2>1. <<>> \in Seq(Nat)
      BY EmptySeq
    <2> QED
      BY <1>1, <1>2, <2>1 DEF AloneTypes, Places
  <1> QED
    BY <1>1, <1>3, <1>4, <1>5, <1>6 DEF AloneInv, A!Log

\* Every call keeps the promise: the text of an entry keeps it, and nothing else is seen.
LEMMA AloneNext ==
    ASSUME AloneInv, [A!Next]_history
    PROVE  /\ AloneInv'
           /\ \/ A!Log' = A!Log
              \/ \E s \in 1 .. AloneRecorded :
                   A!Log' = Promised!Newest(Append(A!Log, s), AloneEntries)
  <1> DEFINE p == "alone"
             x == recording[p]
             Kept == \/ A!Log' = A!Log
                     \/ \E s \in 1 .. AloneRecorded :
                          A!Log' = Promised!Newest(Append(A!Log, s), AloneEntries)
  <1>1. /\ AloneTypes /\ file \in Lines /\ file # <<>> /\ recorded \in Nat
        /\ pc \in [{p} -> Places] /\ recording \in [{p} -> Nat] /\ x \in Nat
        /\ attached \in [{p} -> BOOLEAN] /\ kept \in [{p} -> Seq(Nat)]
    BY DEF AloneInv, AloneTypes
  <1>2. A!Entries \in Seq(Nat) /\ Len(A!Entries) \in Nat
    <2>1. H!EntriesOf(file) \in Seq(Nat)
      BY <1>1, ReadsAll DEF Reads
    <2> QED
      BY <2>1, ReadAlike DEF A!Entries
  <1>3. ASSUME file' = file
        PROVE  A!Entries' = A!Entries /\ A!TooLong' = A!TooLong /\ A!Newest' = A!Newest
               /\ A!Log' = A!Log
    BY <1>3, LogStays DEF A!Entries
  <1>4. CASE A!Start(p) \/ A!Receive(p) \/ A!Quit(p)
    <2>1. /\ pc[p] \in {"off", "idle"} /\ pc' \in [{p} -> Places] /\ pc'[p] \in {"off", "idle"}
          /\ UNCHANGED <<file, recording, attached, kept, recorded, faults, clears>>
      BY <1>1, <1>4 DEF A!Start, A!Receive, A!Quit, Places
    <2> QED
      BY <1>3, <2>1 DEF AloneInv, AloneTypes
  <1>5. CASE A!Refuse(p) \/ A!Open(p)
    <2>1. /\ pc[p] = "idle" /\ recorded < AloneRecorded /\ recorded' = recorded + 1
          /\ UNCHANGED <<file, faults, clears>>
      BY <1>5 DEF A!Refuse, A!Open
    <2>2. CASE A!Refuse(p)
      <3>1. /\ pc' = [pc EXCEPT ![p] = "idle"] /\ recording' = [recording EXCEPT ![p] = 0]
            /\ attached' = [attached EXCEPT ![p] = FALSE] /\ kept' = [kept EXCEPT ![p] = <<>>]
        BY <2>2 DEF A!Refuse, A!Return, A!Torn
      <3>2. <<>> \in Seq(Nat)
        BY EmptySeq
      <3>3. AloneTypes' /\ pc'[p] = "idle"
        BY <1>1, <2>1, <3>1, <3>2 DEF AloneTypes, Places
      <3> QED
        BY <1>3, <2>1, <3>3 DEF AloneInv
    <2>3. CASE A!Open(p)
      <3>1. /\ pc' = [pc EXCEPT ![p] = "opened"] /\ kept' = kept
            /\ recording' = [recording EXCEPT ![p] = recorded + 1]
            /\ attached' = [attached EXCEPT ![p] = TRUE]
        BY <2>3 DEF A!Open
      <3>2. AloneTypes' /\ pc'[p] = "opened" /\ recording'[p] = recorded + 1 /\ attached'[p]
        BY <1>1, <2>1, <3>1 DEF AloneTypes, Places
      <3>3. recording'[p] \in 1 .. AloneRecorded
        BY <1>1, <2>1, <3>2, ClientAssumption
      <3> QED
        BY <1>3, <2>1, <3>2, <3>3 DEF AloneInv
    <2> QED
      BY <1>5, <2>2, <2>3
  <1>6. CASE A!WriteText(p)
    <2> DEFINE g == [file EXCEPT ![Len(file)] = Append(@, x)]
    <2>1. /\ pc[p] = "opened" /\ pc' = [pc EXCEPT ![p] = "texted"]
          /\ x \in 1 .. AloneRecorded /\ x \in Nat \ {0}
          /\ file[Len(file)] = <<>> /\ ~A!TooLong
          /\ UNCHANGED <<recording, attached, kept, recorded, faults, clears>>
      BY <1>6 DEF A!WriteText, AloneInv
    <2>2. attached[p]
      BY <2>1 DEF AloneInv
    <2>3. file' = g
      BY <1>6, <2>2 DEF A!WriteText, A!Write
    <2>4. g \in Lines /\ g # <<>> /\ g[Len(g)] = <<x>>
          /\ H!EntriesOf(g) = Append(H!EntriesOf(file), x)
      BY <1>1, <2>1, OpenLineSaysNothing
    <2> HIDE DEF g
    <2>5. A!Entries' = Append(A!Entries, x)
      BY <2>3, <2>4, ReadAlike DEF A!Entries
    <2>6. pc'[p] = "texted" /\ AloneTypes'
      BY <1>1, <2>1, <2>3, <2>4 DEF AloneTypes, Places
    <2>7. AloneInv'
      BY <2>1, <2>2, <2>3, <2>4, <2>6 DEF AloneInv
    <2>8. A!Log' = Promised!Newest(Append(A!Log, x), AloneEntries)
      <3> DEFINE e == Append(A!Entries, x)
      <3>1. A!Log = A!Entries
        BY <2>1 DEF A!Log
      <3>2. Len(e) \in Nat
        BY <1>2, <2>1
      <3>3. A!TooLong' <=> ~(AloneEntries = 0 \/ Len(e) <= AloneEntries)
        <4>1. A!TooLong' <=> AloneEntries # 0 /\ Len(e) > AloneEntries
          BY <2>5 DEF A!TooLong
        <4> HIDE DEF e
        <4> QED
          BY <3>2, <4>1, ClientAssumption
      <3>4. A!Log' = IF A!TooLong' THEN SubSeq(e, Len(e) - AloneEntries + 1, Len(e)) ELSE e
        BY <2>5 DEF A!Log, A!Newest
      <3> QED
        BY <3>1, <3>3, <3>4 DEF Promised!Newest
    <2> QED
      BY <2>1, <2>7, <2>8
  <1>7. CASE A!EndLine(p)
    <2>1. /\ pc[p] = "texted" /\ pc' = [pc EXCEPT ![p] = "ended"]
          /\ UNCHANGED <<recording, attached, kept, recorded, faults, clears>>
      BY <1>7 DEF A!EndLine
    <2>2. attached[p] /\ x \in 1 .. AloneRecorded
      BY <2>1 DEF AloneInv
    <2>3. file' = Append(file, <<>>)
      BY <1>7, <2>2 DEF A!EndLine
    <2>4. /\ file' \in Lines /\ file' # <<>> /\ file'[Len(file')] = <<>>
          /\ H!EntriesOf(file') = H!EntriesOf(file)
      <3>1. ~H!Whole(<<>>) /\ <<>> \in Seq(Nat)
        BY EmptySeq DEF H!Whole
      <3>2. H!EntriesOf(Append(file, <<>>)) = H!EntriesOf(file)
        BY <1>1, <3>1, ReadsOneMore
      <3> QED
        BY <1>1, <2>3, <3>1, <3>2, LastLine
    <2>5. A!Entries' = A!Entries
      BY <2>4, ReadAlike DEF A!Entries
    <2>6. pc'[p] = "ended" /\ AloneTypes'
      BY <1>1, <2>1, <2>4 DEF AloneTypes, Places
    <2>7. AloneInv'
      BY <2>1, <2>2, <2>4, <2>6 DEF AloneInv
    <2> QED
      BY <2>5, <2>7, LogStays
  <1>8. CASE A!ReadBack(p)
    <2>1. /\ pc[p] = "ended" /\ UNCHANGED <<file, recorded, faults, clears>>
          /\ file[Len(file)] = <<>>
      BY <1>8 DEF A!ReadBack, AloneInv
    <2>2. CASE A!TooLong
      <3>1. /\ pc' = [pc EXCEPT ![p] = "pruning"] /\ kept' = [kept EXCEPT ![p] = A!Newest]
            /\ UNCHANGED <<recording, attached>>
        BY <1>8, <2>2 DEF A!ReadBack
      <3>2. A!Newest \in Seq(Nat)
        BY <1>2, <2>2, ClientAssumption DEF A!Newest, A!TooLong
      <3>3. AloneTypes' /\ pc'[p] = "pruning" /\ kept'[p] = A!Newest
        BY <1>1, <2>1, <3>1, <3>2 DEF AloneTypes, Places
      <3>4. x \in 1 .. AloneRecorded /\ attached[p]
        BY <2>1 DEF AloneInv
      <3> QED
        BY <1>3, <2>1, <2>2, <3>1, <3>3, <3>4 DEF AloneInv
    <2>3. CASE ~A!TooLong
      <3>1. /\ pc' = [pc EXCEPT ![p] = "idle"] /\ recording' = [recording EXCEPT ![p] = 0]
            /\ attached' = [attached EXCEPT ![p] = FALSE] /\ kept' = [kept EXCEPT ![p] = <<>>]
        BY <1>8, <2>3 DEF A!ReadBack, A!Return, A!Torn
      <3>2. <<>> \in Seq(Nat)
        BY EmptySeq
      <3>3. AloneTypes' /\ pc'[p] = "idle"
        BY <1>1, <2>1, <3>1, <3>2 DEF AloneTypes, Places
      <3> QED
        BY <1>3, <2>1, <2>3, <3>3 DEF AloneInv
    <2> QED
      BY <2>2, <2>3
  <1>9. CASE A!Replace(p)
    <2>1. /\ pc[p] = "pruning" /\ file' = A!Lines(kept[p])
          /\ attached' = [q \in {p} |-> FALSE] /\ pc' = [pc EXCEPT ![p] = "idle"]
          /\ recording' = [recording EXCEPT ![p] = 0] /\ kept' = [kept EXCEPT ![p] = <<>>]
          /\ UNCHANGED <<recorded, faults, clears>>
      BY <1>9 DEF A!Replace, A!ReplaceBy, A!Torn
    <2>2. A!TooLong /\ kept[p] = A!Newest
      BY <2>1 DEF AloneInv
    <2> DEFINE s == A!Newest
    <2>3. /\ s \in Seq(Nat \ {0}) /\ Len(s) = AloneEntries
      <3>1. A!Entries \in Seq(Nat \ {0})
        <4>1. H!EntriesOf(file) \in Seq(Nat \ {0})
          BY <1>1, ReadsAll DEF Reads
        <4> QED
          BY <4>1, ReadAlike DEF A!Entries
      <3>2. AloneEntries \in Nat /\ AloneEntries <= Len(A!Entries)
        BY <1>2, <2>2, ClientAssumption DEF A!TooLong
      <3> DEFINE e == A!Entries
      <3>3. s = SubSeq(e, Len(e) - AloneEntries + 1, Len(e))
        BY DEF A!Newest
      <3> HIDE DEF e, s
      <3> QED
        BY <1>2, <3>1, <3>2, <3>3 DEF e
    <2> HIDE DEF s
    <2>4. /\ file' \in Lines /\ file' # <<>> /\ file'[Len(file')] = <<>>
          /\ H!EntriesOf(file') = s
      <3>1. file' = H!Lines(s)
        BY <2>1, <2>2 DEF A!Lines, H!Lines, s
      <3>2. H!Lines(s) \in Lines /\ H!EntriesOf(H!Lines(s)) = s
        BY <2>3, ReadsWhatIsKept
      <3>3. H!Lines(s) # <<>> /\ H!Lines(s)[Len(H!Lines(s))] = <<>>
        <4> DEFINE whole == [i \in DOMAIN s |-> <<s[i]>>]
        <4>1. whole \in Seq(Seq(Nat))
          <5>1. DOMAIN s = 1 .. Len(s) /\ Len(s) \in Nat
            BY <2>3
          <5>2. \A i \in 1 .. Len(s) : <<s[i]>> \in Seq(Nat)
            BY <2>3
          <5> QED
            BY <5>1, <5>2
        <4>2. H!Lines(s) = Append(whole, <<>>)
          BY DEF H!Lines
        <4> HIDE DEF whole
        <4> QED
          BY <4>1, <4>2, LastLine, EmptySeq DEF Lines
      <3> QED
        BY <3>1, <3>2, <3>3
    <2>5. A!Entries' = s
      BY <2>4, ReadAlike DEF A!Entries
    <2>6. ~A!TooLong'
      BY <2>3, <2>5, ClientAssumption DEF A!TooLong
    <2>7. A!Log = s /\ A!Log' = s
      BY <2>2, <2>5, <2>6 DEF A!Log, s
    <2>8. AloneTypes' /\ pc'[p] = "idle"
      <3>1. <<>> \in Seq(Nat)
        BY EmptySeq
      <3> QED
        BY <1>1, <2>1, <2>4, <3>1 DEF AloneTypes, Places
    <2> QED
      BY <2>4, <2>6, <2>7, <2>8 DEF AloneInv
  <1>10. ~A!Clear /\ ~A!Fail(p) /\ ~A!Crash(p)
    BY <1>1 DEF A!Clear, A!Fail, A!Crash, A!Fault, AloneTypes
  <1>11. CASE UNCHANGED history
    <2>1. UNCHANGED <<file, pc, recording, attached, kept, recorded, faults, clears>>
      BY <1>11 DEF history
    <2> QED
      BY <1>3, <2>1 DEF AloneInv, AloneTypes
  <1>12. A!Next \/ UNCHANGED history
    OBVIOUS
  <1>13. A!Next => \/ A!Start(p) \/ A!Receive(p) \/ A!Quit(p) \/ A!Refuse(p) \/ A!Open(p)
                   \/ A!WriteText(p) \/ A!EndLine(p) \/ A!ReadBack(p) \/ A!Replace(p)
    BY <1>10 DEF A!Next
  <1> QED
    BY <1>4, <1>5, <1>6, <1>7, <1>8, <1>9, <1>11, <1>12, <1>13

\* A session that has the file to itself, and whose calls do not fail, keeps what it was
\* promised over every restart: the newest history.max_entries statements, oldest first.  The
\* text of a statement is the step that keeps it; its end of line, the pruning and what the
\* session reads change nothing that is promised (history.rs:320).
THEOREM OneUserIsPromised == Spec => KeepsTheNewest
  <1> DEFINE Inv == part = "alone" => AloneInv
             told_log == IF part = "alone" THEN A!Log ELSE <<>>
  <1>1. Init => Inv /\ Promised!Init
    BY AloneInit DEF Init, Promised!Init
  <1>2. Inv /\ [Next]_vars => Inv' /\ [Promised!Next]_told_log
    <2> SUFFICES ASSUME Inv, [Next]_vars PROVE Inv' /\ [Promised!Next]_told_log
      OBVIOUS
    <2>1. part' = part
      BY DEF Next, vars
    <2>2. CASE part = "alone"
      <3>1. [A!Next]_history
        BY <2>2 DEF Next, vars
      <3>2. told_log = A!Log /\ told_log' = A!Log'
        BY <2>1, <2>2
      <3> QED
        BY <2>1, <2>2, <3>1, <3>2, AloneNext DEF Promised!Next, Promised!Keep
    <2>3. CASE part # "alone"
      BY <2>1, <2>3
    <2> QED
      BY <2>2, <2>3
  <1> QED
    BY <1>1, <1>2, PTL DEF Spec, KeepsTheNewest, Promised!Spec
=============================================================================
