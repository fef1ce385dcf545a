------------------------------ MODULE Execution ------------------------------
(***************************************************************************)
(* One run of a buffer on a session (postgres/session.rs): its statements  *)
(* are sent one after the other, their rows kept within the row cap and    *)
(* the allowance of the whole run (query/result.rs,                        *)
(* query/result/retention_budget.rs), and the transaction looked at in the *)
(* end.  Rows that are streamed to a file instead are in Exports.          *)
(*                                                                         *)
(* A statement is what the server does of it.  A row, and a description,   *)
(* is the number of bytes it is charged.  A cancel request may reach the   *)
(* server while any request is being answered, and fails that request; the *)
(* connection may close at any time.                                       *)
(***************************************************************************)
EXTENDS Integers, Sequences, SequencesExt

CONSTANTS
    Buffer,        \* the buffers that are run: sequences of statements
    Cap,           \* the row caps
    Limit,         \* RETAINED_RESULT_DATA_BYTES
    ValueLimit,    \* a row of more bytes has a cell over MAX_RETAINED_VALUE_BYTES
    MaxTroubles    \* bound on cancelled requests and lost connections

VARIABLES
    buffer, bound, cap,  \* what is run, whether values are bound to it, the row cap
    at, index,           \* what the session waits for, for which statement
    server,              \* alive, its transaction, standard_conforming_strings
    arrived,             \* the rows of the statement that have arrived
    set,                 \* the result set the statement has so far
    budget,              \* what is charged, and whether data is still admitted
    results,             \* the statements that ran: their result sets
    outcome,             \* the status, the transaction and the words that are reported
    misread,             \* what was done with a bound statement while the server reads
                         \* backslashes in literals, for the properties only
    troubles

vars == <<buffer, bound, cap, at, index, server, arrived, set, budget, results, outcome,
          misread, troubles>>
run == <<buffer, bound, cap>>

None == [kind |-> "none"]
Statement == buffer[index]

\* ResultSet::new() and ResultSet::unavailable()
NewSet == [kind |-> "set", rows |-> <<>>, seen |-> 0, retention |-> "complete", typed |-> FALSE]
UnavailableSet == [NewSet EXCEPT !.retention = "unavailable"]

Init ==
    /\ buffer \in Buffer /\ bound \in BOOLEAN /\ cap \in Cap
    /\ at = (IF buffer = <<>> THEN "probe" ELSE IF bound THEN "check" ELSE "send")
    /\ index = 1
    /\ server \in [alive : {TRUE}, transaction : {"autocommit", "open", "failed"},
                   conforming : BOOLEAN]
    /\ arrived = <<>> /\ set = None
    /\ budget = [charged |-> 0, closed |-> FALSE]
    /\ results = <<>>
    /\ outcome = [status |-> "succeeded", transaction |-> "unknown", prose |-> FALSE]
    /\ misread = {} /\ troubles = 0

-----------------------------------------------------------------------------
\* What the server does with a request that fails.
Aborted == [server EXCEPT !.transaction = IF @ = "autocommit" THEN @ ELSE "failed"]

\* from_query_error(): the kind of an error, and whether the server's words are told.
QueryError(cause) ==
    [kind  |-> CASE cause = "refused" -> "query" [] cause = "cancel_request" -> "cancelled"
                 [] cause = "closed" -> "connection",
     prose |-> cause # "closed"]

\* from_parameterized_query_error(): its words may quote a value that was bound.
ParameterizedError(cause) == [QueryError(cause) EXCEPT !.prose = FALSE]
ErrorOf(cause) == IF bound THEN ParameterizedError(cause) ELSE QueryError(cause)

\* What the client itself finds wrong: values that do not fit, a cell that is too large.
OwnError == [kind |-> "query", prose |-> FALSE]

\* failed_execution(): the run ends, with the statements before this one.
StopWith(error) ==
    LET status == CASE error.kind = "cancelled" -> "cancelled"
                    [] error.kind = "connection" \/ ~server.alive -> "connection_lost"
                    [] OTHER -> "failed"
    IN /\ outcome' = [status |-> status, transaction |-> "unknown", prose |-> error.prose]
       /\ at' = IF status = "connection_lost" THEN "done" ELSE "probe"
       /\ set' = None
       /\ UNCHANGED <<run, index, arrived, budget, results>>

Waiting == {"check", "send", "rows", "describe", "probe"}

Refused ==
    /\ server.transaction = "failed"
    /\ at = "send" => Statement.does # "end"

\* require_parameter_semantics(), before every statement that values were bound to; they
\* are bound once it has answered for the first, which may fail.
Check ==
    /\ at = "check" /\ server.alive
    /\ \/ server.transaction = "failed" /\ StopWith(ErrorOf("refused"))
       \/ /\ server.transaction # "failed" /\ (~server.conforming \/ index = 1)
          /\ StopWith(OwnError)
       \/ /\ server.transaction # "failed" /\ server.conforming
          /\ at' = "send"
          /\ UNCHANGED <<run, index, arrived, set, budget, results, outcome>>
    /\ UNCHANGED <<server, misread, troubles>>

\* Text that values were bound to is quoted for a server that reads no backslashes.
Misreads(what) == misread' = IF bound /\ ~server.conforming THEN misread \cup {what} ELSE misread

\* A statement is sent, and the server carries it out.
Effect ==
    CASE Statement.does = "begin" -> [server EXCEPT !.transaction = "open"]
      [] Statement.does = "end"   -> [server EXCEPT !.transaction = "autocommit"]
      [] Statement.does = "set"   -> [server EXCEPT !.conforming = ~@]
      [] OTHER                    -> server

Send ==
    /\ at = "send" /\ server.alive
    /\ Misreads("sent")
    /\ IF Refused \/ Statement.does = "fail"
       THEN server' = Aborted /\ StopWith(ErrorOf("refused"))
       ELSE /\ server' = Effect
            /\ at' = "rows" /\ arrived' = <<>> /\ set' = None
            /\ UNCHANGED <<run, index, budget, results, outcome>>
    /\ UNCHANGED troubles

-----------------------------------------------------------------------------
\* Fault: what does not fit is refused, and what comes after it is looked at again.
admit_again(charge) ==
    IF budget.charged + charge <= Limit
    THEN [budget EXCEPT !.charged = @ + charge] ELSE budget

\* admit_data(): once something did not fit, nothing does.
admit_data(charge) ==
    IF budget.closed \/ budget.charged + charge > Limit
    THEN [budget EXCEPT !.closed = TRUE]
    ELSE [budget EXCEPT !.charged = @ + charge]

Admitted(b) == b.charged # budget.charged

\* retain_description()
Describe(b) == IF Admitted(b) THEN NewSet ELSE UnavailableSet

RowDescription ==
    /\ at = "rows" /\ set = None /\ Statement.names # 0
    /\ budget' = admit_data(Statement.names)
    /\ set' = Describe(budget')
    /\ UNCHANGED <<run, at, index, server, arrived, results, outcome, misread, troubles>>

\* discard_row(): the row is counted, and the first cause of a loss is kept.
Discarded(cause) ==
    [set EXCEPT !.seen = @ + 1,
                !.retention = IF @ = "complete" THEN cause ELSE @]

Kept(row) == [set EXCEPT !.seen = @ + 1, !.rows = Append(@, row)]

\* retain_buffered_row(): a value too large ends the run although the server goes on.
Row ==
    /\ at = "rows" /\ set # None /\ Len(arrived) < Len(Statement.rows)
    /\ LET row == Statement.rows[Len(arrived) + 1]
           b   == admit_data(row)
       IN IF set.retention # "unavailable" /\ Len(set.rows) < cap /\ ~budget.closed
             /\ row > ValueLimit
          THEN StopWith(OwnError)
          ELSE /\ arrived' = Append(arrived, row)
               /\ IF set.retention = "unavailable"
                  THEN set' = Discarded("unavailable") /\ UNCHANGED budget
                  ELSE IF Len(set.rows) >= cap
                  THEN set' = Discarded("row_cap") /\ UNCHANGED budget
                  ELSE /\ budget' = b
                       /\ set' = IF Admitted(b) THEN Kept(row) ELSE Discarded("data_limit")
               /\ UNCHANGED <<run, at, index, results, outcome>>
    /\ UNCHANGED <<server, misread, troubles>>

\* The statement ran.  The types of its columns are asked for when they could be kept.
Complete ==
    /\ at = "rows"
    /\ Statement.names # 0 => set # None
    /\ Len(arrived) = Len(Statement.rows)
    /\ at' = IF set # None /\ set.retention # "unavailable" /\ ~budget.closed
             THEN "describe" ELSE "next"
    /\ UNCHANGED <<run, index, server, arrived, set, budget, results, outcome, misread, troubles>>

\* describe_columns(): the same text is sent once more, to be parsed, whatever the statement
\* has changed.  That may fail, and fails the transaction with it; names that differ and
\* types that do not fit are left out.
DescribeColumns ==
    /\ at = "describe" /\ server.alive /\ at' = "next"
    /\ Misreads("described")
    /\ \/ server' = Aborted /\ UNCHANGED <<set, budget>>
       \/ UNCHANGED <<server, set, budget>>
       \/ /\ UNCHANGED server
          /\ IF budget.charged + 1 <= Limit
             THEN /\ budget' = [budget EXCEPT !.charged = @ + 1]
                  /\ set' = [set EXCEPT !.typed = TRUE]
             ELSE UNCHANGED <<set, budget>>
    /\ UNCHANGED <<run, index, arrived, results, outcome, troubles>>

\* Fault: the setting is looked at once, before the first statement.
NextUnchecked ==
    /\ at = "next"
    /\ results' = Append(results, set)
    /\ set' = None /\ arrived' = <<>>
    /\ IF index = Len(buffer) THEN at' = "probe" /\ UNCHANGED index
                              ELSE index' = index + 1 /\ at' = "send"
    /\ UNCHANGED <<run, server, budget, outcome, misread, troubles>>

NextStatement ==
    /\ at = "next"
    /\ results' = Append(results, set)
    /\ set' = None /\ arrived' = <<>>
    /\ IF index = Len(buffer)
       THEN at' = "probe" /\ UNCHANGED index
       ELSE index' = index + 1 /\ at' = IF bound THEN "check" ELSE "send"
    /\ UNCHANGED <<run, server, budget, outcome, misread, troubles>>

\* transaction_state(): the server's answer, or its refusal, tells.
Probe ==
    /\ at = "probe" /\ server.alive /\ at' = "done"
    /\ outcome' = [outcome EXCEPT !.transaction = server.transaction]
    /\ UNCHANGED <<run, index, server, arrived, set, budget, results, misread, troubles>>

-----------------------------------------------------------------------------
Trouble == troubles < MaxTroubles /\ troubles' = troubles + 1

\* What is left of the run when the columns, or the transaction, are not told.
GoOn ==
    /\ at' = IF at = "describe" THEN "next" ELSE "done"
    /\ UNCHANGED <<run, index, arrived, set, budget, results, outcome>>

\* A cancel request reaches the server while it answers one that takes its time.
Cancelled ==
    /\ Trouble
    /\ at \in Waiting /\ server.alive
    /\ at = "send" => Statement.does \in {"read", "fail"}
    /\ at = "rows" => Statement.rows # <<>>
    /\ server' = Aborted
    /\ CASE at = "send" -> Misreads("sent")
         [] at = "describe" -> Misreads("described")
         [] OTHER -> UNCHANGED misread
    /\ IF at \in {"describe", "probe"} THEN GoOn ELSE StopWith(ErrorOf("cancel_request"))

\* The connection closes; what had arrived before can still be read.
Lost ==
    /\ Trouble
    /\ at # "done" /\ server.alive
    /\ server' = [server EXCEPT !.alive = FALSE]
    /\ UNCHANGED <<run, at, index, arrived, set, budget, results, outcome, misread>>

\* Then whatever the session waits for fails.
Broken ==
    /\ at \in Waiting /\ ~server.alive
    /\ IF at \in {"describe", "probe"} THEN GoOn ELSE StopWith(ErrorOf("closed"))
    /\ UNCHANGED <<server, misread, troubles>>

Next ==
    \/ Check \/ Send \/ RowDescription \/ Row \/ Complete \/ DescribeColumns
    \/ NextStatement \/ Probe \/ Cancelled \/ Lost \/ Broken

Spec == Init /\ [][Next]_vars

-----------------------------------------------------------------------------
\* The results of the statements that ran, with the one that is running, and the rows that
\* arrived for each.
Sets == IF at \in {"rows", "describe", "next"} THEN Append(results, set) ELSE results
Received(i) == IF i <= Len(results) THEN buffer[i].rows ELSE arrived

\* What the rows of a result, and those of all the results, are charged.
Total(charges) ==
    LET sum[n \in 0 .. Len(charges)] == IF n = 0 THEN 0 ELSE sum[n - 1] + charges[n]
    IN sum[Len(charges)]
Charge(s) == IF s = None THEN 0 ELSE Total(s.rows)
Charges(sets) == [i \in DOMAIN sets |-> Charge(sets[i])]

\* What a result says of the rows that arrived for it.
TellsOf(s, received) ==
    /\ IsPrefix(s.rows, received) /\ Len(s.rows) <= cap
    /\ s.seen = Len(received)
    /\ CASE s.retention = "complete"    -> Len(s.rows) = s.seen
         [] s.retention = "row_cap"     -> Len(s.rows) = cap /\ s.seen > cap
         [] s.retention = "data_limit"  -> Len(s.rows) < s.seen /\ budget.closed
         [] s.retention = "unavailable" -> s.rows = <<>> /\ budget.closed

\* What a result set says it is missing is what it is missing, over all the statements
\* of a run: its rows are the first that arrived, with no gap after one that did not
\* fit (retention_budget.rs:31), every row that arrived is counted, and fewer are there
\* than arrived exactly when it says why (result.rs:555).  The transaction it reports in
\* the end is the one the server has, or is not known; also when asking for the types of
\* a result failed the transaction of a run that succeeded (session.rs:887).  No failure is
\* told in the server's words when values were bound, which they may quote (error.rs:166).
RunIsToldTruly ==
    /\ bound => ~outcome.prose
    /\ at = "done" => outcome.transaction \in {server.transaction, "unknown"}
    /\ Total(Charges(Sets)) <= Limit
    /\ \A i \in DOMAIN Sets : Sets[i] # None => TellsOf(Sets[i], Received(i))

\* A statement that values were bound to is never carried out by a server that reads
\* backslashes in its literals, also when an earlier statement of the buffer changed the
\* setting (session.rs:677).  To be described it is sent to such a server, when it returned
\* rows and changed the setting itself: that parse carries nothing out (session.rs:881).
BoundTextMeetsItsLexer == "sent" \notin misread
=============================================================================
