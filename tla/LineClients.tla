----------------------------- MODULE LineClients -----------------------------
(***************************************************************************)
(* The clients without a screen: the plain client, which reads lines and   *)
(* runs the statements they make up (cli/plain.rs, cli/prompt.rs), and     *)
(* `query`, which runs one text and leaves (cli/mod.rs).                   *)
(*                                                                         *)
(* A line is the sequence of what the lexer tells apart in it: words,      *)
(* named by what the statement they begin does, "quote" for what opens or  *)
(* closes a literal, a comment to its end, ";" and ":name" for a           *)
(* parameter.  What follows a comment in its line belongs to the comment.  *)
(* A meta-command in a statement that it does not belong to is the line    *)
(* <<"command">>.                                                          *)
(* How a request runs is in Execution; here it ends in one way or another. *)
(***************************************************************************)
EXTENDS Integers, Sequences, SequencesExt

CONSTANTS
    Typed,      \* the lines that are typed, and the texts that `query` is given: a comment
                \* is the last thing in its line
    Metas,      \* meta-commands
    MaxLines    \* bound on the lines of a session

VARIABLES
    way,        \* "plain" or "query", for what target, with whom to ask
    at,         \* what the client waits for
    reader,     \* the lines of the statement being typed
    list,       \* the lines the printed completions are for
    sql,        \* the lines of the statement that is to be run
    tail,       \* behind the last token there may be blanks ("open"), or there is the end
                \* of its line ("flush") or none yet ("cut")
    server,     \* whether the session is alive
    exit,       \* the exit code
    lines,      \* lines read so far
    \* What has happened, for the properties only.
    typed,      \* how the lines of the statement read as they were typed and completed
    answered,   \* the answer to the question asked before the statement is sent
    ran         \* how the last request ended

vars == <<way, at, reader, list, sql, tail, typed, server, exit, lines, answered, ran>>

Nothing == <<"nothing">>

-----------------------------------------------------------------------------
\* split(), classify(): the words of the statements of a text.

\* Reading on past one token: whether a literal or a comment is open, whether the
\* statement has anything in it, what all of them do, whether one was ended, and whether
\* one has a parameter.  What begins with no word that is known is taken to write.
Start == [open |-> FALSE, comment |-> FALSE, body |-> FALSE, does |-> {}, ended |-> FALSE,
          named |-> FALSE]
Words == {"read", "write", "drop"}

Past(token, s) ==
    IF s.comment THEN s
    ELSE CASE token = "quote" -> [s EXCEPT !.open = ~@, !.body = TRUE,
                                           !.does = IF s.body THEN @ ELSE @ \cup {"write"}]
           [] token = ";" /\ ~s.open -> [s EXCEPT !.ended = @ \/ s.body, !.body = FALSE]
           [] token = "--" /\ ~s.open -> [s EXCEPT !.comment = TRUE]
           [] token \in Words /\ ~s.open -> [s EXCEPT !.does = IF s.body THEN @ ELSE @ \cup {token},
                                                     !.body = TRUE]
           [] OTHER -> [s EXCEPT !.body = TRUE,
                                 !.does = IF s.body \/ s.open THEN @ ELSE @ \cup {"write"},
                                 !.named = @ \/ (token = ":name" /\ ~s.open)]

PastTokens(line, s) ==
    LET past[n \in 0 .. Len(line)] == IF n = 0 THEN s ELSE Past(line[n], past[n - 1])
    IN past[Len(line)]

\* A comment ends with its line.
PastLine(line, s) == [PastTokens(line, s) EXCEPT !.comment = FALSE]

Lexed(text) ==
    LET past[n \in 0 .. Len(text)] ==
            IF n = 0 THEN Start ELSE PastLine(text[n], past[n - 1])
    IN past[Len(text)]

Impact(text) ==
    CASE "drop" \in Lexed(text).does  -> "destroys"
      [] "write" \in Lexed(text).does /\ "drop" \notin Lexed(text).does -> "writes"
      [] OTHER -> "reads"

HasNames(text) == Lexed(text).named
CommentOnly(text) == ~Lexed(text).body /\ ~Lexed(text).ended
OnlyBlank(text) == \A i \in DOMAIN text : text[i] = <<>>

\* Reader::feed(): the last of the statements was ended by a semicolon.
IsComplete(text) == Lexed(text).ended /\ ~Lexed(text).body

EndsWith(text, tokens) ==
    ~OnlyBlank(text) /\ Last(text) # <<>> /\ Last(Last(text)) \in tokens

\* completion::context() at the end of the last line: right behind a literal counts as in
\* it, and a blank may follow.
InLiteralOrComment(text) ==
    \/ Lexed(text).open \/ EndsWith(text, {"--"})
    \/ tail # "open" /\ EndsWith(text, {"quote"})
MayBeInLiteralOrComment(text) == Lexed(text).open \/ EndsWith(text, {"--", "quote"})

-----------------------------------------------------------------------------
Ways == [client : {"plain", "query"}, production : BOOLEAN, cloud : BOOLEAN, terminal : BOOLEAN,
         allow : BOOLEAN, named : BOOLEAN]

Init ==
    /\ way \in {w \in Ways : (w.client = "plain" => ~w.allow /\ ~w.named)
                             /\ (w.client = "query" => ~w.terminal /\ ~w.cloud)}
    /\ at = IF way.client = "plain" THEN "connect" ELSE "read"
    /\ reader = <<>> /\ list = Nothing /\ sql = <<>> /\ tail = "open" /\ typed = Start
    /\ server = FALSE /\ exit = "none" /\ lines = 0
    /\ answered = "nothing" /\ ran = "nothing"

Leave(code) == at' = "left" /\ exit' = code
Connected == server' = TRUE

\* connect_or_ask(): a refused password is asked for once, of a person, and never when
\* a provider's credential was refused.
Connect ==
    /\ at = "connect"
    /\ \/ Connected /\ at' = "line" /\ UNCHANGED exit
       \/ /\ UNCHANGED server
          /\ IF way.terminal /\ ~way.cloud THEN at' = "password" /\ UNCHANGED exit
                                           ELSE Leave("authentication")
       \/ Leave("connection") /\ UNCHANGED server
    /\ UNCHANGED <<way, reader, list, sql, tail, typed, lines, answered, ran>>

\* read_password(): no answer leaves the first refusal.
Password ==
    /\ at = "password"
    /\ \/ Connected /\ at' = "line" /\ UNCHANGED exit
       \/ Leave("authentication") /\ UNCHANGED server
    /\ UNCHANGED <<way, reader, list, sql, tail, typed, lines, answered, ran>>

-----------------------------------------------------------------------------
Ask == at = "line" /\ lines < MaxLines /\ lines' = lines + 1

\* What becomes of a complete statement: asked about, given values, or run.
Values(text) == IF HasNames(text) THEN "values" ELSE "running"

Guarded(text) == way.production /\ Impact(text) # "reads"

\* Fault: a list of completions stays while the statement goes on.
StillOffered == list

\* A list is of the lines it was printed for: a line of SQL ends it.
Outdated == Nothing

\* What may be put in place of a word, and begins a line.
Candidates == Words \cup {"word"}

\* The text when a line is added.  Behind a candidate that ends no line, the line goes on
\* with it, and what it begins with may become one word with the candidate.
Fed(line) ==
    IF tail # "cut" THEN {Append(reader, line)}
    ELSE LET one == IF line # <<>> /\ Head(line) \in Candidates THEN Candidates ELSE {}
         IN {<<Last(reader) \o line>>} \cup {<< <<word>> \o Tail(line) >> : word \in one}

\* A line of SQL.  Nothing has been typed while there is no more than blanks.
Feed(line) ==
    /\ Ask
    /\ IF reader = <<>> /\ OnlyBlank(<<line>>)
       THEN UNCHANGED <<at, reader, list, sql, tail, typed>>
       ELSE \E text \in Fed(line) :
              /\ IF IsComplete(text)
                 THEN /\ reader' = <<>> /\ sql' = text /\ list' = Nothing
                      /\ at' = IF Guarded(text) THEN "confirm" ELSE Values(text)
                 ELSE reader' = text /\ list' = Outdated /\ UNCHANGED <<at, sql>>
              /\ tail' = "open"
              /\ typed' = IF reader = <<>> \/ tail = "cut" THEN Lexed(text)
                          ELSE PastLine(line, typed)
    /\ answered' = "nothing"
    /\ UNCHANGED <<way, server, exit, ran>>

\* A command is one at the start of a statement; completing and formatting are also
\* commands within one, outside its literals and comments.  Otherwise it is SQL.
IsCommand(meta) ==
    \/ reader = <<>>
    \/ /\ meta \in {"complete", "use", "format"}
       /\ \/ ~InLiteralOrComment(reader)
          \/ meta = "format" /\ CommentOnly(reader)

MetaAsSql(meta) ==
    /\ reader # <<>>
    /\ meta \in {"complete", "use", "format"} => MayBeInLiteralOrComment(reader)
    /\ ~(meta = "format" /\ CommentOnly(reader))
    /\ Feed(<<"command">>)

Meta(meta) ==
    /\ IsCommand(meta) /\ Ask
    /\ IF meta = "quit" THEN Leave("success") ELSE UNCHANGED <<at, exit>>
    /\ CASE meta = "complete" -> list' = reader
         [] meta = "format"   -> list' = Nothing
         [] OTHER             -> UNCHANGED list
    /\ UNCHANGED <<way, reader, sql, tail, typed, server, answered, ran>>

\* scan(): nothing is formatted while a literal is open.
IsFormattable(text) == ~CommentOnly(text) /\ ~Lexed(text).open

\* Renderer: a line ends behind a comment and behind a semicolon, and begins before the
\* word of a clause.  Spaces, and where the lines of a literal end, are not modelled.
EndsItsLine(token) == token \in {"--", ";"}
BeginsItsLine(token) == token \in {"read", "write"}

\* Fault: a comment goes on with what follows it.
JoinsComments(done, token) ==
    IF done = <<>> \/ Last(Last(done)) = ";" \/ BeginsItsLine(token)
    THEN Append(done, <<token>>)
    ELSE Append(Front(done), Append(Last(done), token))

Rendered(done, token) ==
    IF done = <<>> \/ EndsItsLine(Last(Last(done))) \/ BeginsItsLine(token)
    THEN Append(done, <<token>>)
    ELSE Append(Front(done), Append(Last(done), token))

RenderedLine(done, line) ==
    LET render[n \in 0 .. Len(line)] == IF n = 0 THEN done ELSE Rendered(render[n - 1], line[n])
    IN render[Len(line)]

\* format_sql()
Reformatted(text) ==
    LET render[n \in 0 .. Len(text)] ==
            IF n = 0 THEN <<>> ELSE RenderedLine(render[n - 1], text[n])
    IN render[Len(text)]

\* Behind no line end there is one word, which formatting leaves as it is.
Format ==
    /\ IsCommand("format") /\ Ask
    /\ reader # <<>> /\ tail # "cut" /\ IsFormattable(reader)
    /\ reader' = Reformatted(reader) /\ tail' = "flush" /\ list' = Nothing
    /\ UNCHANGED <<way, at, sql, typed, server, exit, answered, ran>>

\* What stands in place of a token that the word before the cursor is, or ends.
Replacements(token) ==
    CASE token \in Candidates -> Candidates
      [] token = ":name" -> {":name", "word"}
      [] token = "command" -> {"command"}
      [] OTHER -> {}

\* A line with a candidate at its end: a word of its own, unless the line ends in one.
Completed(line) ==
    LET replaced == IF line = <<>> THEN {} ELSE Replacements(Last(line))
        added    == IF tail = "open" \/ replaced = {} THEN Candidates ELSE {}
    IN {Append(Front(line), token) : token \in replaced}
       \cup {Append(line, token) : token \in added}

\* apply_completion(): into an empty buffer goes the candidate alone, which no line ends.
Use ==
    /\ IsCommand("use") /\ Ask
    /\ list # Nothing
    /\ IF reader = <<>>
       THEN /\ \E token \in Candidates : reader' = << <<token>> >>
            /\ tail' = "cut"
       ELSE /\ \E line \in Completed(Last(reader)) : reader' = Append(Front(reader), line)
            /\ tail' = IF tail = "cut" THEN "cut" ELSE "flush"
    /\ typed' = Lexed(reader')
    /\ list' = Nothing
    /\ UNCHANGED <<way, at, sql, server, exit, answered, ran>>

\* Ctrl+D, or the end of what is piped in.
EndOfInput ==
    /\ at = "line"
    /\ Leave("success")
    /\ UNCHANGED <<way, reader, list, sql, tail, typed, server, lines, answered, ran>>

-----------------------------------------------------------------------------
\* confirmation_accepted(): the next line, whatever it is, is the answer.
Answers == {"yes", "database", "other", "end of input"}
Accepts(text, answer) == answer = IF Impact(text) = "destroys" THEN "database" ELSE "yes"

Confirm(answer) ==
    /\ at = "confirm"
    /\ answered' = answer
    /\ at' = IF Accepts(sql, answer) THEN Values(sql) ELSE "line"
    /\ UNCHANGED <<way, reader, list, sql, tail, typed, server, exit, lines, ran>>

\* prompt_parameters(): one hidden answer for each name, or nothing is sent.
GiveValues ==
    /\ at = "values"
    /\ at' = IF way.terminal THEN "running" ELSE "line"
    /\ UNCHANGED <<way, reader, list, sql, tail, typed, server, exit, lines, answered, ran>>

CancelValues ==
    /\ at = "values" /\ way.terminal
    /\ at' = "line"
    /\ UNCHANGED <<way, reader, list, sql, tail, typed, server, exit, lines, answered, ran>>

-----------------------------------------------------------------------------
\* execute_cancellable(): it succeeds, fails, is cancelled by Ctrl+C, or loses the
\* connection; what it does is in Execution.
Statuses == {"succeeded", "failed", "cancelled", "connection_lost"}

Ends(status) ==
    /\ status \in IF server THEN Statuses ELSE {"connection_lost"}
    /\ server' = (status # "connection_lost")
    /\ ran' = status

Run(status) ==
    /\ at = "running"
    /\ Ends(status)
    /\ at' = "line"
    /\ UNCHANGED <<way, reader, list, sql, tail, typed, exit, lines, answered>>

-----------------------------------------------------------------------------
\* query_command(): everything that can be refused is refused before a connection.
QueryRead(text) ==
    /\ at = "read"
    /\ sql' = text
    /\ IF OnlyBlank(text) \/ HasNames(text) # way.named
       THEN Leave("usage")
       ELSE \/ Leave("usage") \/ Leave("config")
            \/ IF Guarded(text) /\ ~way.allow THEN Leave("usage")
               ELSE at' = "open" /\ UNCHANGED exit
    /\ UNCHANGED <<way, reader, list, tail, typed, server, lines, answered, ran>>

QueryConnect ==
    /\ at = "open"
    /\ \/ Connected /\ at' = "executing" /\ UNCHANGED exit
       \/ Leave("connection") /\ UNCHANGED server
       \/ Leave("authentication") /\ UNCHANGED server
    /\ UNCHANGED <<way, reader, list, sql, tail, typed, lines, answered, ran>>

QueryRun(status) ==
    /\ at = "executing"
    /\ Ends(status)
    /\ at' = "writing"
    /\ UNCHANGED <<way, reader, list, sql, tail, typed, exit, lines, answered>>

\* The exit code of a run whose output was written.
Code == CASE ran = "succeeded"       -> "success"
          [] ran = "failed"          -> "query"
          [] ran = "cancelled"       -> "cancelled"
          [] OTHER                   -> "connection"

\* write_query_execution(): writing may fail, for what the format cannot carry or for
\* the stream; a reader that went away is a success, however the run ended.
QueryWrite ==
    /\ at = "writing"
    /\ \E code \in {Code, "usage", "internal", "success"} : Leave(code)
    /\ UNCHANGED <<way, reader, list, sql, tail, typed, server, lines, answered, ran>>

Next ==
    \/ Connect \/ Password \/ EndOfInput \/ Format \/ Use
    \/ \E line \in Typed : Feed(line)
    \/ \E meta \in Metas : Meta(meta) \/ MetaAsSql(meta)
    \/ \E answer \in Answers : Confirm(answer)
    \/ GiveValues \/ CancelValues
    \/ \E status \in Statuses : Run(status) \/ QueryRun(status)
    \/ \E text \in {<<line>> : line \in Typed} : QueryRead(text)
    \/ QueryConnect \/ QueryWrite

Spec == Init /\ [][Next]_vars

-----------------------------------------------------------------------------
\* What the plain client sends is whole: no literal is left open and the last statement
\* has ended, so that a semicolon in a function's body never sends half of it
\* (plain.rs:80).  It does what the lines and the completions in it made it, however often
\* it was formatted between them (format.rs:1); a line that is glued to a candidate before
\* it was made one with it.  What a production target is asked to change was confirmed, in
\* the line after it, with the answer that this statement needs (plain.rs:455), and `query`
\* was told to allow it.
SentIsWholeAndConfirmed ==
    /\ at = "running" =>
         /\ ~Lexed(sql).open /\ IsComplete(sql) /\ Lexed(sql) = typed
         /\ Guarded(sql) => Accepts(sql, answered)
    /\ at = "executing" /\ Guarded(sql) => way.allow

\* A numbered list of completions is of the very lines it would be put into: no line,
\* formatting, accepted candidate or statement has come between (plain.rs:360).
ListIsOfTheseLines == list # Nothing => list = reader
=============================================================================
