------------------------------ MODULE ClientMC ------------------------------
(***************************************************************************)
(* Values for Client.                                                      *)
(***************************************************************************)
EXTENDS Client, TLC

CONSTANTS s1, s2, p1, p2

\* Two sessions, and two processes, are alike.
Alike == Permutations({s1, s2}) \cup Permutations({p1, p2})

\* Execution: what a statement does, what describing its result costs, its rows.
Statements(does, names, rows) == [does |-> does, names |-> names, rows |-> rows]
Read(names, rows) == Statements("read", names, rows)
Plain(does) == Statements(does, 0, <<>>)

Buffers ==
    {<<>>,
     <<Plain("begin"), Read(1, <<1, 2, 1>>)>>,
     <<Read(1, <<3, 1, 1>>), Read(1, <<1, 1>>)>>,
     <<Plain("set"), Read(1, <<1, 5>>)>>,
     <<Statements("set", 1, <<1>>), Read(1, <<1>>)>>,
     <<Plain("begin"), Plain("fail"), Plain("end")>>,
     <<Read(7, <<1, 1>>), Read(1, <<1>>)>>,
     <<Read(1, <<1, 2, 3, 1>>), Plain("end"), Read(1, <<2, 1>>)>>}

\* LineClients: complete statements, parts of them, and lines that are in none.
TypedLines ==
    {<<"read", ";">>, <<"write">>, <<"drop", ":name", ";">>, <<"quote">>, <<";">>, <<"--">>,
     <<>>, <<"read", ";", "drop", ";">>}

\* LocalFiles
Handwriting == {<<"old", "a">>, <<"old", "b">>}

\* Targets: what the layers ask for.  None of them says everything.
none == [x \in {} |-> x]

AskedFor ==
    {[options |-> o, target |-> t, profile |-> p] :
        o \in {none, "read_only" :> "yes", "host" :> "far" @@ "auth" :> "cloud",
               "sslmode" :> "prefer", "sslmode" :> "verify-ca"},
        t \in {none, "host" :> "far" @@ "password" :> "in text", "@" :> "prod", "@" :> "gone",
               "service" :> "team" @@ "other" :> "x", "passfile" :> "mine" @@ "user" :> "you",
               "security" :> "x"},
        p \in {"none", "prod"}}

Profs ==
    "prod" :> ("host" :> "far" @@ "auth" :> "cloud" @@ "read_only" :> "yes")
    @@ "near" :> ("host" :> "/socket" @@ "sslmode" :> "require" @@ "auth" :> "unknown")
    @@ "odd" :> ("host" :> "far" @@ "sslmode" :> "odd")

Servs == "team" :> ("host" :> "far" @@ "user" :> "team" @@ "passfile" :> "mine")

Envs ==
    {none, "password" :> "in env", "service" :> "team" @@ "passfile" :> "mine",
     "service" :> "lost", "sslmode" :> "odd", "sslmode" :> "disable", "host" :> "/socket" @@ "user" :> "you"}

Files ==
    "default" :> [owned |-> TRUE,
                  lines |-> <<[host |-> "localhost", user |-> "*", password |-> "near"],
                              [host |-> "*", user |-> "me", password |-> "any"]>>]
    @@ "mine" :> [owned |-> FALSE,
                  lines |-> <<[host |-> "*", user |-> "*", password |-> "any"]>>]
=============================================================================
