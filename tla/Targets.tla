------------------------------ MODULE Targets ------------------------------
(***************************************************************************)
(* Where a connection goes and what it proves itself with: the profile or  *)
(* the connection string that is asked for (cli/mod.rs), the layers below  *)
(* it (connection/target.rs, service.rs), the password file (passfile.rs), *)
(* the program of an identity provider (cloud.rs), the questions the       *)
(* clients ask (cli/plain.rs, app/update.rs), and the protection of the    *)
(* session that is opened (postgres/tls.rs and session.rs).                *)
(*                                                                         *)
(* A layer is what it says: a function of some of the keywords.  The port, *)
(* the database, the certificates, the name of the application and the     *)
(* time allowed are looked up as the host is and are left out.  "other" is *)
(* a keyword that this build does not apply and "security" one that it     *)
(* must not ignore; the mode "odd" is one that nobody knows.  A server     *)
(* offers no TLS ("plain"), or a certificate of an authority that nobody   *)
(* trusts ("untrusted"), of another host ("misnamed") or its own           *)
(* ("trusted").                                                            *)
(***************************************************************************)
EXTENDS Integers, Sequences, TLC

CONSTANTS
    Asked,          \* what is asked for: options, a target and the name of a profile
    Profiles,       \* the configured profiles, by name
    Services,       \* the services of the service file, by name
    Environments,   \* what the environment says
    PasswordFiles,  \* the password files, by path
    MaxAttempts     \* bound on the connections opened

VARIABLES
    client,     \* "query", "check", "plain" or "interactive"
    asked,      \* what is asked for
    env,        \* what the environment says
    at,         \* what the client does
    args, text, \* the arguments with the profile's, and the connection string
    target,     \* the target that was resolved, with what it proves itself with
    opened,     \* the last connection that was opened: its target, what it is for, the
                \* server at its other end and the protection that is told
    failure,    \* what kind of failure was told last
    attempts

vars == <<client, asked, env, at, args, text, target, opened, failure, attempts>>

Nothing == <<>>
Says(layer, key) == key \in DOMAIN layer

\* What the first of some layers that says anything of a key says of it.
FirstOf(layers, key, otherwise) ==
    LET saying == {i \in DOMAIN layers : Says(layers[i], key)}
    IN IF saying = {} THEN otherwise
       ELSE layers[CHOOSE i \in saying : \A j \in saying : i <= j][key]

NoTarget == [host |-> "none"]
NotOpened == [target |-> NoTarget, what |-> "nothing"]
IsLocal(host) == host \in {"localhost", "/socket"}
RequiresTls(mode) == mode \in {"require", "verify-ca", "verify-full"}

Init ==
    /\ client \in {"query", "check", "plain", "interactive"}
    /\ asked \in Asked /\ env \in Environments
    /\ at = "start"
    /\ args = Nothing /\ text = Nothing /\ target = NoTarget
    /\ opened = NotOpened /\ failure = "none" /\ attempts = 0

\* should_open_connection_picker(), before the screen is taken.
Picks ==
    /\ client = "interactive"
    /\ asked.target = Nothing /\ DOMAIN asked.options = {} /\ asked.profile = "none"
    /\ DOMAIN Profiles # {}

\* The interactive client stays, with the failure on its screen; the others leave.
Failed == IF client = "interactive" THEN "failed" ELSE "left"
\* What is resolved before the screen is taken ends the client when it fails.
FailsWith(kind) ==
    /\ at' = IF attempts = 0 /\ ~Picks THEN "left" ELSE Failed
    /\ failure' = kind
Established == IF client = "interactive" THEN "connected" ELSE "left"

-----------------------------------------------------------------------------
\* The profile that is named, or "two" when a target is named besides.
Named ==
    CASE asked.profile = "none" -> IF Says(asked.target, "@") THEN asked.target["@"] ELSE "none"
      [] asked.target = Nothing -> asked.profile
      [] asked.target = ("@" :> asked.profile) -> asked.profile
      [] OTHER -> "two"

\* Profile::validate(), and the names of modes.
IsValid(profile) ==
    /\ DOMAIN profile \cap {"password", "passfile", "other"} = {}
    /\ FirstOf(<<profile>>, "sslmode", "require") # "odd"

\* apply_profile(): an option wins over the profile, but either makes it read-only.
Applied(options, profile) == options @@ profile

\* resolve_target_and_profile()
Choose ==
    /\ at = "start"
    /\ IF Picks THEN at' = "picker" /\ UNCHANGED <<args, text, failure>>
       ELSE IF \/ Named = "two"
               \/ Named # "none" /\ Named \notin DOMAIN Profiles
               \/ Named \in DOMAIN Profiles /\ ~IsValid(Profiles[Named])
       THEN FailsWith("settings") /\ UNCHANGED <<args, text>>
       ELSE /\ at' = "resolve"
            /\ args' = IF Named = "none" THEN asked.options
                       ELSE Applied(asked.options, Profiles[Named])
            /\ text' = IF Named = "none" THEN asked.target ELSE Nothing
            /\ UNCHANGED failure
    /\ UNCHANGED <<client, asked, env, target, opened, attempts>>

\* A row of the picker, later also of the one that is opened again: a profile, or
\* nothing but the layers below.  What the command line asked for is not asked again.
Pick(profile) ==
    /\ client = "interactive" /\ at \in {"picker", "failed", "ask", "connected"}
    /\ attempts < MaxAttempts
    /\ IF profile # "none" /\ ~IsValid(Profiles[profile])
       THEN at' = "failed" /\ failure' = "settings" /\ UNCHANGED <<args, text>>
       ELSE /\ at' = "resolve" /\ failure' = "none"
            /\ args' = IF profile = "none" THEN Nothing ELSE Profiles[profile]
            /\ text' = Nothing
    /\ target' = NoTarget /\ opened' = NotOpened
    /\ UNCHANGED <<client, asked, env, attempts>>

-----------------------------------------------------------------------------
ServiceName == FirstOf(<<text, env>>, "service", "none")
Service == IF ServiceName = "none" THEN Nothing ELSE Services[ServiceName]
Layers == <<text, Service, env>>

Host == FirstOf(<<args>> \o Layers, "host", "localhost")
User == FirstOf(<<args>> \o Layers, "user", "me")

\* default_sslmode(): of the host, whichever layer it is from.
Mode == FirstOf(<<args>> \o Layers, "sslmode",
                IF IsLocal(Host) THEN "prefer" ELSE "verify-full")

\* lookup(): the first line that is about this connection, in a file that only its owner
\* can read; a socket is looked up as localhost.
IsAbout(field, value) == field \in {"*", value}
LineFor(file) ==
    LET host  == IF Host = "/socket" THEN "localhost" ELSE Host
        about == {i \in DOMAIN file.lines : /\ IsAbout(file.lines[i].host, host)
                                            /\ IsAbout(file.lines[i].user, User)}
    IN IF ~file.owned \/ about = {} THEN "none"
       ELSE file.lines[CHOOSE i \in about : \A j \in about : i <= j].password

\* Its name is never taken from a service.
PasswordFile == FirstOf(<<text, env>>, "passfile", "default")
FiledPassword ==
    IF PasswordFile \in DOMAIN PasswordFiles THEN LineFor(PasswordFiles[PasswordFile]) ELSE "none"

\* The file is only read when nothing else says the password.
Password == FirstOf(Layers, "password", FiledPassword)

IsRefused ==
    \/ ServiceName # "none" /\ ServiceName \notin DOMAIN Services
    \/ \E i \in DOMAIN Layers : Says(Layers[i], "security")
    \/ Mode = "odd"

Resolved ==
    [host |-> Host, user |-> User, sslmode |-> Mode, password |-> Password,
     auth |-> FirstOf(<<args>>, "auth", "none"), read_only |-> Says(args, "read_only")]

Resolve ==
    /\ at = "resolve"
    /\ IF IsRefused
       THEN FailsWith("settings") /\ UNCHANGED target
       ELSE at' = "authenticate" /\ target' = Resolved /\ UNCHANGED failure
    /\ UNCHANGED <<client, asked, env, args, text, opened, attempts>>

-----------------------------------------------------------------------------
\* Fault: a password that is there is taken for the credential.
NeedsToken == target.auth # "none" /\ target.password = "none"

IsProvided == target.auth # "none"

\* A check first looks whether the host answers at all.
Proven == IF client = "check" THEN "reach" ELSE "connect"

\* find(), require_encryption(), fetch(): the kinds of failure.  The program may be absent,
\* not run or take too long, or fail or print nothing of use.
ProgramFailures ==
    IF target.auth = "unknown" \/ ~RequiresTls(target.sslmode) THEN {"settings"}
    ELSE {"settings", "connection", "authentication"}

\* authenticate(): the provider is one that is known, and its program is run for a
\* transport that is encrypted.
Authenticate ==
    /\ at = "authenticate"
    /\ IF ~IsProvided THEN at' = Proven /\ UNCHANGED <<target, failure>>
       ELSE \/ /\ target.auth # "unknown" /\ RequiresTls(target.sslmode)
               /\ target' = [target EXCEPT !.password = "token"]
               /\ at' = Proven /\ UNCHANGED failure
            \/ \E kind \in ProgramFailures : FailsWith(kind) /\ UNCHANGED target
    /\ UNCHANGED <<client, asked, env, args, text, opened, attempts>>

\* probe_target(): the name of the host and its port, before any credential.
Reach ==
    /\ at = "reach"
    /\ \/ at' = "connect" /\ UNCHANGED failure
       \/ at' = "left" /\ failure' = "connection"
    /\ UNCHANGED <<client, asked, env, args, text, target, opened, attempts>>

-----------------------------------------------------------------------------
\* PostgreSQL offers no TLS on a socket.
ServersAt(host) ==
    IF host = "/socket" THEN {"plain"} ELSE {"plain", "untrusted", "misnamed", "trusted"}

\* base_verifier() and NameAgnostic: the one error that verify-ca forgives is the name.
Verifies(mode, server) ==
    CASE mode = "verify-full" -> server = "trusted"
      [] mode = "verify-ca"   -> server \in {"trusted", "misnamed"}
      [] OTHER                -> TRUE

\* client_config() and the driver: a handshake that fails is not tried again without TLS.
Accepts(mode, server) ==
    IF server = "plain" THEN ~RequiresTls(mode)
    ELSE mode = "disable" \/ Verifies(mode, server)

IsEncrypted(mode, server) == mode # "disable" /\ server # "plain"

\* bootstrap(): what the server says of the session, unless it may not say it.
Tells(mode, server) ==
    IF mode = "disable" THEN {"disabled"}
    ELSE {"unknown", IF server = "plain" THEN "not negotiated" ELSE "active"}

\* The defect that connect_reported() looks for before anything else: nobody ran the
\* program of the provider.
LacksCredential(t) == t.auth # "none" /\ t.password = "none"

\* How a server that was accepted may answer; and from_connect_error(), which tells a
\* refusal of the credentials from a server that is not there.
Refusals(t) ==
    {"none", "error", "closed", "timeout", "setting"}
    \cup IF t.password = "none" THEN {"no password"} ELSE {"password", "no rule"}

KindOf(refusal) ==
    CASE refusal = "none" -> "none"
      [] refusal \in {"no password", "password", "no rule"} -> "authentication"
      [] refusal = "setting" -> "query"
      [] OTHER -> "connection"

\* connect_reported(): nothing is proved to a server that is not accepted.
Open(t) ==
    \E server \in ServersAt(t.host) :
        IF LacksCredential(t) THEN opened' = NotOpened /\ failure' = "internal"
        ELSE IF ~Accepts(t.sslmode, server) THEN opened' = NotOpened /\ failure' = "tls"
        ELSE /\ \E tells \in Tells(t.sslmode, server) :
                    opened' = [target |-> t, what |-> "session", server |-> server,
                               tells |-> tells]
             /\ \E refusal \in Refusals(t) : failure' = KindOf(refusal)

\* A refusal of the credentials is asked about, of a person, unless a provider's were
\* refused.
Asks == failure' = "authentication" /\ target.auth = "none"
After(asks) == CASE failure' = "none" -> Established [] asks -> "ask" [] OTHER -> Failed

Connect ==
    /\ at = "connect"
    /\ attempts < MaxAttempts /\ attempts' = attempts + 1
    /\ Open(target)
    /\ \E somebody \in IF client = "plain" THEN BOOLEAN ELSE {client = "interactive"} :
            at' = After(Asks /\ somebody)
    /\ UNCHANGED <<client, asked, env, args, text, target>>

\* The typed password is of one attempt: the target that is kept is without it.  The
\* plain client asks once.
Answer ==
    /\ at = "ask" /\ attempts < MaxAttempts
    /\ attempts' = attempts + 1
    /\ Open([target EXCEPT !.password = "typed"])
    /\ at' = After(Asks /\ client = "interactive")
    /\ UNCHANGED <<client, asked, env, args, text, target>>

Decline ==
    /\ at = "ask"
    /\ at' = Failed
    /\ UNCHANGED <<client, asked, env, args, text, target, opened, failure, attempts>>

\* for_object_tree(): the same target for a second connection, read-only.
OpenTree ==
    /\ at = "connected" /\ opened.what = "session"
    /\ LET t == [opened.target EXCEPT !.read_only = TRUE]
       IN \E server \in ServersAt(t.host) :
            /\ Accepts(t.sslmode, server)
            /\ \E tells \in Tells(t.sslmode, server) :
                    opened' = [target |-> t, what |-> "tree", server |-> server, tells |-> tells]
    /\ UNCHANGED <<client, asked, env, at, args, text, target, failure, attempts>>

Next ==
    \/ Choose \/ Resolve \/ Authenticate \/ Reach \/ Connect \/ Answer \/ Decline \/ OpenTree
    \/ \E profile \in DOMAIN Profiles \cup {"none"} : Pick(profile)

Spec == Init /\ [][Next]_vars

-----------------------------------------------------------------------------
\* Every connection is protected as it was asked for.  One to another machine has the
\* certificate of that machine at its other end unless the arguments, the profile or a
\* layer says otherwise, and whoever asked for verify-ca has one of a trusted authority;
\* one that a provider identifies is encrypted, with the token of this very attempt and
\* never with a password from a layer, a file or a person; one that anything asks to be
\* read-only is; the second connection is of the same target with the same credential;
\* the protection that is told is the one there is; and a person is asked for a password
\* only by a server that was accepted, when it refused what no provider supplied
\* (target.rs:316 and 668, tls.rs:3, cloud.rs:245, cli/mod.rs:397, plain.rs:708).
OpenedAsAsked ==
    /\ at = "ask" => opened # NotOpened /\ failure = "authentication" /\ target.auth = "none"
    /\ opened # NotOpened =>
        LET t == opened.target
        IN /\ <<t.host, t.user, t.sslmode, t.auth>> =
                    <<target.host, target.user, target.sslmode, target.auth>>
           /\ \/ IsLocal(t.host) \/ opened.server = "trusted"
              \/ \E layer \in {args, text, Service, env} : Says(layer, "sslmode")
           /\ t.sslmode = "verify-ca" => opened.server \in {"trusted", "misnamed"}
           /\ t.auth # "none" => t.password = "token" /\ IsEncrypted(t.sslmode, opened.server)
           /\ opened.tells # "unknown" =>
                    (opened.tells = "active") = IsEncrypted(t.sslmode, opened.server)
           /\ Says(args, "read_only") => t.read_only
=============================================================================
