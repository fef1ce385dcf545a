---------------------------- MODULE ObjectReads ----------------------------
(***************************************************************************)
(* What the interactive client reads of the catalogue beside the statement  *)
(* that is running: the object tree (app/tree.rs), the completion catalogue *)
(* (app/completion.rs), the definition panel and the dependency palette,    *)
(* as the reducer (app/update.rs) asks for them and the workers of          *)
(* cli/interactive.rs answer.                                               *)
(*                                                                         *)
(* Each read is a task of its own: it looks in the slot it was given, asks  *)
(* the server, rechecks the connection generation and posts its answer, so  *)
(* answers come in any order, and late ones meet a tree that has been       *)
(* reloaded, a panel that shows something else, or another connection.      *)
(*                                                                         *)
(* A root of the tree is a schema with one group of objects.  The           *)
(* extensions root, the columns of a relation and the cell update's own     *)
(* lookup are left out.  What owns the keyboard matters here because a      *)
(* connection reports itself ready by queueing the key that reloads.        *)
(***************************************************************************)
EXTENDS Naturals, FiniteSets, Functions

CONSTANTS
    Name,           \* the schemas that may exist
    NoName,
    MaxRoots,       \* bound on the schemas listed at once
    MaxRequest,     \* bound on the identities the tree hands out
    MaxReload,      \* bound on the reloads of the tree
    MaxGeneration   \* bound on the connections made

ASSUME ReadsAssumption ==
    /\ NoName \notin Name
    /\ MaxRoots \in Nat /\ MaxRequest \in Nat /\ MaxReload \in Nat /\ MaxGeneration \in Nat

VARIABLES
    generation,      \* model.connection_generation
    conn,            \* model.connection
    posted,          \* what the connecting task has queued and the loop not yet reduced
    user, meta,      \* whether each slot holds a session of this generation
    roots, loading, error, nextRequest,   \* model.tree
    expandFirst,     \* model.expand_first_schema_on_load
    completion, nextCompletion,           \* model.completion
    definition,      \* model.definition
    palette,         \* model.palette, and the object a dependency list is about
    pendingDeps,     \* model.pending_dependencies
    overlay,         \* a surface above the palette: a prompt, a review, a panel or a chord
    listing,         \* whether a QueriesListed is queued
    reads,           \* the tasks that have not answered
    \* What has happened, for the properties only.
    reloads,         \* reloads asked for
    shown,           \* the reload whose schemas the tree shows
    questioned       \* the object whose dependencies were last asked for

link    == <<generation, conn, posted, user, meta>>
tree    == <<roots, loading, error, nextRequest, expandFirst, reloads, shown>>
words   == <<completion, nextCompletion>>
screen  == <<definition, palette, pendingDeps, overlay, listing, questioned>>
vars    == <<link, tree, words, screen, reads>>

----------------------------------------------------------------------------
\* The data.

\* What the server may list: schemas, each once, in some order.
Listings == {s \in UNION {[1..n -> Name] : n \in 1..MaxRoots} : IsInjective(s)}

\* A schema and its group of objects, whose children are those of some schema.
Unread == "unread"
Failed == "failed"
Node == [name : Name, open : BOOLEAN, built : BOOLEAN, pending : Nat,
         holds : Name \cup {Unread, Failed}]

Fresh(name) == [name |-> name, open |-> FALSE, built |-> FALSE, pending |-> 0, holds |-> Unread]

\* expand_schema: the groups are built again from the counts, whatever they held.
Expanded(node) == [Fresh(node.name) EXCEPT !.open = TRUE, !.built = TRUE]

NoDefinition == [pending |-> 0, about |-> NoName, holds |-> Unread]
NoPalette    == [kind |-> "none", about |-> NoName]
Panel(kind)  == [kind |-> kind, about |-> NoName]

Kinds == {"schemas", "completion", "objects", "definition", "dependencies"}

\* A read of schemas carries no identity; its id here is the reload it belongs to.
Read == [kind : Kinds, id : Nat, gen : Nat, path : Nat, about : Name \cup {NoName},
         slot : {"user", "meta"}, pc : {"queued", "asked"}]

\* reader: the metadata connection where there is one, else the session's.
Ask(kind, id, path, about) ==
    [kind |-> kind, id |-> id, gen |-> generation, path |-> path, about |-> about,
     slot |-> IF meta THEN "meta" ELSE "user", pc |-> "queued"]

\* The objects that can be selected: a schema that has been read has one of each name.
Objects == IF \E i \in DOMAIN roots : roots[i].holds \in Name THEN Name ELSE {}

----------------------------------------------------------------------------
Init ==
    /\ generation = 1 /\ conn = "connecting" /\ posted = "nothing"
    /\ user = FALSE /\ meta = FALSE
    /\ roots = <<>> /\ loading = FALSE /\ error = FALSE /\ nextRequest = 0
    /\ expandFirst = FALSE /\ reloads = 0 /\ shown = 0
    /\ completion = [state |-> "notLoaded", request |-> 0] /\ nextCompletion = 0
    /\ definition = NoDefinition /\ palette = NoPalette /\ pendingDeps = 0
    /\ overlay = "none" /\ listing = FALSE /\ questioned = NoName
    /\ reads = {}

----------------------------------------------------------------------------
\* Keys and commands.

\* A key reaches the tree when no overlay and no palette is open; an open
\* definition closes and lets the key through.
Reaches == overlay = "none" /\ palette = NoPalette

\* begin_loading and reload_effects, for ReloadObjects and for ToggleSidebar's first show.
Reload ==
    /\ reloads < MaxReload
    /\ reloads' = reloads + 1
    /\ loading' = TRUE
    /\ error' = FALSE
    /\ nextCompletion' = nextCompletion + 1
    /\ completion' = [state |-> "loading", request |-> nextCompletion']
    /\ reads' = reads \cup {Ask("schemas", reloads', 0, NoName),
                            Ask("completion", nextCompletion', 0, NoName)}
    /\ definition' = NoDefinition
    /\ UNCHANGED <<roots, nextRequest, expandFirst, shown>>

ReloadObjects ==
    /\ Reaches
    /\ Reload
    /\ UNCHANGED <<link, palette, pendingDeps, overlay, listing, questioned>>

ToggleSchema(i) ==
    /\ Reaches
    /\ roots' = [roots EXCEPT ![i] = IF @.open THEN [@ EXCEPT !.open = FALSE] ELSE Expanded(@)]
    /\ definition' = NoDefinition
    /\ UNCHANGED <<link, loading, error, nextRequest, expandFirst, reloads, shown, words,
                   palette, pendingDeps, overlay, listing, questioned, reads>>

ExpandGroupMarksFirst(i) ==   \* fault: a node that needs no load is marked as waiting
    /\ Reaches
    /\ nextRequest < MaxRequest
    /\ roots[i].built
    /\ nextRequest' = nextRequest + 1
    /\ definition' = NoDefinition
    /\ roots' = [roots EXCEPT ![i].pending = nextRequest']
    /\ reads' = IF roots[i].holds # Unread \/ roots[i].pending # 0 THEN reads
                ELSE reads \cup {Ask("objects", nextRequest', i, roots[i].name)}
    /\ UNCHANGED <<link, loading, error, expandFirst, reloads, shown, words,
                   palette, pendingDeps, overlay, listing, questioned>>
\* expand_selected takes an identity even when the node needs no load.
ExpandGroup(i) ==
    /\ Reaches
    /\ nextRequest < MaxRequest
    /\ roots[i].built
    /\ nextRequest' = nextRequest + 1
    /\ definition' = NoDefinition
    /\ \/ /\ roots[i].holds # Unread \/ roots[i].pending # 0
          /\ UNCHANGED <<roots, reads>>
       \/ /\ roots[i].holds = Unread /\ roots[i].pending = 0
          /\ roots' = [roots EXCEPT ![i].pending = nextRequest']
          /\ reads' = reads \cup {Ask("objects", nextRequest', i, roots[i].name)}
    /\ UNCHANGED <<link, loading, error, expandFirst, reloads, shown, words,
                   palette, pendingDeps, overlay, listing, questioned>>

ShowDefinition(object) ==
    /\ Reaches
    /\ definition = NoDefinition
    /\ nextRequest < MaxRequest
    /\ nextRequest' = nextRequest + 1
    /\ definition' = [NoDefinition EXCEPT !.pending = nextRequest', !.about = object]
    /\ reads' = reads \cup {Ask("definition", nextRequest', 0, object)}
    /\ UNCHANGED <<link, roots, loading, error, expandFirst, reloads, shown, words,
                   palette, pendingDeps, overlay, listing, questioned>>

CloseDefinition ==
    /\ Reaches
    /\ definition # NoDefinition
    /\ definition' = NoDefinition
    /\ UNCHANGED <<link, tree, words, palette, pendingDeps, overlay, listing, questioned, reads>>

ShowDependencies(object) ==
    /\ Reaches
    /\ nextRequest < MaxRequest
    /\ nextRequest' = nextRequest + 1
    /\ pendingDeps' = nextRequest'
    /\ questioned' = object
    /\ palette' = [kind |-> "awaiting", about |-> object]
    /\ reads' = reads \cup {Ask("dependencies", nextRequest', 0, object)}
    /\ definition' = NoDefinition
    /\ UNCHANGED <<link, roots, loading, error, expandFirst, reloads, shown, words,
                   overlay, listing>>

\* Any of the palettes that are filled at once: commands, connections, formats, columns.
OpenPalette ==
    /\ Reaches
    /\ palette' = Panel("commands")
    /\ definition' = NoDefinition
    /\ UNCHANGED <<link, tree, words, pendingDeps, overlay, listing, questioned, reads>>

\* Enter closes the palette.  A list that waits has no entry to choose, so nothing else
\* happens; a name that is chosen goes into the editor; a command is the next action.
Activate ==
    /\ overlay = "none" /\ palette # NoPalette
    /\ palette' = NoPalette
    /\ definition' = IF palette.kind = "dependencies" THEN NoDefinition ELSE definition
    /\ UNCHANGED <<link, tree, words, pendingDeps, overlay, listing, questioned, reads>>

Dismiss ==
    /\ overlay = "none" /\ palette # NoPalette
    /\ palette' = NoPalette
    /\ pendingDeps' = 0
    /\ UNCHANGED <<link, tree, words, definition, overlay, listing, questioned, reads>>

\* A chord keeps what is under it; a prompt or a panel closes the definition.
OpenOverlay ==
    /\ Reaches
    /\ \/ overlay' = "chord" /\ UNCHANGED definition
       \/ overlay' = "panel" /\ definition' = NoDefinition
    /\ UNCHANGED <<link, tree, words, palette, pendingDeps, listing, questioned, reads>>

CloseOverlay ==
    /\ overlay # "none"
    /\ overlay' = "none"
    /\ UNCHANGED <<link, tree, words, definition, palette, pendingDeps, listing, questioned, reads>>

\* The saved queries are listed by the loop, and the answer goes through the queue.
ListQueries ==
    /\ Reaches
    /\ listing' = TRUE
    /\ definition' = NoDefinition
    /\ UNCHANGED <<link, tree, words, palette, pendingDeps, overlay, questioned, reads>>

\* A profile chosen in the palette: begin_connection, and the loop's ConnectProfile.
ConnectProfile ==
    /\ overlay = "none" /\ palette = Panel("commands")
    /\ conn # "connecting"
    /\ generation < MaxGeneration /\ nextRequest < MaxRequest
    /\ generation' = generation + 1
    /\ conn' = "connecting" /\ posted' = "nothing"
    /\ user' = FALSE /\ meta' = FALSE
    /\ roots' = <<>> /\ loading' = FALSE /\ error' = FALSE
    /\ nextRequest' = nextRequest + 1
    /\ shown' = 0
    /\ completion' = [state |-> "notLoaded", request |-> 0]
    /\ nextCompletion' = nextCompletion + 1
    /\ definition' = NoDefinition /\ palette' = NoPalette /\ pendingDeps' = 0
    /\ UNCHANGED <<expandFirst, reloads, overlay, listing, questioned, reads>>

----------------------------------------------------------------------------
\* The connection.

\* The loop installs the session, and the task queues Connected and then ReloadObjects.
Install ==
    /\ conn = "connecting" /\ ~user
    /\ user' = TRUE
    /\ posted' = "connected"
    /\ UNCHANGED <<generation, conn, meta, tree, words, screen, reads>>

Fail ==
    /\ conn = "connecting" /\ ~user
    /\ conn' = "failed"
    /\ UNCHANGED <<generation, posted, user, meta, tree, words, screen, reads>>

\* Reconnect, with a password: the same generation once more.
Retry ==
    /\ conn = "failed"
    /\ conn' = "connecting"
    /\ UNCHANGED <<generation, posted, user, meta, tree, words, screen, reads>>

Connected ==
    /\ posted = "connected"
    /\ posted' = "reload"
    /\ conn' = "connected"
    /\ expandFirst' = TRUE
    /\ UNCHANGED <<generation, user, meta, roots, loading, error, nextRequest, reloads, shown,
                   words, screen, reads>>

\* The queued key goes to whatever owns the keyboard: a chord ends with it, a panel, a
\* prompt and a palette ignore it.
ReloadPosted ==
    /\ posted = "reload"
    /\ posted' = "reduced"
    /\ \/ /\ Reaches
          /\ Reload
          /\ UNCHANGED overlay
       \/ /\ ~Reaches
          /\ overlay' = IF overlay = "chord" THEN "none" ELSE overlay
          /\ UNCHANGED <<tree, words, reads, definition>>
    /\ UNCHANGED <<generation, conn, user, meta, palette, pendingDeps, listing, questioned>>

InstallMetadata ==
    /\ posted \in {"reload", "reduced"} /\ ~meta
    /\ meta' = TRUE
    /\ UNCHANGED <<generation, conn, posted, user, tree, words, screen, reads>>

----------------------------------------------------------------------------
\* The tasks.

Installed(slot) == IF slot = "meta" THEN meta ELSE user

\* A task that finds its slot empty ends without a word.
ReadSlot(r) ==
    /\ r.pc = "queued"
    /\ reads' = (reads \ {r}) \cup IF Installed(r.slot) THEN {[r EXCEPT !.pc = "asked"]} ELSE {}
    /\ UNCHANGED <<link, tree, words, screen>>

\* The envelope: only an answer of this generation is reduced.
ArrivesUnchecked(r) ==   \* fault: the envelope's generation is not compared
    /\ r.pc = "asked"
    /\ reads' = reads \ {r}
    /\ UNCHANGED link
Arrives(r) ==
    /\ r.pc = "asked"
    /\ r.gen = generation
    /\ reads' = reads \ {r}
    /\ UNCHANGED link

Refused(r) ==
    /\ r.pc = "asked"
    /\ r.gen # generation
    /\ reads' = reads \ {r}
    /\ UNCHANGED <<link, tree, words, screen>>

\* The tree when a listing has been loaded: the first level opens if that was promised.
Opened(nodes) ==
    IF expandFirst /\ 1 \in DOMAIN nodes THEN [nodes EXCEPT ![1] = Expanded(@)] ELSE nodes

SchemasLoaded(r) ==
    /\ r.kind = "schemas"
    /\ Arrives(r)
    /\ loading' = FALSE
    /\ \/ \E names \in Listings :
            /\ roots' = Opened([i \in DOMAIN names |-> Fresh(names[i])])
            /\ error' = FALSE
            /\ shown' = r.id
       \/ roots' = Opened(roots) /\ error' = TRUE /\ UNCHANGED shown
    /\ expandFirst' = (expandFirst /\ 1 \notin DOMAIN roots')
    /\ UNCHANGED <<nextRequest, reloads, words, screen>>

\* CompletionState::accepts.
AcceptsAny(request) == completion.state = "loading"   \* fault: the request is not compared
Accepts(request) == completion = [state |-> "loading", request |-> request]

CompletionLoaded(r) ==
    /\ r.kind = "completion"
    /\ Arrives(r)
    /\ IF Accepts(r.id)
       THEN \E state \in {"ready", "unavailable"} : completion' = [state |-> state, request |-> r.id]
       ELSE UNCHANGED completion
    /\ UNCHANGED <<tree, nextCompletion, screen>>

\* ObjectTree::apply and apply_failure: the path must exist and wait for this request.
AwaitsByPath(path, request) == path \in DOMAIN roots   \* fault: the request is not compared
Awaits(path, request) == path \in DOMAIN roots /\ roots[path].pending = request

MetadataLoaded(r) ==
    /\ r.kind = "objects"
    /\ Arrives(r)
    /\ IF Awaits(r.path, r.id)
       THEN \E found \in {r.about, Failed} :
                roots' = [roots EXCEPT ![r.path] = [@ EXCEPT !.pending = 0, !.holds = found]]
       ELSE UNCHANGED roots
    /\ UNCHANGED <<loading, error, nextRequest, expandFirst, reloads, shown, words, screen>>

DefinitionLoaded(r) ==
    /\ r.kind = "definition"
    /\ Arrives(r)
    /\ IF definition.pending = r.id
       THEN \E found \in {r.about, Failed} :
                definition' = [definition EXCEPT !.pending = 0, !.holds = found]
       ELSE UNCHANGED definition
    /\ UNCHANGED <<tree, words, palette, pendingDeps, overlay, listing, questioned>>

DependenciesLoadedAny(r) ==   \* fault: any answer fills a list that waits
    /\ r.kind = "dependencies"
    /\ Arrives(r)
    /\ IF pendingDeps # 0
       THEN /\ pendingDeps' = 0
            /\ palette' \in {[kind |-> "dependencies", about |-> r.about], NoPalette}
       ELSE UNCHANGED <<pendingDeps, palette>>
    /\ UNCHANGED <<tree, words, definition, overlay, listing, questioned>>
DependenciesLoaded(r) ==
    /\ r.kind = "dependencies"
    /\ Arrives(r)
    /\ IF pendingDeps = r.id
       THEN /\ pendingDeps' = 0
            /\ palette' \in {[kind |-> "dependencies", about |-> r.about], NoPalette}
       ELSE UNCHANGED <<pendingDeps, palette>>
    /\ UNCHANGED <<tree, words, definition, overlay, listing, questioned>>

QueriesListed ==
    /\ listing
    /\ listing' = FALSE
    /\ palette' = Panel("commands")
    /\ UNCHANGED <<link, tree, words, definition, pendingDeps, overlay, questioned, reads>>

Serve(r) ==
    \/ ReadSlot(r)
    \/ Refused(r)
    \/ SchemasLoaded(r) \/ CompletionLoaded(r) \/ MetadataLoaded(r)
    \/ DefinitionLoaded(r) \/ DependenciesLoaded(r)

----------------------------------------------------------------------------
Key ==
    \/ ReloadObjects
    \/ \E i \in DOMAIN roots : ToggleSchema(i) \/ ExpandGroup(i)
    \/ \E object \in Objects : ShowDefinition(object) \/ ShowDependencies(object)
    \/ CloseDefinition
    \/ OpenPalette \/ Activate \/ Dismiss
    \/ OpenOverlay \/ CloseOverlay
    \/ ListQueries
    \/ ConnectProfile

Connection == Install \/ Fail \/ Retry \/ Connected \/ ReloadPosted \/ InstallMetadata

Next == Key \/ Connection \/ QueriesListed \/ \E r \in reads : Serve(r)

Spec == Init /\ [][Next]_vars

\* The runtime polls its tasks, the loop reduces what is queued, and a server answers, with
\* an error if its connection has gone.
Fairness ==
    \A kind \in Kinds, id \in 1..(MaxRequest + MaxReload) :
        WF_vars(\E r \in reads : r.kind = kind /\ r.id = id /\ Serve(r))

----------------------------------------------------------------------------
(***************************************************************************)
(* Properties.                                                              *)
(***************************************************************************)

LinkTypes ==
    /\ generation \in Nat
    /\ conn \in {"connecting", "connected", "failed"}
    /\ posted \in {"nothing", "connected", "reload", "reduced"}
    /\ user \in BOOLEAN /\ meta \in BOOLEAN

TreeTypes ==
    /\ \E n \in 0..MaxRoots : roots \in [1..n -> Node]
    /\ loading \in BOOLEAN /\ error \in BOOLEAN /\ expandFirst \in BOOLEAN
    /\ nextRequest \in Nat /\ reloads \in Nat /\ shown \in Nat

WordTypes ==
    /\ completion \in [state : {"notLoaded", "loading", "ready", "unavailable"}, request : Nat]
    /\ nextCompletion \in Nat

ScreenTypes ==
    /\ definition \in [pending : Nat, about : Name \cup {NoName},
                       holds : Name \cup {NoName, Unread, Failed}]
    /\ palette \in [kind : {"none", "awaiting", "dependencies", "commands"},
                    about : Name \cup {NoName}]
    /\ pendingDeps \in Nat
    /\ overlay \in {"none", "chord", "panel"}
    /\ listing \in BOOLEAN
    /\ questioned \in Name \cup {NoName}

TypeOK ==
    /\ LinkTypes
    /\ TreeTypes
    /\ WordTypes
    /\ ScreenTypes
    /\ reads \subseteq Read

\* A node holds the objects of the schema it names, or says why not: a path that a reload
\* has given to another schema never receives the answer meant for the one before it.
NodesHoldTheirOwn ==
    \A i \in DOMAIN roots : roots[i].holds \in {Unread, Failed, roots[i].name}

\* The definition panel shows the object it was opened for, and the dependency list is about
\* the object last asked about, however many lookups were given up on before.
PanelsAnswerTheirQuestion ==
    /\ definition.holds \in {Unread, Failed, definition.about}
    /\ palette.kind = "dependencies" => palette.about = questioned

\* The words offered for completion come from the last reload: an answer to an earlier one,
\* or to another connection, is dropped.
CatalogueIsTheLatest ==
    completion.state # "notLoaded" => completion.request = nextCompletion

\* What waits is waited for: a node, a panel or a list that shows it is loading has a read
\* of this connection on its way, which has not met an empty slot.
Attended(kind, id) ==
    \E r \in reads : r.kind = kind /\ r.id = id /\ r.gen = generation /\ Installed(r.slot)

WaitingIsAttended ==
    /\ \A i \in DOMAIN roots :
            roots[i].pending # 0 => Attended("objects", roots[i].pending)
    /\ definition.pending # 0 => Attended("definition", definition.pending)
    /\ pendingDeps # 0 => Attended("dependencies", pendingDeps)

\* A tree that has schemas took them from the connection it is on.
TreeIsOfThisConnection == DOMAIN roots # {} => user /\ shown # 0

\* Every wait ends: what was asked for is answered, given up, or gone with its connection.
WaitsEnd ==
    \A id \in 1..MaxRequest :
        /\ (\E i \in DOMAIN roots : roots[i].pending = id)
                ~> ~\E i \in DOMAIN roots : roots[i].pending = id
        /\ (definition.pending = id) ~> (definition.pending # id)
        /\ (pendingDeps = id) ~> (pendingDeps # id)

(***************************************************************************)
(* The inductive invariant.                                                 *)
(***************************************************************************)

TreeKinds == {"objects", "definition", "dependencies"}

\* An identity that waits, or that a read carries, has been handed out.
IdsAreHandedOut ==
    /\ \A r \in reads : r.kind \in TreeKinds => r.id \in 1..nextRequest
    /\ \A i \in DOMAIN roots : roots[i].pending <= nextRequest
    /\ definition.pending <= nextRequest
    /\ pendingDeps <= nextRequest

\* A read whose identity is still waited for is about what waits for it.
ReadsAreMeant ==
    \A r \in reads :
        /\ r.kind = "objects" =>
                \A i \in DOMAIN roots :
                    roots[i].pending = r.id => r.path = i /\ r.about = roots[i].name
        /\ r.kind = "definition" => (definition.pending = r.id => r.about = definition.about)
        /\ r.kind = "dependencies" => (pendingDeps = r.id => r.about = questioned)

\* Nothing is answered in a generation before its session is installed.
SlotsAreFilled ==
    /\ meta => user
    /\ posted # "nothing" => user
    /\ \A r \in reads :
        /\ r.gen <= generation
        /\ r.pc = "asked" /\ r.gen = generation => user
        /\ r.kind = "schemas" => r.id # 0

\* The inductive invariant.
IInv ==
    /\ TypeOK
    /\ NodesHoldTheirOwn
    /\ PanelsAnswerTheirQuestion
    /\ CatalogueIsTheLatest
    /\ WaitingIsAttended
    /\ TreeIsOfThisConnection
    /\ IdsAreHandedOut
    /\ ReadsAreMeant
    /\ SlotsAreFilled

=============================================================================
