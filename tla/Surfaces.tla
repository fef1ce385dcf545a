------------------------------ MODULE Surfaces ------------------------------
(***************************************************************************)
(* The input surfaces of the interactive client: which of its prompts,     *)
(* reviews, panels and panes a key, a paste, a click or an answer reaches, *)
(* and what becomes of the editor's text, the completion menu and the      *)
(* marker of a server error on the way (src/app/update.rs,                 *)
(* src/app/discovery.rs, src/ui/widgets/mod.rs).                           *)
(*                                                                         *)
(* The other modules look at one of these surfaces closely; this one is    *)
(* about all of them at once.  "open" maps each open surface to what it    *)
(* holds: the revision of the text a menu, a confirmation or a parameter   *)
(* prompt was made from, the purpose of a palette or of a name prompt.     *)
(* A revision stands for the text it numbers.  What an analysis of the     *)
(* text says (a word to complete, a statement to confirm, parameters to    *)
(* ask for, nothing to run) is either way.  Quitting ends the behaviour    *)
(* and is left out.                                                        *)
(***************************************************************************)
EXTENDS Integers, FiniteSets, Sequences, SequencesExt

CONSTANTS
    MaxText,    \* bound: the last revision of the editor's text
    MaxOpen,    \* bound: how many surfaces are open at once
    MaxAsked    \* bound: how many answers are awaited at once

NoJob  == [kind |-> "none"]
NoMark == [at |-> -1]
NoRows == [rows |-> "none", from |-> 0]

(* The order in which apply_action() peels the surfaces, highest first.    *)
Peel == <<"password", "parameter", "name", "details", "prefix", "run", "plan",
          "copy", "value", "update", "palette", "notices", "help", "completion",
          "tree_filter", "result_filter", "inspector", "definition">>

(* The order in which render_with() draws the overlays, lowest first.      *)
Drawn == <<"completion", "inspector", "definition", "help", "notices", "palette",
           "details", "prefix", "run", "plan", "copy", "update", "value",
           "parameter", "name", "password">>

Surface == ToSet(Peel)
Overlay == ToSet(Drawn)

(* pane_input_owned(): what a pane itself holds the keyboard with.         *)
PaneInput == {"notices", "inspector", "definition", "completion",
              "tree_filter", "result_filter"}

Focus   == {"editor", "results", "objects"}
Text    == 0 .. MaxText

(* The actions a key can name, those that no rule below tells apart under  *)
(* one name: "edit" deletes, undoes or redoes, "local" changes only how    *)
(* the panes look or where a cursor is.                                    *)
Typing   == {"insert", "backspace"}
Accept   == {"activate", "run"}
Reject   == {"dismiss", "cancel"}
Command  == {"run", "explain", "analyze", "copy", "update", "refresh", "format", "picker",
             "cancel", "help", "next", "sidebar", "local", "shape", "filter", "complete",
             "controls", "inspector", "definition", "dependencies", "save", "export",
             "open", "history"}
Key      == Command \cup Typing \cup
            {"activate", "dismiss", "vertical", "horizontal", "page", "edit", "palette",
             "prefix"}

(* The second keys of a chord: CHORDS of the key map.                      *)
Chord == (Command \ {"run", "refresh", "cancel", "next", "complete"}) \cup {"palette"}

VARIABLES
    open,       \* the open surfaces and what each holds
    focus,      \* the pane with the focus
    buf,        \* the editor: its revision, its mark of unsaved text, the revision on disk
    mark,       \* the marker of a server error in the text, and the text it is about
    conn,       \* the connection as the model shows it
    running,    \* the statement in flight: its kind, the editor's revision, its text
    plan,       \* the plan panel: "none", "loading" or "shown"
    asked,      \* the answers that are still to come
    shown       \* the retained result: its rows and the text they came from

vars == <<open, focus, buf, mark, conn, running, plan, asked, shown>>

Is(o, s) == s \in DOMAIN o
Add(o, s, v) == [t \in DOMAIN o \cup {s} |-> IF t = s THEN v ELSE o[t]]
Close(o, S) == [t \in DOMAIN o \ S |-> o[t]]

Idle    == running = NoJob
CanSend == conn = "connected" /\ Idle
Visible == shown.rows # "none"       \* visible_result() is Some
Cell    == shown.rows = "there"      \* and its rows are still there

Init ==
    /\ open = << >> /\ focus = "editor"
    /\ buf = [at |-> 0, modified |-> FALSE, disk |-> 0]
    /\ mark = NoMark /\ conn = "connecting" /\ running = NoJob /\ plan = "none"
    /\ asked = {} /\ shown = NoRows

-----------------------------------------------------------------------------
(* Who handles a key.                                                      *)

Rank == [s \in Surface |-> CHOOSE i \in DOMAIN Peel : Peel[i] = s]

Height == [s \in Overlay |-> CHOOSE i \in DOMAIN Drawn : Drawn[i] = s]

Owner(S) == IF S = {} THEN "base" ELSE Peel[Min({Rank[s] : s \in S})]

(* What a surface that gives way to other keys answers itself; for any     *)
(* other key it closes and the key is dispatched again.                    *)
Keeps ==
    [s \in {"help", "completion", "tree_filter", "result_filter", "inspector",
            "definition"} |->
        {"prefix", "shape", "dismiss"} \cup
        CASE s = "help" -> Typing \cup {"edit", "vertical", "horizontal", "page", "local",
                                        "next", "help", "activate", "palette"}
          [] s = "completion" -> {"vertical", "activate", "complete"}
          [] s \in {"tree_filter", "result_filter"} -> Typing \cup {"vertical", "activate"}
          [] s = "inspector" -> Typing \cup {"vertical", "horizontal", "activate",
                                             "inspector", "help"}
          [] s = "definition" -> Typing \cup {"vertical", "page", "definition"}]

GivesWay(s, key) ==
    /\ s \in DOMAIN Keeps
    /\ key \notin Keeps[s]
    /\ ~(s = "completion" /\ focus = "editor" /\ key \in Typing)

Handler(o, key) == Owner({s \in DOMAIN o : ~GivesWay(s, key)})

LeftMenu(o, key) ==     \* fault: the completion menu stays open under the next layer
    LET h == Handler(o, key)
    IN Close(o, {s \in DOMAIN o : s # "completion" /\ (h = "base" \/ Rank[s] < Rank[h])})

(* What is still open when the key reaches its handler: the layers above   *)
(* it have closed on the way.                                              *)
Left(o, key) ==
    LET h == Handler(o, key)
    IN Close(o, {s \in DOMAIN o : h = "base" \/ Rank[s] < Rank[h]})

-----------------------------------------------------------------------------
(* Steps that several handlers take.                                       *)

Only(o) ==       \* nothing but what is open
    /\ open' = o
    /\ UNCHANGED <<focus, buf, mark, conn, running, plan, asked, shown>>

Looks(o, f) ==
    /\ open' = o
    /\ focus' = f
    /\ UNCHANGED <<buf, mark, conn, running, plan, asked, shown>>

Unmark(o) ==     \* clear_error_location()
    /\ open' = o
    /\ mark' = NoMark
    /\ UNCHANGED <<focus, buf, conn, running, plan, asked, shown>>

Ask(o, a) ==
    /\ a \notin asked
    /\ open' = o
    /\ asked' = asked \cup {a}
    /\ UNCHANGED <<focus, buf, mark, conn, running, plan, shown>>

(* edit_editor(): a change of the text takes the error marker with it.     *)
Edit(f) ==
    /\ buf.at < MaxText
    /\ buf' = [buf EXCEPT !.at = @ + 1, !.modified = TRUE]
    /\ mark' = NoMark
    /\ focus' = f
    /\ UNCHANGED <<conn, running, plan, asked, shown>>

(* open_completion() and refresh_completion_menu(): the menu of the text   *)
(* as it is now, or none.                                                  *)
Menu(o) == \/ open' = Add(o, "completion", buf'.at)
           \/ open' = Close(o, {"completion"})

Type(o) == Edit(focus) /\ Menu(o)
Write(o, f) == Edit(f) /\ open' = o

(* start_with_parameters()                                                 *)
Begin(o, kind, sql) ==
    /\ CanSend
    /\ running' = [kind |-> kind, at |-> buf.at, sql |-> sql]
    /\ open' = Close(o, {"plan", "copy", "value", "update", "parameter"})
    /\ plan' = "none"
    /\ asked' = asked \ {"target"}
    /\ mark' = NoMark
    /\ UNCHANGED <<focus, buf, conn, shown>>

(* start(): ask for the named parameters first, when there are some, and   *)
(* refuse those that cannot be read.                                       *)
Start(o, sql) ==
    /\ CanSend
    /\ \/ Begin(o, "run", sql)
       \/ Unmark(Add(o, "parameter", sql))
       \/ Unmark(o)

(* run(): hold a write back on production.                                 *)
Run(o) ==
    \/ Start(o, buf.at)
    \/ CanSend /\ Only(Add(o, "run", buf.at))

StartPlan(o, sql) ==
    /\ CanSend
    /\ running' = [kind |-> "plan", at |-> buf.at, sql |-> sql]
    /\ plan' = "loading"
    /\ focus' = "results"
    /\ open' = Close(o, {"copy", "value", "update"})
    /\ asked' = asked \ {"target"}
    /\ mark' = NoMark
    /\ UNCHANGED <<buf, conn, shown>>

(* toggle_inspector()                                                      *)
Inspect(o) ==
    /\ Cell /\ plan = "none"
    /\ \/ Is(o, "inspector") /\ Only(Close(o, {"inspector"}))
       \/ ~Is(o, "inspector") /\ Only(Add(o, "inspector", ""))

(* begin_connection(): the editor is kept, what belongs to the old server  *)
(* is not.                                                                 *)
BeginConnection(o) ==
    /\ Idle /\ conn # "connecting"
    /\ open' = Close(o, {"password", "run", "plan", "copy", "value", "update", "inspector",
                         "definition", "details", "result_filter", "tree_filter",
                         "completion"})
    /\ focus' = "editor"
    /\ conn' = "connecting"
    /\ mark' = NoMark
    /\ plan' = "none"
    /\ asked' = asked \ {"names", "target"}
    /\ shown' = NoRows
    /\ UNCHANGED <<buf, running>>
-----------------------------------------------------------------------------
(* What a key does when no surface answers it: objects_action() first,     *)
(* then the last match of apply_action().  A refused command changes       *)
(* nothing here but the layers that gave way to it.                        *)

(* The tree inserts the name under the cursor, opens the container there   *)
(* or starts the filter.                                                   *)
ObjectsKey(key, o) ==
    \/ key = "activate" /\ Write(o, "editor")
    \/ key = "insert" /\ Only(Add(o, "tree_filter", ""))

EditorKey(key, o) ==
    \/ key \in Typing /\ Type(o)
    \/ key \in {"activate", "edit"} /\ Write(o, "editor")
    \/ key = "complete" /\ Only(Add(o, "completion", buf.at))

ResultsKey(key, o) ==
    \/ key = "activate" /\ Inspect(o)
    \/ key = "filter" /\ plan = "none" /\ Only(Add(o, "result_filter", ""))
    \/ key = "controls" /\ plan = "none" /\ Visible /\ Only(Add(o, "palette", "grid"))
    \/ key = "copy" /\ Idle /\ plan = "none" /\ Cell /\ Only(Add(o, "copy", ""))
    \/ key = "update" /\ CanSend /\ plan = "none" /\ Cell /\ Ask(o, "target")
    \/ key = "refresh" /\ plan = "none" /\ Visible /\ Start(o, shown.from)

(* Esc at the base: the plan, the tree's filter, then the error.           *)
Dismiss(o) ==
    IF plan = "shown"
    THEN /\ plan' = "none"
         /\ open' = o
         /\ UNCHANGED <<focus, buf, mark, conn, running, asked, shown>>
    ELSE Unmark(o)

AnyPaneKey(key, o) ==
    \/ key = "run" /\ Run(o)
    \/ key = "explain" /\ StartPlan(o, buf.at)
    \/ key = "analyze" /\ CanSend /\ Only(Add(o, "plan", buf.at))
    \/ key = "format" /\ Write(o, focus)
    \/ key = "help" /\ Only(Add(o, "help", ""))
    \/ key = "palette" /\ Only(Add(o, "palette", "commands"))
    \/ key = "history" /\ Only(Add(o, "palette", "names"))
    \/ key = "picker" /\ Idle /\ Only(Add(o, "palette", "connections"))
    \/ key = "export" /\ plan = "none" /\ Cell /\ Only(Add(o, "palette", "formats"))
    \/ key = "save" /\ Only(Add(o, "name", "save"))
    \/ key = "prefix" /\ Only(Add(o, "prefix", ""))
    \/ key = "open" /\ Ask(o, "list")
    \/ key = "dependencies" /\ Ask(Add(o, "palette", "names"), "names")
    \/ key = "definition" /\ Only(Add(o, "definition", ""))
    \/ key = "inspector" /\ Inspect(o)
    \/ key = "filter" /\ focus # "results" /\ plan = "none"
                      /\ Looks(Add(o, "tree_filter", ""), "objects")
    \/ key = "next" /\ \E f \in Focus \ {focus} : (focus = "editor" => f = "results") /\ Looks(o, f)
    \/ key = "sidebar" /\ focus = "objects" /\ Looks(o, "editor")
    \/ key = "dismiss" /\ Dismiss(o)

(* What the pane with the focus refuses or has no use for.                 *)
Refused(key, o) ==
    /\ key \notin {"help", "palette", "history", "prefix", "dismiss", "next", "open"}
    /\ ~(focus = "editor" /\ key \in {"insert", "activate", "complete"})
    /\ ~(key = "filter" /\ plan = "none")
    /\ Only(o)

Base(key, o) ==
    \/ focus = "objects" /\ ObjectsKey(key, o)
    \/ focus = "editor" /\ EditorKey(key, o)
    \/ focus = "results" /\ ResultsKey(key, o)
    \/ AnyPaneKey(key, o)
    \/ Refused(key, o)

-----------------------------------------------------------------------------
(* What each surface does with a key that it answers.                      *)

Shut(o, s) == Only(Close(o, {s}))

(* password_action(): the typed password is another try of the connection. *)
Password(key, o) ==
    \/ /\ key \in Accept
       /\ open' = Close(o, {"password"})
       /\ conn' = "connecting"
       /\ UNCHANGED <<focus, buf, mark, running, plan, asked, shown>>
    \/ key \in Reject /\ Shut(o, "password")

(* parameter_action(): the last value sends, a value that cannot be bound  *)
(* refuses the whole request.                                              *)
Parameter(key, o) ==
    \/ key \in Accept /\ Begin(o, "bound", o["parameter"])
    \/ key \in Accept /\ Unmark(Close(o, {"parameter"}))
    \/ key \in Reject /\ Shut(o, "parameter")

(* name_action(): SaveQuery takes the text as it is when the name is given *)
(* and is written before the next key is read; its answer is queued.       *)
Name(key, o) ==
    \/ /\ key \in Accept /\ o["name"] = "save" /\ "saved" \notin asked
       /\ open' = Close(o, {"name"})
       /\ buf' = [buf EXCEPT !.disk = buf.at]
       /\ asked' = asked \cup {"saved"}
       /\ UNCHANGED <<focus, mark, conn, running, plan, shown>>
    \/ key \in Accept /\ o["name"] = "export" /\ Shut(o, "name")
    \/ key \in Reject /\ Shut(o, "name")

Details(key, o) ==
    \/ key \in {"dismiss", "help"} /\ Shut(o, "details")
    \/ key = "palette" /\ Only(Add(Close(o, {"details"}), "palette", "commands"))

(* confirmation_action() and plan_confirmation_action(): what was held is  *)
(* what is sent.                                                           *)
ReviewRun(key, o) ==
    \/ key \in Accept /\ Start(Close(o, {"run"}), o["run"])
    \/ key \in Accept /\ ~CanSend /\ Shut(o, "run")
    \/ key \in Reject /\ Shut(o, "run")

ReviewPlan(key, o) ==
    \/ key \in Accept /\ StartPlan(Close(o, {"plan"}), o["plan"])
    \/ key \in Accept /\ ~CanSend /\ Shut(o, "plan")
    \/ key \in Reject /\ Shut(o, "plan")

ReviewCopy(key, o) == key \in Accept \cup Reject /\ Shut(o, "copy")

ReviewValue(key, o) ==
    \/ key \in Accept /\ Only(Add(Close(o, {"value"}), "update", ""))
    \/ key \in Accept \cup Reject /\ Shut(o, "value")

ReviewUpdate(key, o) ==
    \/ key \in Accept /\ Begin(o, "write", buf.at)
    \/ key \in Accept \cup Reject /\ Shut(o, "update")

(* palette_action() but for Enter, which is Choose.                        *)
Palette(key, o) ==
    /\ key = "dismiss"
    /\ open' = Close(o, {"palette"})
    /\ asked' = asked \ {"names"}
    /\ UNCHANGED <<focus, buf, mark, conn, running, plan, shown>>

Notices(key, o) ==
    \/ key \in {"dismiss", "cancel", "activate", "help"} /\ Shut(o, "notices")
    \/ key = "palette" /\ Only(Add(o, "palette", "commands"))
    \/ key = "prefix" /\ Only(Add(o, "prefix", ""))

Help(key, o) ==
    \/ key \in {"help", "dismiss", "activate"} /\ Shut(o, "help")
    \/ key = "palette" /\ Only(Add(o, "palette", "commands"))
    \/ key = "prefix" /\ Only(Add(o, "prefix", ""))

(* completion_action(): accepting a candidate is an edit of the buffer, or *)
(* none when the range is not there or holds the candidate already.        *)
Completion(key, o) ==
    \/ key \in Typing /\ Edit(focus) /\ Menu(o)
    \/ key = "activate" /\ Write(Close(o, {"completion"}), focus)
    \/ key = "complete" /\ focus = "editor" /\ Only(Add(o, "completion", buf.at))
    \/ key \in {"activate", "dismiss"} /\ Shut(o, "completion")
    \/ key = "complete" /\ focus # "editor" /\ Shut(o, "completion")
    \/ key = "prefix" /\ Only(Add(o, "prefix", ""))

PaneFilter(s, key, o) ==
    \/ key \in {"activate", "dismiss"} /\ Shut(o, s)
    \/ key = "prefix" /\ Only(Add(o, "prefix", ""))

Inspector(key, o) ==
    \/ key \in {"dismiss", "activate", "inspector"} /\ Shut(o, "inspector")
    \/ key = "help" /\ Only(Add(o, "help", ""))
    \/ key = "prefix" /\ Only(Add(o, "prefix", ""))

Definition(key, o) ==
    \/ key \in {"dismiss", "definition"} /\ Shut(o, "definition")
    \/ key = "prefix" /\ Only(Add(o, "prefix", ""))

(* What the surface below the prefix does; a key that none of its cases    *)
(* names is swallowed.                                                     *)
Answer(s, key, o) ==
    \/ s = "password" /\ Password(key, o)
    \/ s = "parameter" /\ Parameter(key, o)
    \/ s = "name" /\ Name(key, o)
    \/ s = "details" /\ Details(key, o)
    \/ s = "run" /\ ReviewRun(key, o)
    \/ s = "plan" /\ ReviewPlan(key, o)
    \/ s = "copy" /\ ReviewCopy(key, o)
    \/ s = "value" /\ ReviewValue(key, o)
    \/ s = "update" /\ ReviewUpdate(key, o)
    \/ s = "palette" /\ Palette(key, o)
    \/ s = "notices" /\ Notices(key, o)
    \/ s = "help" /\ Help(key, o)
    \/ s = "completion" /\ Completion(key, o)
    \/ s \in {"tree_filter", "result_filter"} /\ PaneFilter(s, key, o)
    \/ s = "inspector" /\ Inspector(key, o)
    \/ s = "definition" /\ Definition(key, o)
    \/ s = "base" /\ Base(key, o)

(* apply_action(): the keys that shape the panes do nothing while help or  *)
(* a pane's own input is open.                                             *)
Dispatch(key, o) ==
    /\ ~(key = "shape" /\ DOMAIN o \cap (PaneInput \cup {"help"}) # {})
    /\ Answer(Handler(o, key), key, Left(o, key))

(* resolve_prefix(): the second key ends the chord, whatever it is.        *)
Prefix(key) ==
    LET o == Close(open, {"prefix"})
    IN \/ key = "insert" /\ \E c \in Chord : Dispatch(c, o)
       \/ Only(o)

(* reveal_palette_editor()                                                 *)
Revealed(o) == Close(o, {"palette", "help"} \cup PaneInput)

(* Enter in the palette.  What is chosen closes help and the notices too,  *)
(* an empty list closes the palette alone.                                 *)
Choose ==
    LET o == Close(open, {"palette", "help", "notices"})
        p == open["palette"]
    IN \/ Shut(open, "palette")
       \/ p = "commands" /\ \/ \E c \in Command : Dispatch(c, o)
                            \/ Is(open, "help") /\ Only(o)
                            \/ Only(Add(o, "notices", ""))
                            \/ Only(Add(o, "details", ""))
       \/ p \in {"commands", "names"} /\ Write(Revealed(open), "editor")
       \/ p = "saved" /\ IF DOMAIN open \cap {"help", "notices"} = {}
                         THEN Ask(o, "load")
                         ELSE /\ "load" \notin asked
                              /\ open' = Revealed(open)
                              /\ focus' = "editor"
                              /\ asked' = asked \cup {"load"}
                              /\ UNCHANGED <<buf, mark, conn, running, plan, shown>>
       \/ p = "grid" /\ (Only(o) \/ Only(Add(o, "palette", "grid")))
       \/ p = "connections" /\ BeginConnection(o)
       \/ p = "formats" /\ Cell /\ Only(Add(o, "name", "export"))
KeyPressed(key) ==
    /\ open # << >> \/ key # "cancel"
    /\ CASE Owner(DOMAIN open) = "prefix" -> Prefix(key)
         [] Owner(DOMAIN open) = "palette" /\ key = "activate" -> Choose
         [] OTHER -> Dispatch(key, open)

-----------------------------------------------------------------------------
(* The paste and the mouse.                                                *)

PastedAnywhere ==       \* fault: a paste goes to the editor whatever is open
    /\ Edit(focus)
    /\ IF Is(open, "completion") THEN Menu(open) ELSE open' = open

PastedAside ==          \* fault: a paste leaves the menu as it was
    /\ DOMAIN open \subseteq {"completion"}
    /\ Write(open, focus)

(* paste_action(): a paste that no other surface takes or ignores reaches  *)
(* the editor, whatever pane has the focus, and the menu is of the text.   *)
Pasted ==
    /\ DOMAIN open \subseteq {"completion"}
    /\ Edit(focus)
    /\ IF Is(open, "completion") THEN Menu(open) ELSE open' = open

(* handle_mouse(): a press on a pane that no overlay hides.  The filter    *)
(* that goes with another pane closes; only the tree's own filter survives *)
(* a press on a row, and a second press there acts as Enter does.          *)
PanePressed ==
    /\ DOMAIN open \cap Overlay = {}
    /\ \E f \in Focus :
        Looks(Close(open, {s \in PaneInput : ~(s = "tree_filter" /\ f = "objects")
                                            /\ ~(s = "result_filter" /\ f = "results")}), f)

RowPressedTwice ==
    /\ DOMAIN open \cap Overlay = {}
    /\ Write(<< >>, "editor")

CellPressedTwice ==
    /\ DOMAIN open \cap Overlay = {}
    /\ Cell /\ plan = "none"
    /\ Looks([s \in {"inspector"} |-> ""], "results")

ItemPressedTwice ==
    /\ Owner(DOMAIN open) = "palette"
    /\ Choose

-----------------------------------------------------------------------------
(* The answers.                                                            *)

Connected ==
    /\ conn = "connecting"
    /\ conn' = "connected" /\ focus' = "editor" /\ mark' = NoMark
    /\ UNCHANGED <<open, buf, running, plan, asked, shown>>

(* A refused password can be answered from here.                           *)
ConnectionFailed ==
    /\ conn = "connecting"
    /\ conn' = "failed" /\ mark' = NoMark /\ running' = NoJob
    /\ asked' = asked \ {"target"}
    /\ LET o == Close(open, {"value", "update"})
       IN open' = o \/ open' = Add(o, "password", "")
    /\ UNCHANGED <<focus, buf, plan, shown>>

ConnectionLost ==
    /\ conn = "connected"
    /\ conn' = "lost" /\ running' = NoJob
    /\ open' = Close(open, {"completion", "run", "parameter", "plan", "value", "update"})
    /\ asked' = asked \ {"target"}
    /\ IF plan = "loading" THEN plan' = "shown" /\ focus' = "results"
       ELSE UNCHANGED <<plan, focus>>
    /\ UNCHANGED <<buf, mark, shown>>

(* map_error_location(): a position is shown only when the buffer is still *)
(* the one that was there when the statement started, and only for a       *)
(* statement without parameters.                                           *)
Located(at) ==
    IF running.at = buf.at /\ running.kind = "run" THEN {NoMark, [at |-> at, ran |-> running.sql]}
    ELSE {NoMark}

ExecutionFinished ==
    /\ running.kind \in {"run", "bound", "write"}
    /\ running' = NoJob
    /\ \E m \in Located(buf.at) :
        /\ mark' = m
        /\ focus' = IF m = NoMark THEN focus ELSE "editor"
    /\ conn' \in {conn, "lost"}
    /\ asked' = asked \ {"target"}
    /\ IF running.kind = "write"
       THEN /\ open' = Close(open, {"copy", "value", "update"})
            /\ UNCHANGED shown
       ELSE /\ open' = Close(open, {"copy", "value", "update", "result_filter", "inspector"})
            /\ shown' \in [rows : {"none", "there"}, from : {running.sql}]
    /\ UNCHANGED <<buf, plan>>

PlanFinished ==
    /\ running.kind = "plan"
    /\ running' = NoJob /\ plan' = "shown" /\ focus' = "results"
    /\ conn' \in {conn, "lost"}
    /\ UNCHANGED <<open, buf, mark, asked, shown>>

(* The result's rows were given up for another's.                          *)
RowsGone ==
    /\ Cell
    /\ shown' = [shown EXCEPT !.rows = "gone"]
    /\ UNCHANGED <<open, focus, buf, mark, conn, running, plan, asked>>

Answered(a) ==
    /\ a \in asked
    /\ asked' = asked \ {a}
    /\ UNCHANGED <<conn, running, plan, shown>>

QueriesListed ==
    /\ Answered("list")
    /\ open' = Add(open, "palette", "saved")
    /\ UNCHANGED <<focus, buf, mark>>

(* mark_saved() is about the buffer as it is when the answer is reduced.   *)
QuerySaved ==
    /\ Answered("saved")
    /\ \/ buf' = [buf EXCEPT !.modified = FALSE]
       \/ UNCHANGED buf
    /\ UNCHANGED <<open, focus, mark>>

QueryLoadedMarked ==     \* fault: a loaded query keeps the marker of the old text
    /\ Answered("load")
    /\ buf.at < MaxText
    /\ buf' = [at |-> buf.at + 1, modified |-> FALSE, disk |-> buf.at + 1]
    /\ focus' = "editor"
    /\ UNCHANGED <<open, mark>>

(* set_text(): the loaded text is an edit that leaves nothing unsaved, and *)
(* none when it is the text that is there.                                 *)
QueryLoaded ==
    /\ Answered("load")
    /\ \/ /\ buf.at < MaxText
          /\ buf' = [at |-> buf.at + 1, modified |-> FALSE, disk |-> buf.at + 1]
          /\ mark' = NoMark
          /\ focus' = "editor"
       \/ UNCHANGED <<buf, mark>> /\ focus' \in {focus, "editor"}
    /\ UNCHANGED open

(* The waiting palette is filled, or goes with the answer that never came. *)
DependenciesLoaded ==
    /\ Answered("names")
    /\ \/ open' = Add(open, "palette", "names")
       \/ open' = Close(open, {"palette"})
    /\ UNCHANGED <<focus, buf, mark>>

(* finish_update_target(): the answer may not take the keyboard from a     *)
(* newer owner.                                                            *)
UpdateTargetLoaded ==
    /\ Answered("target")
    /\ \/ /\ open = << >> /\ focus = "results" /\ Idle /\ plan = "none" /\ Visible
          /\ open' = Add(open, "value", "")
       \/ UNCHANGED open
    /\ UNCHANGED <<focus, buf, mark>>

CompletionLoaded ==
    /\ Is(open, "completion")
    /\ \/ open' = Add(open, "completion", buf.at)
       \/ open' = Close(open, {"completion"})
    /\ UNCHANGED <<focus, buf, mark, conn, running, plan, asked, shown>>

Step ==
    \/ \E key \in Key : KeyPressed(key)
    \/ Pasted \/ PanePressed \/ RowPressedTwice \/ CellPressedTwice \/ ItemPressedTwice
    \/ Connected \/ ConnectionFailed \/ ConnectionLost
    \/ ExecutionFinished \/ PlanFinished \/ RowsGone
    \/ QueriesListed \/ QuerySaved \/ QueryLoaded
    \/ DependenciesLoaded \/ UpdateTargetLoaded \/ CompletionLoaded

Next ==
    /\ Step
    /\ Cardinality(DOMAIN open') =< MaxOpen
    /\ Cardinality(asked') =< MaxAsked

Spec == Init /\ [][Next]_vars

-----------------------------------------------------------------------------

(* "Overlays are drawn in the order Esc peels them, so the topmost one is  *)
(* always the one a keypress will act on" (layout.rs:100).  The two orders *)
(* are not each other's reverse (completion is peeled before the inspector *)
(* and drawn below it), so it rests on which surfaces can meet.            *)
TopmostOwnsKeyboard ==
    LET seen == DOMAIN open \cap Overlay
        owner == Owner(DOMAIN open)
    IN seen # {} => owner \in seen /\ \A s \in seen : Height[s] =< Height[owner]

(* A marker of a server error is about the text that is on screen.         *)
MarkIsOfThisText == mark # NoMark => mark.at = buf.at

(* No key, paste or click changes text that an overlay hides ("a keystroke *)
(* that silently edits SQL the user cannot see is the worst outcome here", *)
(* update.rs:2215); only a query that was asked for may arrive under one.  *)
EditsAreSeen ==
    [][buf'.at # buf.at =>
        \/ "load" \in asked \ asked'
        \/ DOMAIN open' \cap Overlay \subseteq {"completion"}]_vars

(* "Records that the buffer now matches something on disk" (editor.rs:125),*)
(* of the mark that it takes away.                                         *)
SavedIsOnDisk == ~buf.modified => buf.disk = buf.at

(* The completion menu is of the text that Enter puts its candidate into:  *)
(* whatever changes the text computes the menu again, or closes it, but    *)
(* for the arrival of a saved query, which leaves it stale.                *)
MenuFollowsTheText ==
    [][Is(open', "completion") /\ buf'.at # buf.at =>
        open'["completion"] = buf'.at \/ "load" \in asked \ asked']_vars
=============================================================================
