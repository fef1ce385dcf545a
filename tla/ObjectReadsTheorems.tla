----------------------- MODULE ObjectReadsTheorems -----------------------
(***************************************************************************)
(* Whatever the order in which the reads of ObjectReads answer, every       *)
(* answer that is kept is the one that was asked for, and whatever waits    *)
(* has a read on its way, for any schemas, any listings and any bounds.     *)
(***************************************************************************)
EXTENDS ObjectReads, TLAPS

----------------------------------------------------------------------------
(* Facts about the data. *)

\* A node of the tree is a record with a name and an identity it may wait for.
LEMMA NodesOfTree ==
    ASSUME TreeTypes, NEW i \in DOMAIN roots
    PROVE  /\ roots[i] \in Node
           /\ roots[i].name \in Name
           /\ roots[i].pending \in Nat
           /\ i \in Nat
  BY DEF TreeTypes, Node

\* A node just listed, or whose groups are built again, waits for nothing and holds nothing.
LEMMA EmptyNodes ==
    ASSUME NEW name \in Name, NEW node \in Node
    PROVE  /\ Fresh(name) \in Node /\ Fresh(name).name = name
           /\ Fresh(name).pending = 0 /\ Fresh(name).holds = Unread
           /\ Expanded(node) \in Node /\ Expanded(node).name = node.name
           /\ Expanded(node).pending = 0 /\ Expanded(node).holds = Unread
  BY DEF Fresh, Expanded, Node, Unread

\* A node that is answered no longer waits, and holds the answer.
LEMMA AnsweredNodes ==
    ASSUME NEW node \in Node, NEW found \in {node.name, Failed}
    PROVE  /\ [node EXCEPT !.pending = 0, !.holds = found] \in Node
           /\ [node EXCEPT !.pending = 0, !.holds = found].name = node.name
           /\ [node EXCEPT !.pending = 0, !.holds = found].pending = 0
           /\ [node EXCEPT !.pending = 0, !.holds = found].holds = found
<1>1. found \in Name \cup {Unread, Failed}
  BY DEF Node
<1> QED
  BY <1>1 DEF Node

\* A tree with nothing in it is within its bound.
LEMMA EmptyTree ==
    ASSUME NEW nodes \in [1..0 -> Node]
    PROVE  \E n \in 0..MaxRoots : nodes \in [1..n -> Node]
<1>1. 0 \in 0..MaxRoots
  BY ReadsAssumption
<1> QED
  BY <1>1

\* A closed panel waits for nothing.
LEMMA ClosedPanel ==
    /\ NoDefinition.pending = 0 /\ NoDefinition.about = NoName /\ NoDefinition.holds = Unread
    /\ NoPalette.kind = "none" /\ NoPalette.about = NoName
    /\ Panel("commands").kind = "commands" /\ Panel("commands").about = NoName
  BY DEF NoDefinition, NoPalette, Panel

\* A read that has just been asked for.
LEMMA AskedReads ==
    ASSUME LinkTypes, NEW kind \in Kinds, NEW id \in Nat, NEW path \in Nat,
           NEW about \in Name \cup {NoName}
    PROVE  /\ Ask(kind, id, path, about) \in Read
           /\ Ask(kind, id, path, about).kind = kind
           /\ Ask(kind, id, path, about).id = id
           /\ Ask(kind, id, path, about).gen = generation
           /\ Ask(kind, id, path, about).path = path
           /\ Ask(kind, id, path, about).about = about
           /\ Ask(kind, id, path, about).pc = "queued"
           /\ user => Installed(Ask(kind, id, path, about).slot)
  BY DEF LinkTypes, Ask, Read, Installed

----------------------------------------------------------------------------
(* The initial states. *)

\* Nothing has been listed, asked or read.
LEMMA InitIInv == Init => IInv
<1> SUFFICES ASSUME Init PROVE IInv
  OBVIOUS
<1>1. DOMAIN roots = {} /\ roots \in [1..0 -> Node]
  BY DEF Init
<1>2. LinkTypes /\ WordTypes
  BY DEF Init, LinkTypes, WordTypes
<1>3. TreeTypes
  BY <1>1, EmptyTree DEF Init, TreeTypes
<1>4. ScreenTypes
  BY DEF Init, ScreenTypes, NoDefinition, NoPalette
<1>5. TypeOK
  BY <1>2, <1>3, <1>4 DEF TypeOK, Init
<1>6. NodesHoldTheirOwn /\ TreeIsOfThisConnection
  BY <1>1 DEF NodesHoldTheirOwn, TreeIsOfThisConnection
<1>7. PanelsAnswerTheirQuestion /\ CatalogueIsTheLatest
  BY ClosedPanel DEF Init, PanelsAnswerTheirQuestion, CatalogueIsTheLatest
<1>8. WaitingIsAttended /\ IdsAreHandedOut
  BY <1>1, ClosedPanel DEF Init, WaitingIsAttended, IdsAreHandedOut
<1>9. ReadsAreMeant /\ SlotsAreFilled
  BY DEF Init, ReadsAreMeant, SlotsAreFilled
<1> QED
  BY <1>5, <1>6, <1>7, <1>8, <1>9 DEF IInv

----------------------------------------------------------------------------
(* Keys that only change what is on the screen. *)

\* Closing what waits, or opening what does not, disturbs nothing that is being read.
LEMMA ScreenStep ==
    ASSUME IInv,
           UNCHANGED <<link, tree, words, questioned, reads>>,
           definition' \in {definition, NoDefinition},
           pendingDeps' \in {pendingDeps, 0},
           palette' \in {palette, NoPalette, Panel("commands")},
           overlay' \in {"none", "chord", "panel"},
           listing' \in BOOLEAN
    PROVE  IInv'
<1> USE DEF IInv, link, tree, words
<1>1. ScreenTypes'
  BY DEF TypeOK, ScreenTypes, NoDefinition, NoPalette, Panel
<1>2. TypeOK'
  BY <1>1 DEF TypeOK, LinkTypes, TreeTypes, WordTypes
<1>3. NodesHoldTheirOwn' /\ CatalogueIsTheLatest' /\ TreeIsOfThisConnection'
  BY DEF NodesHoldTheirOwn, CatalogueIsTheLatest, TreeIsOfThisConnection
<1>4. PanelsAnswerTheirQuestion'
  BY ClosedPanel DEF PanelsAnswerTheirQuestion
<1>5. WaitingIsAttended'
  BY ClosedPanel DEF WaitingIsAttended, Attended, Installed
<1>6. IdsAreHandedOut'
  BY ClosedPanel DEF IdsAreHandedOut, TypeOK, TreeTypes
<1>7. ReadsAreMeant'
  BY ClosedPanel DEF ReadsAreMeant, IdsAreHandedOut, TreeKinds
<1>8. SlotsAreFilled'
  BY DEF SlotsAreFilled
<1> QED
  BY <1>2, <1>3, <1>4, <1>5, <1>6, <1>7, <1>8

\* The keys that only open and close.
LEMMA ScreenKeys ==
    ASSUME IInv,
           \/ CloseDefinition \/ OpenPalette \/ Activate \/ Dismiss
           \/ OpenOverlay \/ CloseOverlay \/ ListQueries \/ QueriesListed
    PROVE  IInv'
<1> USE DEF screen, IInv, TypeOK, ScreenTypes
<1>1. CASE CloseDefinition
  BY <1>1, ScreenStep DEF CloseDefinition
<1>2. CASE OpenPalette
  BY <1>2, ScreenStep DEF OpenPalette
<1>3. CASE Activate
  BY <1>3, ScreenStep DEF Activate
<1>4. CASE Dismiss
  BY <1>4, ScreenStep DEF Dismiss
<1>5. CASE OpenOverlay
  BY <1>5, ScreenStep DEF OpenOverlay
<1>6. CASE CloseOverlay
  BY <1>6, ScreenStep DEF CloseOverlay
<1>7. CASE ListQueries
  BY <1>7, ScreenStep DEF ListQueries
<1>8. CASE QueriesListed
  BY <1>8, ScreenStep DEF QueriesListed
<1> QED
  BY <1>1, <1>2, <1>3, <1>4, <1>5, <1>6, <1>7, <1>8

----------------------------------------------------------------------------
(* The connection. *)

\* A step that only fills slots, in the same generation.
LEMMA LinkStep ==
    ASSUME IInv,
           UNCHANGED <<generation, roots, loading, error, nextRequest, reloads, shown,
                       words, screen, reads>>,
           expandFirst' \in BOOLEAN,
           conn' \in {"connecting", "connected", "failed"},
           posted' \in {"nothing", "connected", "reload", "reduced"},
           user' \in BOOLEAN, meta' \in BOOLEAN,
           user => user', meta => meta', meta' => user', posted' # "nothing" => user'
    PROVE  IInv'
<1> USE DEF IInv, words, screen
<1>1. TypeOK'
  BY DEF TypeOK, LinkTypes, TreeTypes, WordTypes, ScreenTypes
<1>2. NodesHoldTheirOwn' /\ PanelsAnswerTheirQuestion' /\ CatalogueIsTheLatest'
  BY DEF NodesHoldTheirOwn, PanelsAnswerTheirQuestion, CatalogueIsTheLatest
<1>3. WaitingIsAttended'
  BY DEF WaitingIsAttended, Attended, Installed
<1>4. TreeIsOfThisConnection' /\ IdsAreHandedOut' /\ ReadsAreMeant'
  BY DEF TreeIsOfThisConnection, IdsAreHandedOut, ReadsAreMeant
<1>5. SlotsAreFilled'
  BY DEF SlotsAreFilled
<1> QED
  BY <1>1, <1>2, <1>3, <1>4, <1>5

\* Sessions are installed, attempts fail and are made again.
LEMMA LinkSteps ==
    ASSUME IInv, Install \/ Fail \/ Retry \/ Connected \/ InstallMetadata
    PROVE  IInv'
<1> USE DEF IInv, TypeOK, LinkTypes, TreeTypes, SlotsAreFilled, tree
<1>1. CASE Install
  BY <1>1, LinkStep DEF Install
<1>2. CASE Fail
  BY <1>2, LinkStep DEF Fail
<1>3. CASE Retry
  BY <1>3, LinkStep DEF Retry
<1>4. CASE Connected
  BY <1>4, LinkStep DEF Connected
<1>5. CASE InstallMetadata
  BY <1>5, LinkStep DEF InstallMetadata
<1> QED
  BY <1>1, <1>2, <1>3, <1>4, <1>5

\* A switch of connection empties the tree, the panels and the slots: no read that is
\* still on its way belongs to the new generation.
LEMMA ConnectProfileStep ==
    ASSUME IInv, ConnectProfile
    PROVE  IInv'
<1> USE DEF IInv, ConnectProfile
<1>1. DOMAIN roots' = {} /\ roots' \in [1..0 -> Node]
  OBVIOUS
<1>2. LinkTypes' /\ WordTypes'
  <2>1. LinkTypes'
    <3>1. generation' \in Nat
      BY DEF TypeOK, LinkTypes
    <3> QED
      BY <3>1 DEF LinkTypes
  <2>2. WordTypes'
    BY DEF TypeOK, WordTypes
  <2> QED
    BY <2>1, <2>2
<1>3. TreeTypes'
  <2>1. \E n \in 0..MaxRoots : roots' \in [1..n -> Node]
    BY <1>1, EmptyTree
  <2>2. nextRequest' \in Nat
    BY DEF TypeOK, TreeTypes
  <2> QED
    BY <2>1, <2>2 DEF TypeOK, TreeTypes
<1>4. ScreenTypes'
  BY DEF TypeOK, ScreenTypes, NoDefinition, NoPalette
<1>5. TypeOK'
  BY <1>2, <1>3, <1>4 DEF TypeOK
<1>6. NodesHoldTheirOwn' /\ TreeIsOfThisConnection'
  BY <1>1 DEF NodesHoldTheirOwn, TreeIsOfThisConnection
<1>7. PanelsAnswerTheirQuestion' /\ CatalogueIsTheLatest'
  BY ClosedPanel DEF PanelsAnswerTheirQuestion, CatalogueIsTheLatest
<1>8. WaitingIsAttended'
  BY <1>1, ClosedPanel DEF WaitingIsAttended
<1>9. IdsAreHandedOut'
  BY <1>1, ClosedPanel DEF IdsAreHandedOut, TypeOK, TreeTypes
<1>10. ReadsAreMeant'
  BY <1>1, ClosedPanel DEF ReadsAreMeant, IdsAreHandedOut, TreeKinds
<1>11. SlotsAreFilled'
  BY DEF SlotsAreFilled, TypeOK, LinkTypes, Read
<1> QED
  BY <1>5, <1>6, <1>7, <1>8, <1>9, <1>10, <1>11

----------------------------------------------------------------------------
(* Asking. *)

\* A reload marks nothing that was waiting, and its two reads answer to nothing else.
LEMMA ReloadStep ==
    ASSUME IInv, Reload,
           UNCHANGED <<generation, conn, user, meta, palette, pendingDeps, listing, questioned>>,
           overlay' = overlay, posted' \in {posted, "reduced"}, posted' = "reduced" => user
    PROVE  IInv'
<1> DEFINE listed == Ask("schemas", reloads', 0, NoName)
           worded == Ask("completion", nextCompletion', 0, NoName)
<1> USE DEF IInv
<1>1. /\ listed \in Read /\ listed.kind = "schemas" /\ listed.id # 0
      /\ listed.gen = generation /\ listed.pc = "queued"
  BY AskedReads DEF Reload, TypeOK, TreeTypes, Kinds
<1>2. /\ worded \in Read /\ worded.kind = "completion"
      /\ worded.gen = generation /\ worded.pc = "queued"
  BY AskedReads DEF Reload, TypeOK, WordTypes, Kinds
<1>3. reads' = reads \cup {listed, worded} /\ definition' = NoDefinition
      /\ UNCHANGED <<roots, nextRequest, expandFirst, shown>>
  BY DEF Reload
<1> HIDE DEF listed, worded
<1>4. TypeOK'
  <2>1. LinkTypes' /\ TreeTypes' /\ WordTypes'
    <3>1. LinkTypes'
      BY DEF TypeOK, LinkTypes, SlotsAreFilled
    <3>2. TreeTypes'
      <4>1. reloads' \in Nat
        BY DEF Reload, TypeOK, TreeTypes
      <4> QED
        BY <1>3, <4>1 DEF Reload, TypeOK, TreeTypes
    <3>3. WordTypes'
      BY DEF Reload, TypeOK, WordTypes
    <3> QED
      BY <3>1, <3>2, <3>3
  <2>2. ScreenTypes'
    BY <1>3 DEF TypeOK, ScreenTypes, NoDefinition
  <2> QED
    BY <2>1, <2>2, <1>1, <1>2, <1>3 DEF TypeOK
<1>5. NodesHoldTheirOwn' /\ TreeIsOfThisConnection'
  BY <1>3 DEF NodesHoldTheirOwn, TreeIsOfThisConnection
<1>6. PanelsAnswerTheirQuestion' /\ CatalogueIsTheLatest'
  BY <1>3, ClosedPanel DEF Reload, PanelsAnswerTheirQuestion, CatalogueIsTheLatest
<1>7. WaitingIsAttended'
  BY <1>3, ClosedPanel DEF WaitingIsAttended, Attended, Installed
<1>8. IdsAreHandedOut'
  BY <1>1, <1>2, <1>3, ClosedPanel DEF IdsAreHandedOut, TreeKinds, TypeOK, TreeTypes
<1>9. ReadsAreMeant'
  BY <1>1, <1>2, <1>3, ClosedPanel DEF ReadsAreMeant, IdsAreHandedOut, TreeKinds
<1>10. SlotsAreFilled'
  BY <1>1, <1>2, <1>3 DEF SlotsAreFilled, TypeOK, LinkTypes
<1> QED
  BY <1>4, <1>5, <1>6, <1>7, <1>8, <1>9, <1>10

\* The reload that a person asks for, and the one that a new connection queues.
LEMMA ReloadSteps ==
    ASSUME IInv, ReloadObjects \/ ReloadPosted
    PROVE  IInv'
<1>1. CASE ReloadObjects
  BY <1>1, ReloadStep DEF ReloadObjects, link, IInv, SlotsAreFilled
<1>2. CASE ReloadPosted
  <2>1. CASE Reload /\ UNCHANGED overlay
    BY <1>2, <2>1, ReloadStep DEF ReloadPosted, IInv, SlotsAreFilled
  <2>2. CASE UNCHANGED <<tree, words, reads, definition>>
            /\ overlay' = IF overlay = "chord" THEN "none" ELSE overlay
    <3> USE DEF IInv, tree, words, ReloadPosted
    <3>1. TypeOK'
      BY <1>2, <2>2 DEF TypeOK, LinkTypes, TreeTypes, WordTypes, ScreenTypes
    <3>2. NodesHoldTheirOwn' /\ PanelsAnswerTheirQuestion' /\ CatalogueIsTheLatest'
      BY <1>2, <2>2 DEF NodesHoldTheirOwn, PanelsAnswerTheirQuestion, CatalogueIsTheLatest
    <3>3. WaitingIsAttended' /\ TreeIsOfThisConnection'
      BY <1>2, <2>2 DEF WaitingIsAttended, Attended, Installed, TreeIsOfThisConnection
    <3>4. IdsAreHandedOut' /\ ReadsAreMeant' /\ SlotsAreFilled'
      BY <1>2, <2>2 DEF IdsAreHandedOut, ReadsAreMeant, SlotsAreFilled
    <3> QED
      BY <3>1, <3>2, <3>3, <3>4
  <2> QED
    BY <1>2, <2>1, <2>2 DEF ReloadPosted
<1> QED
  BY <1>1, <1>2

\* A read for a node of the tree: its identity is new, so nothing else waits for it.
LEMMA ExpandGroupStep ==
    ASSUME IInv, NEW i \in DOMAIN roots, ExpandGroup(i)
    PROVE  IInv'
<1> DEFINE id == nextRequest + 1
           read == Ask("objects", id, i, roots[i].name)
<1> USE DEF IInv
<1>1. /\ nextRequest \in Nat /\ nextRequest' = id /\ id \in Nat /\ id # 0
      /\ definition' = NoDefinition
      /\ UNCHANGED <<link, words, loading, error, expandFirst, reloads, shown,
                     palette, pendingDeps, overlay, listing, questioned>>
  BY DEF ExpandGroup, TypeOK, TreeTypes
<1>2. /\ read \in Read /\ read.kind = "objects" /\ read.id = id /\ read.path = i
      /\ read.about = roots[i].name /\ read.gen = generation /\ read.pc = "queued"
      /\ Installed(read.slot)
  BY <1>1, AskedReads, NodesOfTree DEF TypeOK, Kinds, TreeIsOfThisConnection
<1>3. \/ UNCHANGED <<roots, reads>>
      \/ /\ roots' = [roots EXCEPT ![i].pending = id]
         /\ reads' = reads \cup {read}
         /\ roots[i].pending = 0
  BY <1>1 DEF ExpandGroup
<1>4. DOMAIN roots' = DOMAIN roots
  BY <1>3 DEF TypeOK, TreeTypes
<1>5. \A j \in DOMAIN roots' :
        /\ roots'[j] \in Node /\ roots'[j].name = roots[j].name
        /\ roots'[j].holds = roots[j].holds
        /\ roots'[j].pending = roots[j].pending \/ (j = i /\ roots'[j].pending = id)
        /\ roots'[j].pending = id => reads' = reads \cup {read} /\ j = i
  <2> SUFFICES ASSUME NEW j \in DOMAIN roots
               PROVE  /\ roots'[j] \in Node /\ roots'[j].name = roots[j].name
                      /\ roots'[j].holds = roots[j].holds
                      /\ roots'[j].pending = roots[j].pending \/ (j = i /\ roots'[j].pending = id)
                      /\ roots'[j].pending = id => reads' = reads \cup {read} /\ j = i
    BY <1>4
  <2>1. roots[j] \in Node /\ roots[j].pending # id
    BY <1>1, NodesOfTree DEF TypeOK, IdsAreHandedOut
  <2>2. \/ roots'[j] = roots[j]
        \/ /\ roots'[j] = [roots[j] EXCEPT !.pending = id]
           /\ reads' = reads \cup {read} /\ j = i
    BY <1>3 DEF TypeOK, TreeTypes
  <2>3. [roots[j] EXCEPT !.pending = id] \in Node
    BY <1>1, <2>1 DEF Node
  <2> HIDE DEF read
  <2> QED
    BY <1>1, <2>1, <2>2, <2>3 DEF Node
<1> HIDE DEF id, read
<1>6. TypeOK'
  <2>1. TreeTypes'
    <3>1. PICK n \in 0..MaxRoots : roots \in [1..n -> Node]
      BY DEF TypeOK, TreeTypes
    <3>2. roots' \in [1..n -> Node]
      BY <3>1, <1>3, <1>4, <1>5
    <3>3. \E m \in 0..MaxRoots : roots' \in [1..m -> Node]
      BY <3>1, <3>2
    <3> QED
      BY <1>1, <3>3 DEF TypeOK, TreeTypes
  <2>2. LinkTypes' /\ WordTypes'
    BY <1>1 DEF TypeOK, LinkTypes, WordTypes, link, words
  <2>3. ScreenTypes'
    BY <1>1 DEF TypeOK, ScreenTypes, NoDefinition
  <2> QED
    BY <1>2, <1>3, <2>1, <2>2, <2>3 DEF TypeOK
<1>7. NodesHoldTheirOwn' /\ TreeIsOfThisConnection'
  BY <1>1, <1>4, <1>5 DEF NodesHoldTheirOwn, TreeIsOfThisConnection, link
<1>8. PanelsAnswerTheirQuestion' /\ CatalogueIsTheLatest'
  BY <1>1, ClosedPanel DEF PanelsAnswerTheirQuestion, CatalogueIsTheLatest, words
<1>9. WaitingIsAttended'
  <2>1. ASSUME NEW j \in DOMAIN roots', roots'[j].pending # 0
        PROVE  Attended("objects", roots[j].pending)'
    <3>1. CASE roots'[j].pending = id
      BY <3>1, <1>1, <1>2, <1>5 DEF Attended, Installed, link
    <3>2. CASE roots'[j].pending = roots[j].pending
      BY <3>2, <2>1, <1>1, <1>3, <1>4 DEF WaitingIsAttended, Attended, Installed, link
    <3> QED
      BY <3>1, <3>2, <1>5, <1>4
  <2>2. pendingDeps' # 0 => Attended("dependencies", pendingDeps)'
    BY <1>1, <1>3 DEF WaitingIsAttended, Attended, Installed, link
  <2> QED
    BY <2>1, <2>2, <1>1, ClosedPanel DEF WaitingIsAttended
<1>10. IdsAreHandedOut'
  <2>1. \A r \in reads' : r.kind \in TreeKinds => r.id \in 1..nextRequest'
    BY <1>1, <1>2, <1>3 DEF IdsAreHandedOut, TypeOK, Read, id
  <2>2. \A j \in DOMAIN roots' : roots'[j].pending <= nextRequest'
    BY <1>1, <1>4, <1>5, NodesOfTree DEF IdsAreHandedOut, TypeOK, id
  <2>3. definition'.pending <= nextRequest' /\ pendingDeps' <= nextRequest'
    BY <1>1, ClosedPanel DEF IdsAreHandedOut, TypeOK, ScreenTypes, id
  <2> QED
    BY <2>1, <2>2, <2>3 DEF IdsAreHandedOut
<1>11. ReadsAreMeant'
  <2> SUFFICES ASSUME NEW r \in reads', NEW j \in DOMAIN roots'
               PROVE  /\ r.kind = "objects" /\ roots'[j].pending = r.id =>
                            r.path = j /\ r.about = roots'[j].name
                      /\ r.kind = "definition" /\ definition'.pending = r.id =>
                            r.about = definition'.about
                      /\ r.kind = "dependencies" /\ pendingDeps' = r.id =>
                            r.about = questioned'
    BY <1>4 DEF ReadsAreMeant
  <2>1. CASE r \in reads
    BY <2>1, <1>1, <1>4, <1>5, ClosedPanel DEF ReadsAreMeant, IdsAreHandedOut, TreeKinds, id
  <2>2. CASE r = read
    BY <2>2, <1>2, <1>5
  <2> QED
    BY <2>1, <2>2, <1>3
<1>12. SlotsAreFilled'
  BY <1>1, <1>2, <1>3 DEF SlotsAreFilled, link, TypeOK, LinkTypes
<1> QED
  BY <1>6, <1>7, <1>8, <1>9, <1>10, <1>11, <1>12

\* A read for the definition panel, which waits for it and for no other.
LEMMA ShowDefinitionStep ==
    ASSUME IInv, NEW object \in Objects, ShowDefinition(object)
    PROVE  IInv'
<1> DEFINE id == nextRequest + 1
           read == Ask("definition", id, 0, object)
<1> USE DEF IInv
<1>1. /\ nextRequest \in Nat /\ nextRequest' = id /\ id \in Nat /\ id # 0
      /\ definition' = [pending |-> id, about |-> object, holds |-> Unread]
      /\ UNCHANGED <<link, words, roots, loading, error, expandFirst, reloads, shown,
                     palette, pendingDeps, overlay, listing, questioned>>
      /\ reads' = reads \cup {read}
  <2>1. definition' = [NoDefinition EXCEPT !.pending = id, !.about = object]
    BY DEF ShowDefinition
  <2>2. definition' = [pending |-> id, about |-> object, holds |-> Unread]
    BY <2>1 DEF NoDefinition
  <2>3. nextRequest \in Nat /\ id \in Nat /\ id # 0
    BY DEF TypeOK, TreeTypes
  <2>4. /\ UNCHANGED <<link, words, roots, loading, error, expandFirst, reloads, shown,
                        palette, pendingDeps, overlay, listing, questioned>>
        /\ nextRequest' = id /\ reads' = reads \cup {read}
    BY DEF ShowDefinition
  <2> QED
    BY <2>2, <2>3, <2>4
<1>2. object \in Name /\ user
  BY DEF Objects, TreeIsOfThisConnection
<1>3. /\ read \in Read /\ read.kind = "definition" /\ read.id = id
      /\ read.about = object /\ read.gen = generation /\ read.pc = "queued"
      /\ Installed(read.slot)
  BY <1>1, <1>2, AskedReads DEF TypeOK, Kinds
<1> HIDE DEF id, read
<1>4. TypeOK'
  <2>1. LinkTypes' /\ WordTypes' /\ TreeTypes'
    BY <1>1 DEF TypeOK, LinkTypes, WordTypes, TreeTypes, link, words
  <2>2. ScreenTypes'
    BY <1>1, <1>2 DEF TypeOK, ScreenTypes
  <2> QED
    BY <2>1, <2>2, <1>1, <1>3 DEF TypeOK
<1>5. NodesHoldTheirOwn' /\ TreeIsOfThisConnection' /\ CatalogueIsTheLatest'
  BY <1>1 DEF NodesHoldTheirOwn, TreeIsOfThisConnection, CatalogueIsTheLatest, link, words
<1>6. PanelsAnswerTheirQuestion'
  BY <1>1 DEF PanelsAnswerTheirQuestion
<1>7. WaitingIsAttended'
  <2>1. Attended("definition", definition.pending)'
    BY <1>1, <1>3 DEF Attended, Installed, link
  <2> QED
    BY <2>1, <1>1 DEF WaitingIsAttended, Attended, Installed, link
<1>8. IdsAreHandedOut'
  BY <1>1, <1>3, NodesOfTree DEF IdsAreHandedOut, TypeOK, ScreenTypes, Read, TreeKinds, id
<1>9. ReadsAreMeant'
  BY <1>1, <1>3, NodesOfTree DEF ReadsAreMeant, IdsAreHandedOut, TreeKinds, id
<1>10. SlotsAreFilled'
  BY <1>1, <1>3 DEF SlotsAreFilled, link, TypeOK, LinkTypes
<1> QED
  BY <1>4, <1>5, <1>6, <1>7, <1>8, <1>9, <1>10

\* A read for the dependency palette, which waits for it and for no other.
LEMMA ShowDependenciesStep ==
    ASSUME IInv, NEW object \in Objects, ShowDependencies(object)
    PROVE  IInv'
<1> DEFINE id == nextRequest + 1
           read == Ask("dependencies", id, 0, object)
<1> USE DEF IInv
<1>1. /\ nextRequest \in Nat /\ nextRequest' = id /\ id \in Nat /\ id # 0
      /\ definition' = NoDefinition /\ pendingDeps' = id /\ questioned' = object
      /\ palette' = [kind |-> "awaiting", about |-> object]
      /\ UNCHANGED <<link, words, roots, loading, error, expandFirst, reloads, shown,
                     overlay, listing>>
      /\ reads' = reads \cup {read}
  BY DEF ShowDependencies, TypeOK, TreeTypes
<1>2. object \in Name /\ user
  BY DEF Objects, TreeIsOfThisConnection
<1>3. /\ read \in Read /\ read.kind = "dependencies" /\ read.id = id
      /\ read.about = object /\ read.gen = generation /\ read.pc = "queued"
      /\ Installed(read.slot)
  BY <1>1, <1>2, AskedReads DEF TypeOK, Kinds
<1> HIDE DEF id, read
<1>4. TypeOK'
  <2>1. LinkTypes' /\ WordTypes' /\ TreeTypes'
    BY <1>1 DEF TypeOK, LinkTypes, WordTypes, TreeTypes, link, words
  <2>2. ScreenTypes'
    BY <1>1, <1>2 DEF TypeOK, ScreenTypes, NoDefinition
  <2> QED
    BY <2>1, <2>2, <1>1, <1>3 DEF TypeOK
<1>5. NodesHoldTheirOwn' /\ TreeIsOfThisConnection' /\ CatalogueIsTheLatest'
  BY <1>1 DEF NodesHoldTheirOwn, TreeIsOfThisConnection, CatalogueIsTheLatest, link, words
<1>6. PanelsAnswerTheirQuestion'
  BY <1>1, ClosedPanel DEF PanelsAnswerTheirQuestion
<1>7. WaitingIsAttended'
  <2>1. Attended("dependencies", pendingDeps)'
    BY <1>1, <1>3 DEF Attended, Installed, link
  <2> QED
    BY <2>1, <1>1, ClosedPanel DEF WaitingIsAttended, Attended, Installed, link
<1>8. IdsAreHandedOut'
  BY <1>1, <1>3, NodesOfTree, ClosedPanel
  DEF IdsAreHandedOut, TypeOK, ScreenTypes, Read, TreeKinds, id
<1>9. ReadsAreMeant'
  BY <1>1, <1>3, NodesOfTree, ClosedPanel DEF ReadsAreMeant, IdsAreHandedOut, TreeKinds, id
<1>10. SlotsAreFilled'
  BY <1>1, <1>3 DEF SlotsAreFilled, link, TypeOK, LinkTypes
<1> QED
  BY <1>4, <1>5, <1>6, <1>7, <1>8, <1>9, <1>10

----------------------------------------------------------------------------
(* Answering. *)

\* A task looks in its slot: what waits is read on a slot that holds a session.
LEMMA ReadSlotStep ==
    ASSUME IInv, NEW r \in reads, ReadSlot(r)
    PROVE  IInv'
<1> DEFINE asked == [r EXCEPT !.pc = "asked"]
<1> USE DEF IInv
<1>1. r \in Read /\ r.pc = "queued" /\ UNCHANGED <<link, tree, words, screen>>
  BY DEF ReadSlot, TypeOK
<1>2. /\ asked \in Read /\ asked.pc = "asked" /\ asked.kind = r.kind /\ asked.id = r.id
      /\ asked.gen = r.gen /\ asked.path = r.path /\ asked.about = r.about /\ asked.slot = r.slot
  BY <1>1 DEF Read
<1>3. \/ Installed(r.slot) /\ reads' = (reads \ {r}) \cup {asked}
      \/ ~Installed(r.slot) /\ reads' = reads \ {r}
  BY DEF ReadSlot
<1> HIDE DEF asked
<1>4. TypeOK'
  <2>1. LinkTypes' /\ TreeTypes' /\ WordTypes' /\ ScreenTypes'
    BY <1>1 DEF TypeOK, LinkTypes, TreeTypes, WordTypes, ScreenTypes, link, tree, words, screen
  <2> QED
    BY <2>1, <1>2, <1>3 DEF TypeOK
<1>5. NodesHoldTheirOwn' /\ PanelsAnswerTheirQuestion' /\ CatalogueIsTheLatest'
      /\ TreeIsOfThisConnection'
  BY <1>1 DEF NodesHoldTheirOwn, PanelsAnswerTheirQuestion, CatalogueIsTheLatest,
              TreeIsOfThisConnection, link, tree, words, screen
<1>6. WaitingIsAttended'
  <2>1. ASSUME NEW kind, NEW id, Attended(kind, id)
        PROVE  \E q \in reads' : q.kind = kind /\ q.id = id /\ q.gen = generation
                                 /\ Installed(q.slot)
    BY <2>1, <1>2, <1>3 DEF Attended
  <2> QED
    BY <2>1, <1>1 DEF WaitingIsAttended, Attended, Installed, link, tree, screen
<1>7. IdsAreHandedOut'
  BY <1>1, <1>2, <1>3 DEF IdsAreHandedOut, tree, screen
<1>8. ReadsAreMeant'
  BY <1>1, <1>2, <1>3 DEF ReadsAreMeant, tree, screen
<1>9. SlotsAreFilled'
  BY <1>1, <1>2, <1>3 DEF SlotsAreFilled, Installed, link
<1> QED
  BY <1>4, <1>5, <1>6, <1>7, <1>8, <1>9

\* An answer of another generation goes nowhere, and nothing waits for it.
LEMMA RefusedStep ==
    ASSUME IInv, NEW r \in reads, Refused(r)
    PROVE  IInv'
<1> USE DEF IInv
<1>1. reads' = reads \ {r} /\ r.gen # generation /\ UNCHANGED <<link, tree, words, screen>>
  BY DEF Refused
<1>2. TypeOK'
  BY <1>1 DEF TypeOK, LinkTypes, TreeTypes, WordTypes, ScreenTypes, link, tree, words, screen
<1>3. NodesHoldTheirOwn' /\ PanelsAnswerTheirQuestion' /\ CatalogueIsTheLatest'
      /\ TreeIsOfThisConnection'
  BY <1>1 DEF NodesHoldTheirOwn, PanelsAnswerTheirQuestion, CatalogueIsTheLatest,
              TreeIsOfThisConnection, link, tree, words, screen
<1>4. WaitingIsAttended'
  BY <1>1 DEF WaitingIsAttended, Attended, Installed, link, tree, screen
<1>5. IdsAreHandedOut' /\ ReadsAreMeant' /\ SlotsAreFilled'
  BY <1>1 DEF IdsAreHandedOut, ReadsAreMeant, SlotsAreFilled, link, tree, screen
<1> QED
  BY <1>2, <1>3, <1>4, <1>5

\* A new listing: its nodes wait for nothing, so every read of the old ones is dropped.
LEMMA SchemasLoadedStep ==
    ASSUME IInv, NEW r \in reads, SchemasLoaded(r)
    PROVE  IInv'
<1> USE DEF IInv
<1>1. /\ r \in Read /\ r.kind = "schemas" /\ r.pc = "asked" /\ r.gen = generation
      /\ r.id # 0 /\ user
      /\ reads' = reads \ {r} /\ loading' = FALSE /\ expandFirst' \in BOOLEAN
      /\ UNCHANGED <<link, nextRequest, reloads, words, screen>>
  BY DEF SchemasLoaded, Arrives, TypeOK, SlotsAreFilled
<1>2. /\ \E n \in 0..MaxRoots : roots' \in [1..n -> Node]
      /\ \A i \in DOMAIN roots' :
            \/ roots'[i].pending = 0 /\ roots'[i].holds = Unread
            \/ i \in DOMAIN roots /\ roots'[i] = roots[i]
      /\ error' \in BOOLEAN /\ shown' \in Nat
      /\ DOMAIN roots' # {} => shown' # 0
  <2>1. ASSUME NEW nodes, NEW n \in 0..MaxRoots, nodes \in [1..n -> Node]
        PROVE  /\ Opened(nodes) \in [1..n -> Node]
               /\ DOMAIN Opened(nodes) = DOMAIN nodes
               /\ \A i \in DOMAIN nodes :
                    \/ Opened(nodes)[i].pending = 0 /\ Opened(nodes)[i].holds = Unread
                    \/ Opened(nodes)[i] = nodes[i]
    <3>1. CASE expandFirst /\ 1 \in DOMAIN nodes
      <4>1. nodes[1] \in Node
        BY <2>1, <3>1
      <4>2. nodes[1].name \in Name
        BY <4>1 DEF Node
      <4> QED
        BY <2>1, <3>1, <4>1, <4>2, EmptyNodes DEF Opened
    <3>2. CASE ~(expandFirst /\ 1 \in DOMAIN nodes)
      BY <2>1, <3>2 DEF Opened
    <3> QED
      BY <3>1, <3>2
  <2>2. CASE roots' = Opened(roots) /\ error' = TRUE /\ UNCHANGED shown
    <3>1. PICK n \in 0..MaxRoots : roots \in [1..n -> Node]
      BY DEF TypeOK, TreeTypes
    <3>2. /\ roots' \in [1..n -> Node] /\ DOMAIN roots' = DOMAIN roots
          /\ \A i \in DOMAIN roots :
                \/ roots'[i].pending = 0 /\ roots'[i].holds = Unread
                \/ roots'[i] = roots[i]
      BY <2>1, <2>2, <3>1
    <3>3. \E m \in 0..MaxRoots : roots' \in [1..m -> Node]
      BY <3>1, <3>2
    <3> QED
      BY <2>2, <3>2, <3>3 DEF TypeOK, TreeTypes, TreeIsOfThisConnection
  <2>3. CASE \E names \in Listings :
                /\ roots' = Opened([i \in DOMAIN names |-> Fresh(names[i])])
                /\ error' = FALSE
                /\ shown' = r.id
    <3>1. PICK names \in Listings :
                /\ roots' = Opened([i \in DOMAIN names |-> Fresh(names[i])])
                /\ error' = FALSE
                /\ shown' = r.id
      BY <2>3
    <3>2. PICK n \in 1..MaxRoots : names \in [1..n -> Name]
      BY DEF Listings
    <3>3. n \in 0..MaxRoots
      BY <3>2, ReadsAssumption
    <3> DEFINE nodes == [i \in DOMAIN names |-> Fresh(names[i])]
    <3>4. \A i \in 1..n : Fresh(names[i]) \in Node /\ Fresh(names[i]).pending = 0
                          /\ Fresh(names[i]).holds = Unread
      BY <3>2 DEF Fresh, Node, Unread
    <3>5. /\ nodes \in [1..n -> Node] /\ DOMAIN nodes = 1..n
          /\ \A i \in DOMAIN nodes : nodes[i].pending = 0 /\ nodes[i].holds = Unread
      BY <3>2, <3>4
    <3>6. roots' = Opened(nodes)
      BY <3>1
    <3> HIDE DEF nodes
    <3>7. /\ roots' \in [1..n -> Node]
          /\ \A i \in DOMAIN roots' : roots'[i].pending = 0 /\ roots'[i].holds = Unread
      BY <2>1, <3>3, <3>5, <3>6
    <3>8. shown' \in Nat /\ shown' # 0 /\ error' \in BOOLEAN
      BY <1>1, <3>1 DEF Read
    <3>9. \E m \in 0..MaxRoots : roots' \in [1..m -> Node]
      BY <3>3, <3>7
    <3> QED
      BY <3>7, <3>8, <3>9
  <2> QED
    BY <2>2, <2>3 DEF SchemasLoaded
<1>3. TypeOK'
  <2>1. TreeTypes'
    BY <1>1, <1>2 DEF TypeOK, TreeTypes
  <2>2. LinkTypes' /\ WordTypes' /\ ScreenTypes'
    BY <1>1 DEF TypeOK, LinkTypes, WordTypes, ScreenTypes, link, words, screen
  <2> QED
    BY <2>1, <2>2, <1>1 DEF TypeOK
<1>4. NodesHoldTheirOwn' /\ TreeIsOfThisConnection'
  BY <1>1, <1>2 DEF NodesHoldTheirOwn, TreeIsOfThisConnection, link
<1>5. PanelsAnswerTheirQuestion' /\ CatalogueIsTheLatest'
  BY <1>1 DEF PanelsAnswerTheirQuestion, CatalogueIsTheLatest, words, screen
<1>6. WaitingIsAttended'
  BY <1>1, <1>2 DEF WaitingIsAttended, Attended, Installed, link, screen
<1>7. IdsAreHandedOut'
  BY <1>1, <1>2 DEF IdsAreHandedOut, screen, TypeOK, TreeTypes
<1>8. ReadsAreMeant'
  BY <1>1, <1>2 DEF ReadsAreMeant, IdsAreHandedOut, TreeKinds, screen
<1>9. SlotsAreFilled'
  BY <1>1 DEF SlotsAreFilled, link
<1> QED
  BY <1>3, <1>4, <1>5, <1>6, <1>7, <1>8, <1>9

\* The words for completion: kept only when the last reload asked for them.
LEMMA CompletionLoadedStep ==
    ASSUME IInv, NEW r \in reads, CompletionLoaded(r)
    PROVE  IInv'
<1> USE DEF IInv
<1>1. /\ r.kind = "completion" /\ reads' = reads \ {r}
      /\ UNCHANGED <<link, tree, nextCompletion, screen>>
      /\ \/ UNCHANGED completion
         \/ /\ completion.state = "loading" /\ completion.request = r.id
            /\ \E state \in {"ready", "unavailable"} :
                    completion' = [state |-> state, request |-> r.id]
  BY DEF CompletionLoaded, Arrives, Accepts
<1>2. TypeOK'
  <2>1. LinkTypes' /\ TreeTypes' /\ ScreenTypes'
    BY <1>1 DEF TypeOK, LinkTypes, TreeTypes, ScreenTypes, link, tree, screen
  <2>2. WordTypes'
    BY <1>1 DEF TypeOK, WordTypes, Read
  <2> QED
    BY <2>1, <2>2, <1>1 DEF TypeOK
<1>3. NodesHoldTheirOwn' /\ PanelsAnswerTheirQuestion' /\ TreeIsOfThisConnection'
  BY <1>1 DEF NodesHoldTheirOwn, PanelsAnswerTheirQuestion, TreeIsOfThisConnection,
              link, tree, screen
<1>4. CatalogueIsTheLatest'
  BY <1>1 DEF CatalogueIsTheLatest
<1>5. WaitingIsAttended'
  BY <1>1 DEF WaitingIsAttended, Attended, Installed, link, tree, screen
<1>6. IdsAreHandedOut' /\ ReadsAreMeant' /\ SlotsAreFilled'
  BY <1>1 DEF IdsAreHandedOut, ReadsAreMeant, SlotsAreFilled, link, tree, screen
<1> QED
  BY <1>2, <1>3, <1>4, <1>5, <1>6

\* The objects of a schema: kept by the node that waits for them, which names that schema.
LEMMA MetadataLoadedStep ==
    ASSUME IInv, NEW r \in reads, MetadataLoaded(r)
    PROVE  IInv'
<1> USE DEF IInv
<1>1. /\ r \in Read /\ r.kind = "objects" /\ reads' = reads \ {r}
      /\ UNCHANGED <<link, loading, error, nextRequest, expandFirst, reloads, shown,
                     words, screen>>
  BY DEF MetadataLoaded, Arrives, TypeOK
<1>2. \/ UNCHANGED roots /\ ~Awaits(r.path, r.id)
      \/ /\ Awaits(r.path, r.id)
         /\ \E found \in {r.about, Failed} :
                roots' = [roots EXCEPT ![r.path] = [@ EXCEPT !.pending = 0, !.holds = found]]
  BY DEF MetadataLoaded
<1>3. DOMAIN roots' = DOMAIN roots
  BY <1>2 DEF TypeOK, TreeTypes
<1>4. \A j \in DOMAIN roots :
        /\ roots'[j] \in Node /\ roots'[j].name = roots[j].name
        /\ \/ roots'[j].pending = 0 /\ roots'[j].holds \in {roots[j].name, Failed}
           \/ roots'[j] = roots[j] /\ roots[j].pending # r.id
  <2> SUFFICES ASSUME NEW j \in DOMAIN roots
               PROVE  /\ roots'[j] \in Node /\ roots'[j].name = roots[j].name
                      /\ \/ roots'[j].pending = 0 /\ roots'[j].holds \in {roots[j].name, Failed}
                         \/ roots'[j] = roots[j] /\ roots[j].pending # r.id
    OBVIOUS
  <2>1. roots[j] \in Node
    BY NodesOfTree DEF TypeOK
  <2>2. roots[j].pending = r.id => r.path = j /\ r.about = roots[j].name
    BY <1>1 DEF ReadsAreMeant
  <2>3. CASE roots[j].pending = r.id
    <3>1. Awaits(r.path, r.id)
      BY <2>2, <2>3 DEF Awaits
    <3>2. PICK found \in {r.about, Failed} :
            roots' = [roots EXCEPT ![r.path] = [@ EXCEPT !.pending = 0, !.holds = found]]
      BY <1>2, <3>1
    <3>3. roots'[j] = [roots[j] EXCEPT !.pending = 0, !.holds = found]
      BY <3>2, <2>2, <2>3 DEF TypeOK, TreeTypes
    <3>4. found \in {roots[j].name, Failed}
      BY <2>2, <2>3
    <3> DEFINE answered == [roots[j] EXCEPT !.pending = 0, !.holds = found]
    <3>5. /\ answered \in Node /\ answered.name = roots[j].name
          /\ answered.pending = 0 /\ answered.holds = found
      BY <2>1, <3>4, AnsweredNodes
    <3>6. roots'[j] = answered
      BY <3>3
    <3> HIDE DEF answered
    <3> QED
      BY <3>4, <3>5, <3>6
  <2>4. CASE roots[j].pending # r.id
    <3>1. roots'[j] = roots[j]
      BY <1>2, <2>4 DEF Awaits, TypeOK, TreeTypes
    <3> QED
      BY <2>1, <2>4, <3>1
  <2> QED
    BY <2>3, <2>4
<1>5. TypeOK'
  <2>1. TreeTypes'
    <3>1. PICK n \in 0..MaxRoots : roots \in [1..n -> Node]
      BY DEF TypeOK, TreeTypes
    <3>2. roots' \in [1..n -> Node]
      BY <3>1, <1>2, <1>3, <1>4
    <3>3. \E m \in 0..MaxRoots : roots' \in [1..m -> Node]
      BY <3>1, <3>2
    <3> QED
      BY <1>1, <3>3 DEF TypeOK, TreeTypes
  <2>2. LinkTypes' /\ WordTypes' /\ ScreenTypes'
    BY <1>1 DEF TypeOK, LinkTypes, WordTypes, ScreenTypes, link, words, screen
  <2> QED
    BY <2>1, <2>2, <1>1 DEF TypeOK
<1>6. NodesHoldTheirOwn' /\ TreeIsOfThisConnection'
  BY <1>1, <1>3, <1>4 DEF NodesHoldTheirOwn, TreeIsOfThisConnection, link
<1>7. PanelsAnswerTheirQuestion' /\ CatalogueIsTheLatest'
  BY <1>1 DEF PanelsAnswerTheirQuestion, CatalogueIsTheLatest, words, screen
<1>8. WaitingIsAttended'
  <2>1. ASSUME NEW j \in DOMAIN roots', roots'[j].pending # 0
        PROVE  Attended("objects", roots[j].pending)'
    <3>1. roots'[j] = roots[j] /\ roots[j].pending # r.id
      BY <2>1, <1>3, <1>4
    <3>2. Attended("objects", roots[j].pending)
      BY <2>1, <3>1, <1>3 DEF WaitingIsAttended
    <3> QED
      BY <3>1, <3>2, <1>1 DEF Attended, Installed, link
  <2> QED
    BY <2>1, <1>1 DEF WaitingIsAttended, Attended, Installed, link, screen
<1>9. IdsAreHandedOut'
  BY <1>1, <1>3, <1>4 DEF IdsAreHandedOut, screen, TypeOK, TreeTypes
<1>10. ReadsAreMeant'
  <2> SUFFICES ASSUME NEW q \in reads', NEW j \in DOMAIN roots'
               PROVE  q.kind = "objects" /\ roots'[j].pending = q.id =>
                            q.path = j /\ q.about = roots'[j].name
    BY <1>1 DEF ReadsAreMeant, screen
  <2>1. q.kind = "objects" => q.id # 0
    BY <1>1 DEF IdsAreHandedOut, TreeKinds, TypeOK, TreeTypes
  <2> QED
    BY <2>1, <1>1, <1>3, <1>4 DEF ReadsAreMeant
<1>11. SlotsAreFilled'
  BY <1>1 DEF SlotsAreFilled, link
<1> QED
  BY <1>5, <1>6, <1>7, <1>8, <1>9, <1>10, <1>11

\* The definition of an object: kept by the panel only when it waits for this read.
LEMMA DefinitionLoadedStep ==
    ASSUME IInv, NEW r \in reads, DefinitionLoaded(r)
    PROVE  IInv'
<1> USE DEF IInv
<1>1. /\ r \in Read /\ r.kind = "definition" /\ reads' = reads \ {r} /\ r.id \in Nat /\ r.id # 0
      /\ UNCHANGED <<link, tree, words, palette, pendingDeps, overlay, listing, questioned>>
  BY DEF DefinitionLoaded, Arrives, TypeOK, IdsAreHandedOut, TreeKinds, TreeTypes
<1>2. \/ definition' = definition /\ definition.pending # r.id
      \/ /\ definition'.pending = 0 /\ definition'.about = definition.about
         /\ definition'.holds \in {definition.about, Failed}
         /\ definition' \in [pending : Nat, about : Name \cup {NoName},
                             holds : Name \cup {NoName, Unread, Failed}]
  <2>1. CASE definition.pending # r.id
    BY <2>1 DEF DefinitionLoaded
  <2>2. CASE definition.pending = r.id
    <3>1. PICK found \in {r.about, Failed} :
            definition' = [definition EXCEPT !.pending = 0, !.holds = found]
      BY <2>2 DEF DefinitionLoaded
    <3>2. found \in {definition.about, Failed}
      BY <1>1, <2>2 DEF ReadsAreMeant
    <3> QED
      BY <3>1, <3>2 DEF TypeOK, ScreenTypes
  <2> QED
    BY <2>1, <2>2
<1>3. TypeOK'
  <2>1. ScreenTypes'
    BY <1>1, <1>2 DEF TypeOK, ScreenTypes
  <2>2. LinkTypes' /\ WordTypes' /\ TreeTypes'
    BY <1>1 DEF TypeOK, LinkTypes, WordTypes, TreeTypes, link, words, tree
  <2> QED
    BY <2>1, <2>2, <1>1 DEF TypeOK
<1>4. NodesHoldTheirOwn' /\ TreeIsOfThisConnection' /\ CatalogueIsTheLatest'
  BY <1>1 DEF NodesHoldTheirOwn, TreeIsOfThisConnection, CatalogueIsTheLatest, link, words, tree
<1>5. PanelsAnswerTheirQuestion'
  BY <1>1, <1>2 DEF PanelsAnswerTheirQuestion
<1>6. WaitingIsAttended'
  BY <1>1, <1>2 DEF WaitingIsAttended, Attended, Installed, link, tree
<1>7. IdsAreHandedOut'
  BY <1>1, <1>2 DEF IdsAreHandedOut, tree, TypeOK, TreeTypes
<1>8. ReadsAreMeant'
  BY <1>1, <1>2 DEF ReadsAreMeant, IdsAreHandedOut, TreeKinds, tree
<1>9. SlotsAreFilled'
  BY <1>1 DEF SlotsAreFilled, link
<1> QED
  BY <1>3, <1>4, <1>5, <1>6, <1>7, <1>8, <1>9

\* The dependencies of an object: listed only when the palette waits for this read.
LEMMA DependenciesLoadedStep ==
    ASSUME IInv, NEW r \in reads, DependenciesLoaded(r)
    PROVE  IInv'
<1> USE DEF IInv
<1>1. /\ r \in Read /\ r.kind = "dependencies" /\ reads' = reads \ {r}
      /\ r.id \in Nat /\ r.id # 0
      /\ UNCHANGED <<link, tree, words, definition, overlay, listing, questioned>>
  BY DEF DependenciesLoaded, Arrives, TypeOK, IdsAreHandedOut, TreeKinds, TreeTypes
<1>2. \/ UNCHANGED <<pendingDeps, palette>> /\ pendingDeps # r.id
      \/ /\ pendingDeps' = 0
         /\ \/ palette' = [kind |-> "dependencies", about |-> questioned]
            \/ palette' = NoPalette
  BY <1>1 DEF DependenciesLoaded, ReadsAreMeant
<1>3. TypeOK'
  <2>1. ScreenTypes'
    BY <1>1, <1>2 DEF TypeOK, ScreenTypes, NoPalette
  <2>2. LinkTypes' /\ WordTypes' /\ TreeTypes'
    BY <1>1 DEF TypeOK, LinkTypes, WordTypes, TreeTypes, link, words, tree
  <2> QED
    BY <2>1, <2>2, <1>1 DEF TypeOK
<1>4. NodesHoldTheirOwn' /\ TreeIsOfThisConnection' /\ CatalogueIsTheLatest'
  BY <1>1 DEF NodesHoldTheirOwn, TreeIsOfThisConnection, CatalogueIsTheLatest, link, words, tree
<1>5. PanelsAnswerTheirQuestion'
  BY <1>1, <1>2, ClosedPanel DEF PanelsAnswerTheirQuestion
<1>6. WaitingIsAttended'
  BY <1>1, <1>2 DEF WaitingIsAttended, Attended, Installed, link, tree
<1>7. IdsAreHandedOut'
  BY <1>1, <1>2 DEF IdsAreHandedOut, tree, TypeOK, TreeTypes
<1>8. ReadsAreMeant'
  BY <1>1, <1>2 DEF ReadsAreMeant, IdsAreHandedOut, TreeKinds, tree
<1>9. SlotsAreFilled'
  BY <1>1 DEF SlotsAreFilled, link
<1> QED
  BY <1>3, <1>4, <1>5, <1>6, <1>7, <1>8, <1>9

----------------------------------------------------------------------------
(* The invariant. *)

\* Collapsing a schema, or building its groups again, drops whatever they waited for.
LEMMA ToggleSchemaStep ==
    ASSUME IInv, NEW i \in DOMAIN roots, ToggleSchema(i)
    PROVE  IInv'
<1> USE DEF IInv
<1>1. /\ definition' = NoDefinition
      /\ UNCHANGED <<link, loading, error, nextRequest, expandFirst, reloads, shown, words,
                     palette, pendingDeps, overlay, listing, questioned, reads>>
  BY DEF ToggleSchema
<1>2. /\ DOMAIN roots' = DOMAIN roots
      /\ \A j \in DOMAIN roots :
            /\ roots'[j] \in Node /\ roots'[j].name = roots[j].name
            /\ \/ roots'[j].pending = 0 /\ roots'[j].holds = Unread
               \/ roots'[j].pending = roots[j].pending /\ roots'[j].holds = roots[j].holds
  <2>1. PICK n \in 0..MaxRoots : roots \in [1..n -> Node]
    BY DEF TypeOK, TreeTypes
  <2>2. \A j \in DOMAIN roots : roots[j] \in Node
    BY <2>1
  <2>3. roots' = [roots EXCEPT ![i] = IF @.open THEN [@ EXCEPT !.open = FALSE] ELSE Expanded(@)]
    BY DEF ToggleSchema
  <2>4. /\ [roots[i] EXCEPT !.open = FALSE] \in Node
        /\ [roots[i] EXCEPT !.open = FALSE].name = roots[i].name
        /\ [roots[i] EXCEPT !.open = FALSE].pending = roots[i].pending
        /\ [roots[i] EXCEPT !.open = FALSE].holds = roots[i].holds
    BY <2>2 DEF Node
  <2>5. /\ Expanded(roots[i]) \in Node /\ Expanded(roots[i]).name = roots[i].name
        /\ Expanded(roots[i]).pending = 0 /\ Expanded(roots[i]).holds = Unread
    BY <2>2, EmptyNodes, NodesOfTree DEF TypeOK
  <2>6. /\ DOMAIN roots' = DOMAIN roots
        /\ \A j \in DOMAIN roots : j # i => roots'[j] = roots[j]
        /\ roots'[i] \in {[roots[i] EXCEPT !.open = FALSE], Expanded(roots[i])}
    BY <2>1, <2>3
  <2> QED
    BY <2>2, <2>4, <2>5, <2>6
<1>3. TypeOK'
  <2>1. TreeTypes'
    <3>1. PICK n \in 0..MaxRoots : roots \in [1..n -> Node]
      BY DEF TypeOK, TreeTypes
    <3>2. roots' \in [1..n -> Node]
      BY <3>1, <1>2 DEF ToggleSchema
    <3>3. \E m \in 0..MaxRoots : roots' \in [1..m -> Node]
      BY <3>1, <3>2
    <3> QED
      BY <1>1, <3>3 DEF TypeOK, TreeTypes
  <2>2. LinkTypes' /\ WordTypes' /\ ScreenTypes'
    BY <1>1 DEF TypeOK, LinkTypes, WordTypes, ScreenTypes, link, words, NoDefinition
  <2> QED
    BY <2>1, <2>2, <1>1 DEF TypeOK
<1>4. NodesHoldTheirOwn' /\ TreeIsOfThisConnection' /\ CatalogueIsTheLatest'
  BY <1>1, <1>2 DEF NodesHoldTheirOwn, TreeIsOfThisConnection, CatalogueIsTheLatest, link, words
<1>5. PanelsAnswerTheirQuestion'
  BY <1>1, ClosedPanel DEF PanelsAnswerTheirQuestion
<1>6. WaitingIsAttended'
  <2>1. ASSUME NEW j \in DOMAIN roots', roots'[j].pending # 0
        PROVE  Attended("objects", roots[j].pending)'
    <3>1. roots'[j].pending = roots[j].pending
      BY <2>1, <1>2
    <3>2. Attended("objects", roots[j].pending)
      BY <2>1, <3>1, <1>2 DEF WaitingIsAttended
    <3> QED
      BY <3>1, <3>2, <1>1 DEF Attended, Installed, link
  <2> QED
    BY <2>1, <1>1, ClosedPanel DEF WaitingIsAttended, Attended, Installed, link
<1>7. IdsAreHandedOut'
  BY <1>1, <1>2, ClosedPanel DEF IdsAreHandedOut, TypeOK, TreeTypes
<1>8. ReadsAreMeant'
  <2> SUFFICES ASSUME NEW q \in reads
               PROVE  /\ q.kind = "objects" =>
                            \A j \in DOMAIN roots' : roots'[j].pending = q.id =>
                                q.path = j /\ q.about = roots'[j].name
                      /\ q.kind = "definition" => definition'.pending # q.id
                      /\ q.kind = "dependencies" =>
                            (pendingDeps' = q.id => q.about = questioned')
    BY <1>1 DEF ReadsAreMeant
  <2>1. q.kind \in TreeKinds => q.id # 0
    BY DEF IdsAreHandedOut, TypeOK, TreeTypes
  <2> QED
    BY <2>1, <1>1, <1>2, ClosedPanel DEF ReadsAreMeant, TreeKinds
<1>9. SlotsAreFilled'
  BY <1>1 DEF SlotsAreFilled, link
<1> QED
  BY <1>3, <1>4, <1>5, <1>6, <1>7, <1>8, <1>9

\* The invariant is inductive: one case per action of Next.
LEMMA NextStep == ASSUME IInv, [Next]_vars PROVE IInv'
<1>1. CASE Key
  <2>1. CASE ReloadObjects
    BY <2>1, ReloadSteps
  <2>2. CASE \E i \in DOMAIN roots : ToggleSchema(i) \/ ExpandGroup(i)
    BY <2>2, ToggleSchemaStep, ExpandGroupStep
  <2>3. CASE \E object \in Objects : ShowDefinition(object) \/ ShowDependencies(object)
    BY <2>3, ShowDefinitionStep, ShowDependenciesStep
  <2>4. CASE CloseDefinition \/ OpenPalette \/ Activate \/ Dismiss
             \/ OpenOverlay \/ CloseOverlay \/ ListQueries
    BY <2>4, ScreenKeys
  <2>5. CASE ConnectProfile
    BY <2>5, ConnectProfileStep
  <2> QED
    BY <1>1, <2>1, <2>2, <2>3, <2>4, <2>5 DEF Key
<1>2. CASE Connection
  BY <1>2, LinkSteps, ReloadSteps DEF Connection
<1>3. CASE QueriesListed
  BY <1>3, ScreenKeys
<1>4. CASE \E r \in reads : Serve(r)
  BY <1>4, ReadSlotStep, RefusedStep, SchemasLoadedStep, CompletionLoadedStep,
     MetadataLoadedStep, DefinitionLoadedStep, DependenciesLoadedStep DEF Serve
<1>5. CASE UNCHANGED vars
  <2>1. UNCHANGED <<link, tree, words, screen, reads>>
    BY <1>5 DEF vars
  <2>2. TypeOK'
    BY <2>1 DEF IInv, TypeOK, LinkTypes, TreeTypes, WordTypes, ScreenTypes,
                link, tree, words, screen
  <2>3. NodesHoldTheirOwn' /\ PanelsAnswerTheirQuestion' /\ CatalogueIsTheLatest'
        /\ TreeIsOfThisConnection' /\ WaitingIsAttended'
    BY <2>1 DEF IInv, NodesHoldTheirOwn, PanelsAnswerTheirQuestion, CatalogueIsTheLatest,
                TreeIsOfThisConnection, WaitingIsAttended, Attended, Installed,
                link, tree, words, screen
  <2>4. IdsAreHandedOut' /\ ReadsAreMeant' /\ SlotsAreFilled'
    BY <2>1 DEF IInv, IdsAreHandedOut, ReadsAreMeant, SlotsAreFilled, link, tree, screen
  <2> QED
    BY <2>2, <2>3, <2>4 DEF IInv
<1> QED
  BY <1>1, <1>2, <1>3, <1>4, <1>5 DEF Next

\* Whatever is asked, answered, given up or reconnected, and in whatever order, the
\* invariant holds in every state.
THEOREM ReadsInvariant == Spec => []IInv
<1>1. Init => IInv
  BY InitIInv
<1>2. IInv /\ [Next]_vars => IInv'
  BY NextStep
<1> QED
  BY <1>1, <1>2, PTL DEF Spec

\* Every variable stays within its type: the tree within its bound, each read a read.
THEOREM TypesHold == Spec => []TypeOK
<1>1. IInv => TypeOK
  BY DEF IInv
<1> QED
  BY <1>1, ReadsInvariant, PTL

\* No group of the tree ever shows the objects of a schema it does not name.
THEOREM NodesAreRight == Spec => []NodesHoldTheirOwn
<1>1. IInv => NodesHoldTheirOwn
  BY DEF IInv
<1> QED
  BY <1>1, ReadsInvariant, PTL

\* The definition panel and the dependency list are always about what was asked.
THEOREM PanelsAreRight == Spec => []PanelsAnswerTheirQuestion
<1>1. IInv => PanelsAnswerTheirQuestion
  BY DEF IInv
<1> QED
  BY <1>1, ReadsInvariant, PTL

\* The completion catalogue is always that of the last reload.
THEOREM CatalogueIsRight == Spec => []CatalogueIsTheLatest
<1>1. IInv => CatalogueIsTheLatest
  BY DEF IInv
<1> QED
  BY <1>1, ReadsInvariant, PTL

\* Nothing that shows it is waiting has been forgotten.
THEOREM NothingIsForgotten == Spec => []WaitingIsAttended
<1>1. IInv => WaitingIsAttended
  BY DEF IInv
<1> QED
  BY <1>1, ReadsInvariant, PTL

\* A tree with schemas in it is never one that another connection listed.
THEOREM TreeIsRight == Spec => []TreeIsOfThisConnection
<1>1. IInv => TreeIsOfThisConnection
  BY DEF IInv
<1> QED
  BY <1>1, ReadsInvariant, PTL

=============================================================================
