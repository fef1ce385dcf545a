---------------------------- MODULE ReleaseGate ----------------------------
(***************************************************************************)
(* The files of a release and the commands that make and judge them        *)
(* (xtask/src/release.rs): one record per target, the catalogue that       *)
(* aggregates them and the evidence bundle.                                *)
(*                                                                         *)
(* The commands that write a file are actions.  Those that only read       *)
(* (check, validate) are predicates on the files as they are; those that   *)
(* compare a manifest and sidecars with the archives are not modelled.     *)
(* What people and other tools do to the files between two commands        *)
(* (commit, tag, build, edit the catalogue, replace an archive) are        *)
(* actions too, and external.                                              *)
(*                                                                         *)
(* The bytes of an archive are a number, which is also their digest; two   *)
(* archives may have the same size.  A blocker is a name for the reason;   *)
(* malformed JSON and fields of the wrong type are one such reason and are *)
(* refused before anything else is looked at.                              *)
(***************************************************************************)
EXTENDS Integers, FiniteSets, Sequences

CONSTANTS
    Target,     \* RELEASE_TARGETS
    MaxRev,     \* bound: the last revision of the source
    MaxBytes,   \* bound: how many different archives are built
    MaxEdits    \* bound: how many edits are made by hand

NoFile == [file |-> "none"]
Bytes  == 1 .. MaxBytes
Size(b) == 1 + (b % 2)

VARIABLES
    head,       \* the checkout: its revision, whether it is tagged, its state
    archive,    \* the archive of each target, 0 when there is none
    record,     \* the record file of each target
    catalogue,  \* the aggregated record
    bundle,     \* the evidence bundle that the catalogue refers to
    edits       \* edits made so far

vars == <<head, archive, record, catalogue, bundle, edits>>

Status == {"candidate", "blocked", "ready", "published", "withdrawn"}

Init ==
    /\ \E tagged \in BOOLEAN : head = [revision |-> 0, tagged |-> tagged, state |-> "clean"]
    /\ archive = [t \in Target |-> 0]
    /\ record = [t \in Target |-> NoFile]
    /\ catalogue = NoFile /\ bundle = NoFile
    /\ edits = 0

-----------------------------------------------------------------------------
(* The validation of a record: each operator is the set of the blockers    *)
(* that the function of the same name pushes.                              *)

When(condition, blocker) == IF condition THEN {blocker} ELSE {}

validate_target_rows(r) ==
    When(\A t \in Target : r.rows[t] = "absent", "target_rows must not be empty")
validate_supported_target_matrix(r) ==
    When(\E t \in Target : r.rows[t] = "absent", "missing supported target")

validate_artefacts(r) ==
    When(r.artefacts = << >>, "artefacts must not be empty") \cup
    UNION {LET a == r.artefacts[t]
           IN When(a.revision # r.revision, "source_revision does not match") \cup
              When(a.sum = 0, "has no checksum") : t \in DOMAIN r.artefacts}

validate_bindings(r) ==
    UNION {CASE r.rows[t] = "covered" /\ t \notin DOMAIN r.artefacts
                    -> {"covered target has no artefact"}
             [] r.rows[t] # "covered" /\ t \in DOMAIN r.artefacts
                    -> {"target must not have an artefact"}
             [] OTHER -> {} : t \in Target}

validate_evidence_artefacts(expected, observed) ==
    When(DOMAIN observed # DOMAIN expected, "bundle does not cover the artefact set") \cup
    When(\E t \in DOMAIN expected \cap DOMAIN observed : observed[t] # expected[t],
         "bundle does not match the release artefact")

validate_evidence_bundle(r, b) ==
    When(b.revision # r.revision, "bundle source_revision does not match") \cup
    When(~b.verified, "inventory_status is not verified") \cup
    validate_evidence_artefacts(r.artefacts, b.artefacts)

validate_evidence(r, b) ==
    CASE b = NoFile -> {IF r.evidence = "complete" THEN "evidence does not exist"
                        ELSE "is not yet materialised"}
      [] b # NoFile /\ r.evidence = "complete" -> validate_evidence_bundle(r, b)
      [] OTHER -> {}

(* Fault: a blocked record becomes ready once what blocked it is resolved. *)
transition_resolved ==
    {<<"draft", "candidate">>, <<"candidate", "blocked">>, <<"candidate", "ready">>,
     <<"candidate", "withdrawn">>, <<"ready", "published">>, <<"ready", "withdrawn">>,
     <<"published", "withdrawn">>, <<"blocked", "ready">>}

valid_transition ==
    {<<"draft", "candidate">>, <<"candidate", "blocked">>, <<"candidate", "ready">>,
     <<"candidate", "withdrawn">>, <<"ready", "published">>, <<"ready", "withdrawn">>,
     <<"published", "withdrawn">>}

(* A history is the chain of the states a record went through.             *)
validate_state_history(r) ==
    LET h == r.history
    IN When(Head(h) # "draft", "state_history must start at draft") \cup
       When(h[Len(h)] # r.status, "state_history does not end at status") \cup
       When(\E i \in 1 .. Len(h) - 1 : <<h[i], h[i + 1]>> \notin valid_transition,
            "is not an allowed transition")

validate_publication_evidence(r) ==
    When(r.publication # "none" /\ r.published # r.revision,
         "publication source_revision does not match")

validate_record_blockers(r) ==
    When(r.status = "blocked" /\ r.blockers = {}, "blocked requires at least one blocker")

(* What require_readiness asks of a record of any status.                  *)
Readiness(r) ==
    When(r.state # "clean", "requires a clean source state") \cup
    When(r.blockers # {}, "has blockers") \cup
    When(r.evidence # "complete", "requires complete evidence") \cup
    UNION {When(r.artefacts[t].sum = 0, "without a valid checksum") \cup
           When(r.artefacts[t].signature # "verified", "without verified signature") \cup
           When(r.artefacts[t].provenance # "verified", "without verified provenance")
                : t \in DOMAIN r.artefacts}

Publishable == {"ready", "published"}

(* What it asks only of those that claim to be ready, and of the others.   *)
Claim(r) ==
    IF r.status \in Publishable
    THEN validate_supported_target_matrix(r) \cup
         When(~r.authorised, "requires owner authorization") \cup
         When(r.artefacts = << >>, "requires at least one artefact") \cup
         When(r.status = "published" /\ r.publication # "verified",
              "requires verified publication evidence")
    ELSE {"is not in a publishable readiness state"}

validate_record(r, b, ready) ==
    validate_target_rows(r) \cup validate_artefacts(r) \cup validate_evidence(r, b) \cup
    validate_bindings(r) \cup validate_state_history(r) \cup
    validate_publication_evidence(r) \cup validate_record_blockers(r) \cup
    (IF ready THEN Readiness(r) \cup Claim(r) ELSE {})

is_expected_non_ready_blocker(r) ==
    IF r.status \in {"candidate", "blocked"}
    THEN {"has no checksum", "is not yet materialised"} ELSE {}

-----------------------------------------------------------------------------
(* The commands that read.                                                 *)

check(r, b) == r # NoFile /\ validate_record(r, b, TRUE) = {}

validate(r, b) ==
    /\ r # NoFile
    /\ validate_record(r, b, FALSE) \subseteq is_expected_non_ready_blocker(r)
    /\ r.status \in {"candidate", "blocked"}

load_aggregate_record(r, b) == validate(r, b)

-----------------------------------------------------------------------------
(* The commands that write.  None of them replaces a file.                 *)

Unblocked == << "draft", "candidate" >>

NewRecord(revision, state, artefacts, blockers) ==
    LET status == IF blockers = {} THEN "candidate" ELSE "blocked"
    IN [revision |-> revision, state |-> state, artefacts |-> artefacts,
        rows |-> [t \in Target |-> IF t \in DOMAIN artefacts THEN "covered" ELSE "absent"],
        blockers |-> blockers, status |-> status,
        history |-> IF status = "blocked" THEN Append(Unblocked, "blocked") ELSE Unblocked,
        evidence |-> "incomplete", authorised |-> FALSE, publication |-> "none",
        published |-> revision]

(* generate(): with the path of an archive its bytes are observed and must *)
(* have the size, and the checksum if one is given, that was declared.     *)
Generate(t, size) ==
    /\ record[t] = NoFile
    /\ \E observed \in BOOLEAN :
        /\ observed => archive[t] # 0 /\ Size(archive[t]) = size
        /\ LET a == [size |-> size, sum |-> IF observed THEN archive[t] ELSE 0,
                     revision |-> head.revision, signature |-> "not-configured",
                     provenance |-> "not-configured"]
           IN record' = [record EXCEPT ![t] =
                NewRecord(head.revision, head.state, [u \in {t} |-> a],
                          When(head.state # "clean", "source state") \cup
                          When(~head.tagged, "not tagged") \cup
                          When(~observed, "checksum has not been observed"))]
    /\ UNCHANGED <<head, archive, catalogue, bundle, edits>>

(* aggregate() reads one valid record for each target and compares what    *)
(* they say of the source.  Their own evidence is not there yet.           *)
Complete ==
    \A t \in Target :
        /\ load_aggregate_record(record[t], NoFile)
        /\ DOMAIN record[t].artefacts = {t}

SameIdentity ==
    \A t, u \in Target : /\ record[t].revision = record[u].revision
                         /\ record[t].state = record[u].state

(* One blocked record blocks the catalogue, and says why.                  *)
Reasons ==
    LET named == UNION {record[t].blockers : t \in Target}
    IN IF named = {} /\ \E t \in Target : record[t].status = "blocked"
       THEN {"a target record is blocked"} ELSE named

Aggregate ==
    /\ catalogue = NoFile
    /\ Complete
    /\ SameIdentity
    /\ LET any == CHOOSE t \in Target : TRUE
       IN catalogue' = NewRecord(record[any].revision, record[any].state,
                                 [t \in Target |-> record[t].artefacts[t]], Reasons)
    /\ UNCHANGED <<head, archive, record, bundle, edits>>

-----------------------------------------------------------------------------
(* What happens between the commands.                                      *)

Edit == edits < MaxEdits /\ edits' = edits + 1

Checkout ==
    /\ Edit
    /\ \/ head' = [head EXCEPT !.tagged = TRUE]
       \/ \E s \in {"clean", "modified", "detached"} : head' = [head EXCEPT !.state = s]
       \/ /\ head.revision < MaxRev
          /\ head' = [revision |-> head.revision + 1, tagged |-> FALSE, state |-> "clean"]
    /\ UNCHANGED <<archive, record, catalogue, bundle>>

(* A build of a target, or another archive put in its place: new bytes.    *)
Build(t) ==
    /\ \E b \in Bytes :
        /\ \A c \in Bytes : c < b => \E u \in Target : archive[u] >= c
        /\ b \notin {archive[u] : u \in Target}
        /\ archive' = [archive EXCEPT ![t] = b]
    /\ archive[t] # 0 => catalogue # NoFile /\ edits < MaxEdits
    /\ edits' = IF archive[t] = 0 THEN edits ELSE edits + 1
    /\ UNCHANGED <<head, record, catalogue, bundle>>

Discard ==
    /\ Edit
    /\ catalogue' = NoFile /\ record' = [t \in Target |-> NoFile]
    /\ UNCHANGED <<head, archive, bundle>>

(* The review of the catalogue: its status moves on, its signatures and    *)
(* its evidence are noted, the owner authorises it, its publication is     *)
(* observed.  What has happened to it stays in its history.                *)
Notes == {"verified", "complete", "authorised", "published", "unblocked"}

Noted(r, notes) ==
    [r EXCEPT !.artefacts = IF "verified" \in notes
                            THEN [t \in DOMAIN @ |-> [@[t] EXCEPT !.signature = "verified",
                                                                !.provenance = "verified"]]
                            ELSE @,
              !.evidence = IF "complete" \in notes THEN "complete" ELSE @,
              !.authorised = @ \/ "authorised" \in notes,
              !.publication = IF "published" \in notes THEN "verified" ELSE @,
              !.published = IF "published" \in notes THEN head.revision ELSE @,
              !.blockers = IF "unblocked" \in notes THEN {} ELSE @]

Moved(r, s) == [r EXCEPT !.status = s, !.history = Append(@, s)]

Withheld(r, t) == [r EXCEPT !.rows[t] = "blocked", !.artefacts = [u \in DOMAIN @ \ {t} |-> @[u]]]

Resummed(r, t, b) == [r EXCEPT !.artefacts[t].sum = b, !.artefacts[t].size = Size(b)]

Reviewed(r) ==
    {Noted(Moved(r, s), notes) : s \in Status, notes \in {{}, Notes}} \cup
    {Noted(r, Notes \ {n}) : n \in Notes} \cup
    {Withheld(r, t) : t \in Target} \cup
    {Resummed(r, t, b) : t \in DOMAIN r.artefacts, b \in Bytes}

Review ==
    /\ catalogue # NoFile /\ Edit
    /\ Len(catalogue.history) < 5
    /\ catalogue' \in Reviewed(catalogue) \ {catalogue}
    /\ UNCHANGED <<head, archive, record, bundle>>

(* The evidence bundle is written from what the catalogue says now.        *)
Collect ==
    /\ catalogue # NoFile /\ Edit
    /\ \E ok \in BOOLEAN :
        bundle' = [revision |-> catalogue.revision, verified |-> ok,
                   artefacts |-> catalogue.artefacts]
    /\ UNCHANGED <<head, archive, record, catalogue>>

Next ==
    \/ \E t \in Target, size \in {1, 2} : Generate(t, size)
    \/ \E t \in Target : Build(t)
    \/ Aggregate \/ Checkout \/ Discard \/ Review \/ Collect

Spec == Init /\ [][Next]_vars

-----------------------------------------------------------------------------

Was(r, s) == \E i \in DOMAIN r.history : r.history[i] = s

(* "A record claiming readiness has the evidence required" (release.rs:5): *)
(* no edit of a blocked catalogue makes check() pass, and what passes has  *)
(* been ready, is authorised, has a row for each target and an evidence    *)
(* bundle that says the same of every archive it covers.                   *)
ReadyIsWhole ==
    check(catalogue, bundle) =>
        /\ Was(catalogue, "ready") /\ ~Was(catalogue, "blocked")
        /\ catalogue.authorised
        /\ bundle # NoFile /\ bundle.revision = catalogue.revision
        /\ \A t \in Target :
            \/ catalogue.rows[t] = "blocked" /\ t \notin DOMAIN bundle.artefacts
            \/ /\ catalogue.rows[t] = "covered"
               /\ bundle.artefacts[t] = catalogue.artefacts[t]
               /\ bundle.artefacts[t].revision = bundle.revision
=============================================================================
