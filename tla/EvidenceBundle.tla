---------------------------- MODULE EvidenceBundle ----------------------------
(***************************************************************************)
(* The sealed bundle of capability evidence a plan's consumers share       *)
(* (planning/services/capability_evidence_bundle.py): one entry for each   *)
(* selected capability, its disposition and payload, which entries may     *)
(* reach a prompt, the re-seal after the postflight capabilities ran and   *)
(* the verification a consumer repeats before use.                         *)
(*                                                                         *)
(* A body stands for its own digest: a bundle is a body with the digest it *)
(* claims, and is intact when the two are equal.  A stage record keeps     *)
(* what decides its disposition; a payload is the sequence of the text     *)
(* blocks it renders to.                                                   *)
(***************************************************************************)
EXTENDS Integers, Sequences, FiniteSets

CONSTANTS
    Selected,       \* the capabilities the planner selected
    Postflight,     \* those among POSTFLIGHT_CAPABILITIES, which run after the consumers
    ReceiptOnly,    \* the names the host's route declares receipt-only
    MaxBlocks       \* bound standing for MAX_CONSUMER_PAYLOAD_CHARS, in blocks

ASSUME BundleAssumption ==
    /\ IsFiniteSet(Selected)
    /\ Postflight \subseteq Selected
    /\ MaxBlocks \in Nat \ {0}

PENDING == "PENDING_OR_STAGE_OWNED"

-----------------------------------------------------------------------------
(* Entries *)

\* The record of a capability that has not run.
NoStage == [ran |-> "absent", stub |-> FALSE, succeeded |-> FALSE, task_bound |-> FALSE,
    verdict |-> "", evidence |-> {}, payload |-> <<>>, receipt_only |-> FALSE]

\* Why an invoked record that is no success failed: a verdict of its own wins
\* over a refusal for missing inputs.
invoked_failure_disposition(stage) ==
    IF stage.verdict \in {"rejected", "refused"} THEN stage.verdict ELSE "failed"

\* The disposition of a capability's stage record, first match first.
status(stage) ==
    IF stage.ran = "absent" THEN PENDING
    ELSE IF stage.ran = "skipped" THEN "SKIPPED"
    ELSE IF stage.ran = "no" THEN "SELECTED_NOT_EXECUTED"
    ELSE IF stage.stub THEN "STUB_INVOKED"
    ELSE IF stage.succeeded /\ stage.evidence # {} /\ stage.task_bound THEN "REAL_INVOKED"
    ELSE IF invoked_failure_disposition(stage) = "rejected" THEN "EVALUATED_REJECTED"
    ELSE "INVOKED_NOT_SUCCESS"

\* Only a success has a payload; one past the bound is cut down to a summary.
extract_bounded_consumer_payload(stage) ==
    IF status(stage) # "REAL_INVOKED" THEN <<>>
    ELSE IF Len(stage.payload) > MaxBlocks THEN <<"truncated">>
    ELSE stage.payload

bundle_entry(name, stage, phase) == [
    name     |-> name,
    status   |-> status(stage),
    evidence |-> stage.evidence,
    payload  |-> extract_bounded_consumer_payload(stage),
    visible  |-> name \notin ReceiptOnly /\ ~stage.receipt_only,
    phase    |-> phase]

\* Stubs, skips and failures are never real work, whatever evidence they name.
entry_did_real_work(e) == e.status = "REAL_INVOKED"

entry_prompt_visible(e) == e.visible

prompt_visible_entries(body) == {e \in body.entries : entry_prompt_visible(e)}

\* The names of each disposition, as the summary lists them.
summary(entries) == [
    real_invoked        |-> {e.name : e \in {x \in entries : x.status = "REAL_INVOKED"}},
    stub_invoked        |-> {e.name : e \in {x \in entries : x.status = "STUB_INVOKED"}},
    skipped             |-> {e.name : e \in {x \in entries : x.status = "SKIPPED"}},
    evaluated_rejected  |-> {e.name : e \in {x \in entries : x.status = "EVALUATED_REJECTED"}}]

-----------------------------------------------------------------------------
(* Sealing *)

compute_bundle_hash(body) == body

sealed(plan, revision, selected, entries, preflight, resealed) ==
    LET body == [plan |-> plan, revision |-> revision, selected |-> selected, entries |-> entries,
                 summary |-> summary(entries), preflight |-> preflight, resealed |-> resealed] IN
    [body |-> body, bundle_hash |-> compute_bundle_hash(body)]

\* A consumer without a bundle.
NoBundle == sealed("", "", {}, {}, {}, {})

\* stages is a function from the selected capabilities to their records.
build_capability_evidence_bundle(plan, revision, stages) ==
    sealed(plan, revision, Selected, {bundle_entry(c, stages[c], "preflight") : c \in Selected}, {}, {})

\* The postflight capabilities that ran replace their pending entries; the
\* digest the earlier consumers used is kept beside the new one.
may_seal_postflight(b, names) ==
    /\ b.body.preflight = {}
    /\ names # {}
    /\ names \subseteq Postflight
    /\ \A e \in b.body.entries : e.name \in names => e.status = PENDING

seal_postflight_capability_evidence(b, stages, names) ==
    LET kept == {e \in b.body.entries : e.name \notin names} IN
    sealed(b.body.plan, b.body.revision, b.body.selected,
        kept \cup {bundle_entry(c, stages[c], "postflight") : c \in names}, {b.bundle_hash}, names)

\* A re-seal marks exactly the entries it names, and those are postflight ones.
postflight_seal_valid(body) ==
    /\ body.resealed \subseteq Postflight
    /\ \A e \in body.entries : (e.phase = "postflight") <=> (e.name \in body.resealed)

\* verify_capability_evidence_bundle with the subject of its source hash: the
\* digest is recomputed, every selected capability has an entry, the revision
\* is the consumer's, and a re-seal is marked as one.
verify(b, revision) ==
    /\ b.bundle_hash = compute_bundle_hash(b.body)
    /\ b.body.selected \subseteq {e.name : e \in b.body.entries}
    /\ revision # ""
    /\ b.body.revision = revision
    /\ b.body.preflight # {} => postflight_seal_valid(b.body)

\* What a consumer repeats before use: the digest is recomputed, never taken from a flag.
assert_consumer_bundle_intact(b, revision) == verify(b, revision)

mutant_compute_visible_bundle_hash(body) == compute_bundle_hash(body)

\* The digest rendered to a model covers the prompt-visible entries and
\* nothing that depends on the others.
compute_visible_bundle_hash(body) == [
    plan     |-> body.plan,
    revision |-> body.revision,
    selected |-> body.selected \ {e.name : e \in body.entries \ prompt_visible_entries(body)},
    entries  |-> prompt_visible_entries(body)]

=============================================================================
