---------------------------- MODULE ContextPackage ----------------------------
(***************************************************************************)
(* What a model is given of a plan's evidence: the admission that hides    *)
(* recoverable blocks of a payload (task_context/context_admission.py),    *)
(* the projection of a bundle into the context package of one consumer     *)
(* (consumer_projection.py, assembly.py, budget.py), the retrieval hints   *)
(* (retrieval_hints.py) and the receipt that says whether a package was    *)
(* physically consumed (consumption.py).                                   *)
(*                                                                         *)
(* A block of text is a value and stands for its digest; a segment is the  *)
(* position of its block in the payload.                                   *)
(***************************************************************************)
EXTENDS EvidenceBundle, SequencesExt

CONSTANT
    Marked      \* blocks with a marker, a contract term or a term of the request

-----------------------------------------------------------------------------
(* Admission *)

\* The first and the last of more than two blocks, and every marked block, are protected.
classify_block(p, i) == p[i] \in Marked \/ (Len(p) > 2 /\ i \in {1, Len(p)})

\* A block no earlier package showed is protected too.
effective_protection_reasons(p, i, seen) == classify_block(p, i) \/ p[i] \notin seen

\* The positions hidden: hinted, without any reason for protection.
decide_visibility(p, hints, seen) ==
    {i \in DOMAIN p : i \in hints /\ ~effective_protection_reasons(p, i, seen)}

\* The chosen positions in their order.
in_order(chosen) ==
    LET list[i \in 0 .. MaxBlocks] ==
            IF i = 0 THEN <<>>
            ELSE IF i \in chosen THEN Append(list[i - 1], i) ELSE list[i - 1] IN
    list[MaxBlocks]

\* Which segments are hidden.  Too many of them preserve everything and record
\* the failure.
admit_artifact(p, policy) ==
    LET failed == Len(p) > policy.max_segments IN
    [hidden  |-> IF failed THEN {} ELSE decide_visibility(p, policy.hide_hints, policy.seen),
     failure |-> failed]

\* The receipt of a decision: what stays visible, and the exact text of what
\* does not.
build_admission_receipt(p, decision) == [
    visible  |-> in_order(DOMAIN p \ decision.hidden),
    hidden   |-> [i \in decision.hidden |-> p[i]],
    recalled |-> {},
    failure  |-> decision.failure]

admission_receipt(p, policy) == build_admission_receipt(p, admit_artifact(p, policy))

\* Recalled segments are appended to the visible text once; the receipt keeps
\* their payload and remembers which were recalled.
restore_visible_text(r, wanted) ==
    LET hits == wanted \cap DOMAIN r.hidden IN
    [visible  |-> r.visible \o in_order(hits \ r.recalled),
     hidden   |-> r.hidden,
     recalled |-> r.recalled \cup hits,
     failure  |-> r.failure]

\* What the telemetry counts as saved: hidden and not recalled yet.
tokens_saved_now(r) == Cardinality(DOMAIN r.hidden \ r.recalled)

\* The payload a model sees in place of p: itself, or its visible blocks and
\* the references of the hidden ones when that is smaller.
context_admitted_payload(e, receipt) == [
    capability |-> e.name,
    blocks     |-> [k \in DOMAIN receipt.visible |-> e.payload[receipt.visible[k]]],
    hidden     |-> DOMAIN receipt.hidden,
    source     |-> e.payload]

canonical_payload(e) ==
    [capability |-> e.name, blocks |-> e.payload, hidden |-> {}, source |-> e.payload]

-----------------------------------------------------------------------------
(* The evidence a consumer may use *)

\* The bundle was sealed for the consumer's own plan and revision, verifies and
\* has the planner's selection (_evidence_projection raises otherwise).
evidence_admissible(b, plan, revision) ==
    /\ b.body.plan = plan
    /\ assert_consumer_bundle_intact(b, revision)
    /\ b.body.selected = Selected

\* The entries projected: visible, and successfully invoked for real.
projected_entries(b) ==
    IF b = NoBundle THEN {} ELSE {e \in prompt_visible_entries(b.body) : entry_did_real_work(e)}

with_payload(b) == {e \in projected_entries(b) : e.payload # <<>>}

\* The admission of the payloads under a policy: the payloads shown, and the
\* receipts kept to recover the rest.  An unusable policy, or a projection that
\* would not be smaller, shows the canonical payload.
admit_worker_payloads(b, policy, smaller) ==
    {IF policy.kind = "valid" /\ smaller
     THEN context_admitted_payload(e, admission_receipt(e.payload, policy))
     ELSE canonical_payload(e) : e \in with_payload(b)}

admission_receipts(b, policy, smaller) ==
    IF policy.kind # "valid" THEN {}
    ELSE {r \in {[capability |-> e.name, source |-> e.payload,
                  receipt |-> admission_receipt(e.payload, policy)] : e \in with_payload(b)} :
            r.receipt.failure \/ (DOMAIN r.receipt.hidden # {} /\ smaller)}

-----------------------------------------------------------------------------
(* Hints and the package *)

\* The revision hints may speak of: the one the durable authorization names,
\* unless the request's workspace is at another, else the request's own.
trusted_repository_identity(authorized, revision) ==
    IF authorized = "" THEN revision
    ELSE IF revision \in {"", authorized} THEN authorized ELSE ""

\* Hints of a validated query report are bound only at the trusted revision;
\* every other report leaves the package as it is.
compose_verified_repository_query_hints(query, trusted) ==
    IF query.valid /\ trusted # "" /\ query.revision = trusted THEN query.revision ELSE ""

\* The assembly contract.  Its two digests stand for it whole.
build_context_assembly_contract(plan, attempt, materialized, bundles, payloads, channel, provider, hints) == [
    attempt      |-> attempt,
    plan         |-> plan,
    selected     |-> Selected,
    materialized |-> materialized,
    bundles      |-> bundles,
    payloads     |-> payloads,
    channel      |-> channel,
    provider     |-> provider,
    hints        |-> hints]

\* The assembled package of one consumer, from what a bundle makes visible.
build_planner_consumer_context_package(b, plan, attempt, payloads, channel, provider, hints) ==
    build_context_assembly_contract(plan, attempt,
        UNION {e.evidence : e \in projected_entries(b)},
        IF b = NoBundle THEN {} ELSE {compute_visible_bundle_hash(b.body)},
        payloads, channel, provider, hints)

\* validate_context_assembly_contract: what is serialized was selected and
\* materialized, and context names its plan.
assembly_passes(package) ==
    /\ {p.capability : p \in package.payloads} \subseteq package.selected
    /\ package.selected # {} => package.plan # ""

\* The worker's package: hidden blocks are out, hints are in.
build_worker_context_package(request, trusted, smaller) ==
    build_planner_consumer_context_package(request.bundle, request.plan, request.attempt,
        admit_worker_payloads(request.bundle, request.policy, smaller), "worker_registry", request.provider,
        compose_verified_repository_query_hints(request.query, trusted))

\* The online package is never reduced.
build_online_context_package(b, plan, attempt, provider) ==
    build_planner_consumer_context_package(b, plan, attempt,
        {canonical_payload(e) : e \in with_payload(b)}, "online_provider", provider, "")

-----------------------------------------------------------------------------
(* Consumption *)

\* The input a provider is handed: the prompt with the package serialized at its end.
final_input(provider, package) == [provider |-> provider, package |-> package, appended |-> FALSE]

\* The worker's receipt proves consumption when the execution receipt counts a
\* call and does not name another provider.
build_worker_consumption_receipt(package, executed) == [
    package |-> package,
    proven  |-> executed.calls >= 1 /\ executed.provider \in {"", package.provider}]

mutant_build_online_consumption_receipt(package, input, evidence) == [
    package |-> package,
    proven  |->
        /\ evidence.calls >= 1
        /\ package.provider # ""
        /\ evidence.provider = package.provider
        /\ evidence.attempt = package.attempt]

\* The online receipt reconciles the process evidence with the exact input the
\* wrapper handed over.
build_online_consumption_receipt(package, input, evidence) == [
    package |-> package,
    proven  |->
        /\ evidence.calls >= 1
        /\ package.provider # ""
        /\ evidence.provider = package.provider
        /\ evidence.attempt = package.attempt
        /\ evidence.input = input]

=============================================================================
