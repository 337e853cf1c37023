----------------------------- MODULE ModelContext -----------------------------
(***************************************************************************)
(* The context-aware coordinator (execution_coordination/context_aware.py) *)
(* and the online wrapper (task_context/consumer_projection.py) at work: a *)
(* host plans, materialises and re-seals evidence, dispatches attempts of  *)
(* one task and calls the online provider, while the plan may change and   *)
(* the coordinator's process may be lost with the tracker it keeps in      *)
(* memory.  One host thread does all of it: executing an attempt blocks it, *)
(* so it plans, materialises and calls online between attempts.            *)
(***************************************************************************)
EXTENDS ContextPackage

CONSTANTS
    Tries,          \* the attempts of the task
    Plans,          \* the plans a host may make: [plan, revision]
    Stages,         \* Stages[c]: the records capability c may come back with
    Asks,           \* what requests ask: [policy, query, authorized, provider]: an admission
                    \* policy without the blocks seen, the evidence of a repository query,
                    \* the revision a durable authorization names, "" for none, and the
                    \* worker's provider
    Providers,      \* the providers adapters may reach
    Online,         \* the provider of the online invoker
    Bounds          \* the bounds a behaviour may run under: [plans, bundles, deliveries],
                    \* on the plans made, the bundles kept and the physical provider calls

\* A plan has a digest, a rendered payload is a sequence of blocks, and every
\* provider has a name.
ASSUME ContextAssumption ==
    /\ \A p \in Plans : p.plan # ""
    /\ \A stages \in Stages : \A c \in Selected : stages[c].payload \in Seq(STRING)
    /\ "" \notin Providers

VARIABLES
    bound,      \* the bounds of this behaviour
    now,        \* the host's current plan
    plans,      \* how many plans it made
    bundles,    \* the bundles sealed so far
    run,        \* the running attempt: its request, and the tracker of the process
    durable,    \* durable[a]: the attempt's state record
    delivered,  \* the inputs providers physically received, in order
    online      \* the consumption receipt of the last online call

context_vars == <<bound, now, plans, bundles, run, durable, delivered, online>>

NoRun == [pc |-> "idle"]

\* A request is kept while it can still be read, and forgotten with its attempt's end.
NoRequest == [attempt |-> ""]

NoPackage == build_planner_consumer_context_package(NoBundle, "", "", {}, "", "", "")

NoReceipt == [package |-> NoPackage, proven |-> FALSE]

attempt_state(state, request, report, receipt) ==
    [status |-> state, request |-> request, report |-> report, receipt |-> receipt]

\* Every block of text some provider was shown.
shown == UNION {UNION {ToSet(p.blocks) : p \in delivered[k].package.payloads} : k \in DOMAIN delivered}

ContextInit ==
    /\ bound \in Bounds
    /\ now \in Plans
    /\ plans = 1
    /\ bundles = {}
    /\ run = NoRun
    /\ durable = [a \in Tries |-> attempt_state("NONE", NoRequest, {}, NoReceipt)]
    /\ delivered = <<>>
    /\ online = NoReceipt

-----------------------------------------------------------------------------
(* The host's side *)

replan ==
    /\ run = NoRun
    /\ plans < bound.plans
    /\ now' \in Plans \ {now}
    /\ plans' = plans + 1
    /\ UNCHANGED <<bound, bundles, run, durable, delivered, online>>

\* The preflight capabilities of the current plan ran; the postflight ones are pending.
materialize(stages) ==
    /\ run = NoRun
    /\ Cardinality(bundles) < bound.bundles
    /\ LET b == build_capability_evidence_bundle(now.plan, now.revision,
                    [c \in Selected |-> IF c \in Postflight THEN NoStage ELSE stages[c]]) IN
        /\ b \notin bundles
        /\ bundles' = bundles \cup {b}
    /\ UNCHANGED <<bound, now, plans, run, durable, delivered, online>>

\* The postflight capabilities ran too: the runtime re-seals its own snapshot.
reseal(b, stages) ==
    /\ run = NoRun
    /\ Cardinality(bundles) < bound.bundles
    /\ may_seal_postflight(b, Postflight)
    /\ LET s == seal_postflight_capability_evidence(b, stages, Postflight) IN
        /\ s \notin bundles
        /\ bundles' = bundles \cup {s}
    /\ UNCHANGED <<bound, now, plans, run, durable, delivered, online>>

\* A copy of a bundle that an executor wrote into: its digest is the old one.
touched(b) == [
    body        |-> [b.body EXCEPT !.entries = {[e EXCEPT !.status = "REAL_INVOKED",
        !.payload = IF e.name \in Postflight THEN <<"forged">> ELSE e.payload] : e \in @}],
    bundle_hash |-> b.bundle_hash]

\* The bundles a request may carry: none, a sealed one of any plan, or a copy
\* written into on the way.
offered == {NoBundle} \cup bundles \cup {touched(b) : b \in bundles}

\* A host dispatches an attempt for the current plan with what evidence it has.
submit(a, b, asked) ==
    /\ run = NoRun
    /\ durable[a].status = "NONE"
    /\ durable' = [durable EXCEPT ![a] = attempt_state("WORKER_RUNNING",
        [attempt |-> a, plan |-> now.plan, revision |-> now.revision, bundle |-> b,
         policy |-> [kind |-> asked.policy.kind, hide_hints |-> asked.policy.hide_hints,
                     max_segments |-> asked.policy.max_segments,
                     seen |-> IF asked.policy.kind = "valid" THEN shown ELSE {}],
         query |-> asked.query, authorized |-> asked.authorized, provider |-> asked.provider],
        @.report, @.receipt)]
    /\ run' = [pc |-> "prompt", attempt |-> a]
    /\ UNCHANGED <<bound, now, plans, bundles, delivered, online>>

\* After a crash the attempt is found running and executed again.
relaunch(a) ==
    /\ run = NoRun
    /\ durable[a].status = "WORKER_RUNNING"
    /\ run' = [pc |-> "prompt", attempt |-> a]
    /\ UNCHANGED <<bound, now, plans, bundles, durable, delivered, online>>

-----------------------------------------------------------------------------
(* The coordinator's ports *)

\* The attempt fails: nothing of the tracker is stored.
abandon(a) ==
    /\ durable' = [durable EXCEPT ![a] = attempt_state("FAILED", NoRequest, @.report, @.receipt)]
    /\ run' = NoRun

\* The contract port builds the prompt: the tracker is reset and given the
\* package and its admission report, or building it raised.
prompt(smaller) ==
    /\ run.pc = "prompt"
    /\ LET r       == durable[run.attempt].request
           trusted == trusted_repository_identity(r.authorized, r.revision)
           package == build_worker_context_package(r, trusted, smaller) IN
        IF /\ r.bundle # NoBundle => evidence_admissible(r.bundle, r.plan, r.revision)
           /\ assembly_passes(package)
        THEN /\ run' = [pc |-> "invoke", attempt |-> run.attempt, package |-> package,
                        report |-> admission_receipts(r.bundle, r.policy, smaller)]
             /\ UNCHANGED durable
        ELSE abandon(run.attempt)
    /\ UNCHANGED <<bound, now, plans, bundles, delivered, online>>

\* The worker port refuses another provider than the package is bound to;
\* otherwise the adapter calls some provider, or none.
invoke(provider, called) ==
    /\ run.pc = "invoke"
    /\ Len(delivered) < bound.deliveries
    /\ IF provider # run.package.provider
       THEN abandon(run.attempt) /\ UNCHANGED delivered
       ELSE /\ delivered' = IF called = "none" THEN delivered
                            ELSE Append(delivered, final_input(called, run.package))
            /\ run' = [pc |-> "returned", attempt |-> run.attempt, package |-> run.package,
                       report |-> run.report, called |-> called]
            /\ UNCHANGED durable
    /\ UNCHANGED <<bound, now, plans, bundles, online>>

\* The adapter returns: it names the provider it called, or, when that was the
\* one it was given, none.  The tracker gets the consumption receipt.
returned(named) ==
    /\ run.pc = "returned"
    /\ named \in {run.called} \cup (IF run.called = run.package.provider THEN {""} ELSE {})
    /\ run' = [pc |-> "complete", attempt |-> run.attempt, report |-> run.report,
               receipt |-> build_worker_consumption_receipt(run.package,
                   [calls |-> IF run.called = "none" THEN 0 ELSE 1,
                    provider |-> IF named = "none" THEN "" ELSE named])]
    /\ UNCHANGED <<bound, now, plans, bundles, durable, delivered, online>>

mutant_checkpoint ==
    /\ run.pc = "complete"
    /\ durable' = [durable EXCEPT ![run.attempt] =
        attempt_state("WORKER_COMPLETED", NoRequest, @.report, run.receipt)]
    /\ run' = NoRun
    /\ UNCHANGED <<bound, now, plans, bundles, delivered, online>>

\* WORKER_COMPLETED: the state port adds the tracker's report and receipt to
\* the checkpoint, and refuses a receipt of another attempt.
checkpoint ==
    /\ run.pc = "complete"
    /\ run.receipt.package.attempt = run.attempt
    /\ durable' = [durable EXCEPT ![run.attempt] =
        attempt_state("WORKER_COMPLETED", NoRequest, run.report, run.receipt)]
    /\ run' = NoRun
    /\ UNCHANGED <<bound, now, plans, bundles, delivered, online>>

\* The process is lost, and the tracker with it.
crash ==
    /\ run # NoRun
    /\ run' = NoRun
    /\ UNCHANGED <<bound, now, plans, bundles, durable, delivered, online>>

\* A host recalls a hidden segment from the durable report of an attempt.
recall(a, wanted) ==
    /\ durable[a].status = "WORKER_COMPLETED"
    /\ \E r \in durable[a].report :
        /\ wanted \in DOMAIN r.receipt.hidden
        /\ LET recalled == [capability |-> r.capability, source |-> r.source,
                            receipt |-> restore_visible_text(r.receipt, {wanted})] IN
           durable' = [durable EXCEPT ![a] = attempt_state(@.status, @.request,
               (@.report \ {r}) \cup {recalled}, @.receipt)]
    /\ UNCHANGED <<bound, now, plans, bundles, run, delivered, online>>

-----------------------------------------------------------------------------
(* The online wrapper *)

\* An online call with the context of the current plan.  The invoker calls its
\* provider, adds to the input or not, and answers with the evidence of that
\* call, of an earlier one it replays, or of none.
call_online(a, b, appended, replayed) ==
    /\ run = NoRun
    /\ Len(delivered) < bound.deliveries
    /\ replayed # 0 => delivered[replayed].package.channel = "online_provider"
    /\ b # NoBundle => evidence_admissible(b, now.plan, now.revision)
    /\ LET package == build_online_context_package(b, now.plan, a, Online)
           input   == final_input(Online, package)
           physical == [provider |-> Online, package |-> package, appended |-> appended]
           reported == IF replayed = 0 THEN physical ELSE delivered[replayed] IN
        /\ assembly_passes(package)
        /\ delivered' = IF replayed = 0 THEN Append(delivered, physical) ELSE delivered
        /\ online' = build_online_consumption_receipt(package, input,
                [calls |-> 1, provider |-> reported.provider,
                 attempt |-> reported.package.attempt, input |-> reported])
    /\ UNCHANGED <<bound, now, plans, bundles, run, durable>>

ContextNext ==
    \/ replan
    \/ \E stages \in Stages : materialize(stages) \/ \E b \in bundles : reseal(b, stages)
    \/ \E a \in Tries, b \in offered, asked \in Asks : submit(a, b, asked)
    \/ \E a \in Tries : relaunch(a)
    \/ \E smaller \in BOOLEAN : prompt(smaller)
    \/ \E provider \in Providers, called \in Providers \cup {"none"} : invoke(provider, called)
    \/ \E named \in Providers \cup {"", "none"} : returned(named)
    \/ checkpoint
    \/ crash
    \/ \E a \in Tries, wanted \in 1 .. MaxBlocks : recall(a, wanted)
    \/ \E a \in Tries, b \in offered, appended \in BOOLEAN, replayed \in 0 .. Len(delivered) :
        call_online(a, b, appended, replayed)

ContextSpec == ContextInit /\ [][ContextNext]_context_vars

-----------------------------------------------------------------------------

\* A block is left out of a package only if an earlier package showed it and
\* nothing protects it; once the attempt completed, the durable report has the
\* exact text of every block its package left out; and recalls add each block
\* once, so that visible and still-saved segments always make up the payload
\* (decide_visibility, the WORKER_COMPLETED checkpoint, restore_visible_text).
HiddenRecoverable ==
    /\ \A k \in DOMAIN delivered : \A p \in delivered[k].package.payloads : \A i \in p.hidden :
        /\ ~classify_block(p.source, i)
        /\ \E j \in 1 .. k - 1 : \E q \in delivered[j].package.payloads :
            Contains(q.blocks, p.source[i])
    /\ \A a \in Tries :
        /\ \A p \in durable[a].receipt.package.payloads : \A i \in p.hidden :
            \E r \in durable[a].report :
                /\ r.capability = p.capability
                /\ i \in DOMAIN r.receipt.hidden
                /\ r.receipt.hidden[i] = p.source[i]
        /\ \A r \in durable[a].report :
            /\ Len(r.receipt.visible) + tokens_saved_now(r.receipt) = Len(r.source)
            /\ ToSet(r.receipt.visible) \cup (DOMAIN r.receipt.hidden \ r.receipt.recalled) = DOMAIN r.source

\* A receipt that says PROVEN is backed by a physical call: the provider the
\* package is bound to received exactly that package of that attempt, with
\* nothing added (build_worker_consumption_receipt and
\* build_online_consumption_receipt).
ProvenConsumed ==
    \A r \in {online} \cup {durable[a].receipt : a \in Tries} :
        r.proven => \E k \in DOMAIN delivered :
            delivered[k] = final_input(r.package.provider, r.package)

\* The bundle a different outcome of one capability would have led to.
with_outcome(b, c, stage) ==
    sealed(b.body.plan, b.body.revision, b.body.selected,
        {IF e.name = c THEN bundle_entry(c, stage, e.phase) ELSE e : e \in b.body.entries},
        b.body.preflight, b.body.resealed)

\* What a provider is shown was really produced for the very plan of the
\* package, hints and evidence of one package speak of one revision, and the
\* package is the same whatever a receipt-only capability reported: its
\* outcome never reaches a model (_evidence_projection, entry_prompt_visible,
\* compute_visible_bundle_hash).
EvidenceGenuine ==
    /\ \A k \in DOMAIN delivered :
        LET package == delivered[k].package IN
        /\ \A p \in package.payloads : \E b \in bundles : \E e \in b.body.entries :
            /\ b.body.plan = package.plan
            /\ e.name = p.capability
            /\ e.payload = p.source
            /\ entry_did_real_work(e)
        /\ package.hints # "" => \A v \in package.bundles : v.revision = package.hints
    /\ \A b \in bundles : \A c \in ReceiptOnly : \A stages \in Stages :
        LET shown_of(x) == build_online_context_package(x, x.body.plan, "", Online) IN
        shown_of(b) = shown_of(with_outcome(b, c, stages[c]))

=============================================================================
