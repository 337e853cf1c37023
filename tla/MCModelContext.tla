--------------------------- MODULE MCModelContext ---------------------------
(* A small instance of four parts around the context of a task: sessions   *)
(* that resume it, the coordinator that hands its evidence to models, the  *)
(* store its sessions share and the placement of its requests.             *)
EXTENDS Continuity, ModelContext, ContextStore, Placement, TLC

\* One transition of each kind a host records; the fourth is a rejection in
\* the older format, which does not decode.
Transition(state, type, observation, delta, action, again, refs, next, reason) ==
    [state |-> state, type |-> type, observation |-> observation, strategy_delta |-> delta,
     action |-> action, do_not_repeat |-> again, evidence_refs |-> refs, unresolved_risks |-> <<"k">>,
     unknowns |-> <<>>, next_action |-> next, claim_ceiling |-> "", failure_reason |-> reason,
     attempt |-> "", revision |-> "", sequence |-> 0]

MCTransitions == {
    Transition("planned", "PLAN_FORMED", "", "", "", <<>>, <<"e1">>, "build", ""),
    Transition("seen", "none", "f", "d", "", <<>>, <<"e1">>, "", ""),
    Transition("REJECTED", "ATTEMPT_REJECTED", "f", "", "", <<"s1">>, <<"e2">>, "", "refused"),
    Transition("REJECTED", "none", "", "", "", <<>>, <<>>, "", ""),
    Transition("done", "COMPLETED", "", "", "merge", <<>>, <<"e2">>, "ship", "")}

Record(ran, stub, ok, verdict, evidence, payload) ==
    [ran |-> ran, stub |-> stub, succeeded |-> ok, task_bound |-> TRUE, verdict |-> verdict,
     evidence |-> evidence, payload |-> payload, receipt_only |-> FALSE]

\* The context is one of two; the gate, whose outcome no model may see, passes
\* or rejects; the postflight claim gate passes or is a stub.
Found == Record("yes", FALSE, TRUE, "", {"e1"}, <<"t1", "t2", "t3">>)
FoundMore == Record("yes", FALSE, TRUE, "", {"e2"}, <<"t1", "t2", "t3", "t4">>)
Stub == Record("yes", TRUE, TRUE, "", {"e1"}, <<"t1", "t2", "t3">>)
Passed == Record("yes", FALSE, TRUE, "", {"g1"}, <<"t4", "t2">>)
Rejected == Record("yes", FALSE, FALSE, "rejected", {"g2"}, <<>>)

MCStages == {
    [context |-> Found, gate |-> Rejected, claim |-> Stub],
    [context |-> FoundMore, gate |-> Passed, claim |-> Passed]}

MCPlans == {[plan |-> "p1", revision |-> "r1"], [plan |-> "p1", revision |-> "r2"],
            [plan |-> "p2", revision |-> "r1"]}

\* A request that hides, of at most three segments, and one with an unusable
\* policy and a query of another revision than the authorized one.
Policy(kind, hints, segments) ==
    [kind |-> kind, hide_hints |-> hints, max_segments |-> segments]

Query == [valid |-> TRUE, revision |-> "r1"]

MCAsks == {
    [policy |-> Policy("valid", {1, 2}, 3), query |-> Query, authorized |-> "", provider |-> "pa"],
    [policy |-> Policy("invalid", {}, 0), query |-> Query, authorized |-> "r2", provider |-> "pa"]}

\* Two deliveries for one bundle, two plans, or two bundles (one of them re-sealed).
MCBounds == {
    [plans |-> 1, bundles |-> 1, deliveries |-> 2],
    [plans |-> 2, bundles |-> 1, deliveries |-> 1],
    [plans |-> 1, bundles |-> 2, deliveries |-> 1]}

\* The coordinator's attempts, and the keys of the store, are interchangeable.
Symmetry == Permutations(Tries) \cup Permutations(Keys)

MCPayloads == {{"x"}, {"x", "y"}}

Host(memory, available, load, missing, intact) ==
    [platform |-> "linux", total_memory |-> memory, available_memory |-> available, load |-> load,
     verified |-> {"gpu"}, missing |-> missing, intact |-> intact]

MCFacts == {Host(2, 2, 1, {}, TRUE), Host(2, 1, 0, {}, TRUE), Host(1, 1, 0, {"gpu"}, TRUE),
            Host(2, 2, 0, {}, FALSE)}

Needs == [platform |-> "linux", min_memory |-> 2, capabilities |-> {"gpu"}]

\* One request by load and then by memory, and the same one by host.
MCPlacements == {
    [request_id |-> "r", requirements |-> Needs,
     preferences |-> [criteria |-> <<"LOWER_NORMALIZED_LOAD", "MORE_AVAILABLE_MEMORY">>, hosts |-> <<>>]],
    [request_id |-> "r", requirements |-> Needs,
     preferences |-> [criteria |-> <<"PREFERRED_HOST_ORDER">>, hosts |-> <<2>>]]}

\* The parts share no state, so a behaviour exercises one of them and leaves
\* the others in their initial state.
VARIABLE part

Init ==
    /\ part \in {"sessions", "models", "store", "placement"}
    /\ ContinuityInit
    /\ ContextInit
    /\ StoreInit
    /\ PlacementInit
    /\ part # "models" => bound = CHOOSE b \in Bounds : TRUE
    /\ part # "sessions" => task = [attempt |-> "", revision |-> ""]
    /\ now = [plan |-> "p1", revision |-> "r1"]

Next ==
    \/ part = "sessions" /\ ContinuityNext /\ UNCHANGED <<part, context_vars, store_vars, placement_vars>>
    \/ part = "models" /\ ContextNext /\ UNCHANGED <<part, continuity_vars, store_vars, placement_vars>>
    \/ part = "store" /\ StoreNext /\ UNCHANGED <<part, continuity_vars, context_vars, placement_vars>>
    \/ part = "placement" /\ PlacementNext /\ UNCHANGED <<part, continuity_vars, context_vars, store_vars>>

Spec == Init /\ [][Next]_<<part, continuity_vars, context_vars, store_vars, placement_vars>>

=============================================================================
