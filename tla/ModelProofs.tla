---------------------------- MODULE ModelProofs ----------------------------
(***************************************************************************)
(* Proofs about what a model is called with: ModelCalls, ModelContext, and *)
(* the parts that supply the context, Continuity, ContextStore and         *)
(* Placement.  Each part has its own specification and its own invariant.  *)
(*                                                                         *)
(* ModelCalls, for every policy file, workspace file, request and answer:  *)
(* the invariant follows one call record through its locations.  The files *)
(* change under the call, so it is stated over what the call itself keeps: *)
(* the policy it was evaluated against, the workspace files it read, the   *)
(* Local stage, the decision and the process it started.                   *)
(*                                                                         *)
(* ModelContext, for every plan, stage outcome and admission policy: the   *)
(* invariant follows a package from the bundle it was made of to the       *)
(* delivery, the receipt and the report on disk.  Deliveries and bundles   *)
(* only grow, so each part is stated over both and kept by growth.         *)
(*                                                                         *)
(* Continuity, ContextStore and Placement compute with loops.  A loop is a *)
(* recursive function over the first numbers; RecursionExists says that    *)
(* there is one, and what it computes is shown by induction over them.     *)
(***************************************************************************)
EXTENDS ModelCalls, Continuity, ModelContext, ContextStore, Placement,
        FiniteSetTheorems, SequenceTheorems, WellFoundedInduction, TLAPS

---------------------------------------------------------------------------
(* Recursion over the first numbers: one value from the one before.        *)

\* A set of natural numbers has a least member.
LEMMA FirstOf ==
  ASSUME NEW T \in SUBSET Nat, T # {}
  PROVE  \E n \in T : \A m \in T : n <= m
<1>1. PICK n \in T : \A m \in T : <<m, n>> \notin OpToRel(<, Nat)
  BY NatLessThanWellFounded, WFMin
<1>2. \A m \in T : ~(m < n)
  BY <1>1 DEF OpToRel
<1> QED
  BY <1>2

\* Induction up to N: a set with 0 that has every number with its predecessor.
LEMMA UpTo ==
  ASSUME NEW N \in Nat, NEW S, 0 \in S, \A j \in 1..N : j - 1 \in S => j \in S
  PROVE  \A j \in 0..N : j \in S
<1> DEFINE T == {j \in 0..N : j \notin S}
<1>0. SUFFICES ASSUME T # {} PROVE FALSE
  OBVIOUS
<1>1. PICK m \in T : \A k \in T : m <= k
  <2>1. T \in SUBSET Nat
    OBVIOUS
  <2> HIDE DEF T
  <2> QED
    BY <1>0, <2>1, FirstOf
<1>2. m \in 1..N /\ m - 1 \in 0..N /\ ~(m <= m - 1)
  BY <1>1
<1>3. m - 1 \in S
  BY <1>1, <1>2
<1> QED
  BY <1>1, <1>2, <1>3

\* A rule makes a value of V from the one before and a number up to N.
RuleOn(V, N, rule) == rule \in [V \X (1..N) -> V]

\* f[0] is start and f[i] is made by the rule from f[i - 1] and i.
Recursion(V, start, rule, N, f) ==
  /\ f \in [0..N -> V]
  /\ f[0] = start
  /\ \A i \in 1..N : f[i] = rule[<<f[i - 1], i>>]

\* A recursion over 0..N has a solution.
LEMMA RecursionExists ==
  ASSUME NEW V, NEW start \in V, NEW N \in Nat, NEW rule, RuleOn(V, N, rule)
  PROVE  \E f : Recursion(V, start, rule, N, f)
<1> DEFINE S == {m \in 0..N : \E f : Recursion(V, start, rule, m, f)}
<1>0. \A v \in V, i \in 1..N : rule[<<v, i>>] \in V
  BY DEF RuleOn
<1>1. 0 \in S
  <2>1. Recursion(V, start, rule, 0, [i \in 0..0 |-> start])
    BY DEF Recursion
  <2> QED
    BY <2>1
<1>2. ASSUME NEW m \in 1..N, m - 1 \in S PROVE m \in S
  <2>1. PICK f : Recursion(V, start, rule, m - 1, f)
    BY <1>2
  <2>2. /\ f \in [0..m - 1 -> V]
        /\ f[0] = start
        /\ \A i \in 1..m - 1 : f[i] = rule[<<f[i - 1], i>>]
    BY <2>1 DEF Recursion
  <2> DEFINE g == [i \in 0..m |-> IF i = m THEN rule[<<f[m - 1], m>>] ELSE f[i]]
  <2>3. f[m - 1] \in V
    BY <2>2
  <2>4. g \in [0..m -> V]
    BY <1>0, <2>2, <2>3
  <2>5. g[0] = start
    BY <2>2
  <2>6. ASSUME NEW i \in 1..m PROVE g[i] = rule[<<g[i - 1], i>>]
    <3>1. CASE i = m
      BY <3>1
    <3>2. CASE i # m
      <4>1. i \in 1..m - 1 /\ g[i] = f[i] /\ g[i - 1] = f[i - 1]
        BY <3>2
      <4> QED
        BY <2>2, <4>1
    <3> QED
      BY <3>1, <3>2
  <2> HIDE DEF g
  <2>7. Recursion(V, start, rule, m, g)
    BY <2>4, <2>5, <2>6 DEF Recursion
  <2>8. m \in 0..N
    OBVIOUS
  <2> QED
    BY <2>7, <2>8
<1>3. \A j \in 0..N : j \in S
  <2> HIDE DEF S
  <2> QED
    BY <1>1, <1>2, UpTo
<1>4. N \in 0..N
  OBVIOUS
<1> QED
  BY <1>3, <1>4

---------------------------------------------------------------------------
(* ModelCalls: what the operators promise.                                 *)

\* A set with one member has one.
LEMMA OneMember ==
  ASSUME NEW S, Cardinality(S) = 1
  PROVE  S # {}
BY FS_EmptySet

\* local_stage: a stage that may be forwarded comes from a sound answer whose
\* packet, if the gate of _run_online lets it through, is the runtime's own;
\* an advisory that cannot be built is refused.
LEMMA LocalStageSound ==
  ASSUME NEW a \in LocalAnswer, NEW enabled, NEW mutates \in BOOLEAN,
         NEW s, s = local_stage(a, enabled, IF mutates THEN "mutating" ELSE "advising")
  PROVE  /\ a.advisory = "unbuildable" => s.refused
         /\ "output" \in DOMAIN s
         /\ forwardable(s) => sound(a, mutates)
         /\ forwardable(s) /\ s.packet \in {"none", "bound"} => a.packet \in {"none", "same"}
<1> DEFINE mode == IF mutates THEN "mutating" ELSE "advising"
           failed == [stage("FAILED", a.invoked, TRUE, FALSE) EXCEPT !.output = TRUE]
           invalid == advisory_invalid(a.advisory, enabled)
           unproven == ~lineage_passed(a, mode)
           accepted == a.verifier \in {"none", "pass"}
           sent == a.delivered /\ (a.action = "verified-subtask" => accepted)
           done == shared(a) /\ a.invoked /\ sent
           packet == IF done /\ a.packet \in {"none", "same"} THEN "bound" ELSE a.packet
           last == [stage(IF done THEN "SUCCEEDED" ELSE "FAILED", a.invoked,
                          a.evidence \/ packet = "bound", done /\ accepted)
                      EXCEPT !.output = TRUE, !.packet = packet]
<1>1. \/ s = [failed EXCEPT !.refused = TRUE]
      \/ a.advisory # "unbuildable" /\ s = [failed EXCEPT !.invoked = FALSE]
      \/ a.advisory # "unbuildable" /\ s = failed
      \/ a.advisory # "unbuildable" /\ ~unproven /\ s = last
  BY DEF local_stage, advisory_blocks
<1>2. /\ ~forwardable(failed) /\ ~forwardable([failed EXCEPT !.refused = TRUE])
      /\ ~forwardable([failed EXCEPT !.invoked = FALSE])
      /\ [failed EXCEPT !.refused = TRUE].refused
  BY DEF forwardable, stage
<1>3. forwardable(last) => done /\ accepted
  BY DEF forwardable, stage
<1>4. last.packet = packet
  BY DEF stage
<1>5. ~unproven /\ done /\ accepted => sound(a, mutates)
  BY DEF sound, lineage_passed, runtime_lineage, advisor_lineage, executor_bound, shared, LocalAnswer
<1>6. done /\ packet \in {"none", "bound"} => a.packet \in {"none", "same"}
  BY DEF LocalAnswer
<1>7. /\ "output" \in DOMAIN failed /\ "output" \in DOMAIN [failed EXCEPT !.refused = TRUE]
      /\ "output" \in DOMAIN [failed EXCEPT !.invoked = FALSE] /\ "output" \in DOMAIN last
  BY DEF stage
<1> HIDE DEF failed, last, invalid, unproven, done, accepted, packet, sent
<1> QED BY <1>1, <1>2, <1>3, <1>4, <1>5, <1>6, <1>7

---------------------------------------------------------------------------
(* ModelCalls: the online decision.                                        *)

\* The workspace file f lets a provider be called.
Lets(f, provider) ==
  f.state = "file" => f.transfer /\ (f.approved = {} \/ provider \in f.approved)

\* A registered provider is named, and by none of the words for a transport
\* that starts no process.
LEMMA RegisteredNames ==
  ASSUME NEW p \in Registered
  PROVE  p \notin {NoWorker, "injected", "gateway", "fixture"}
<1>2. p # NoWorker
  BY NoWorkerAssumption
<1>3. p \notin {"injected", "gateway", "fixture"}
  BY DEF Registered
<1> QED BY <1>2, <1>3

\* resolve_online_execution_decision: a physical permission is given only to a
\* task that does not deny, by a file that lets the provider be called.
LEMMA PhysicalDecision ==
  ASSUME NEW t, NEW f \in WorkspaceFile, NEW needed, NEW injected, NEW provider \in Registered,
         NEW env, NEW d,
         d = resolve_online_execution_decision(t, f, needed, injected, provider, env),
         d.authorized, d.physical
  PROVE  /\ t # "deny"
         /\ Lets(f, provider)
         /\ t \notin {"auto", "require"} => f.state # "file" \/ f.policy \in {"auto", "require"}
<1> DEFINE ws == load_workspace_online_policy(f)
           chosen == policy_of(t, ws, env.override)
           ready == /\ chosen.policy = "require" \/ (chosen.policy = "auto" /\ needed)
                    /\ ws.transfer
                    /\ chosen.policy = "require" => provider # NoWorker
                    /\ provider \in ws.approved \cup {NoWorker, "injected", "gateway", "fixture"}
                    /\ ~unauthenticated(chosen, provider, env)
<1>1. t # "deny" /\ ready
  <2>1. \/ d = decision("task", FALSE, FALSE)
        \/ d = decision("injected", TRUE, FALSE)
        \/ t # "deny" /\ d = decision(chosen.source, ready, ready)
    BY DEF resolve_online_execution_decision
  <2> HIDE DEF ready, chosen, ws
  <2>2. d # decision("task", FALSE, FALSE)
    BY DEF decision
  <2>3. d # decision("injected", TRUE, FALSE)
    BY DEF decision
  <2>4. d = decision(chosen.source, ready, ready) => ready
    BY DEF decision
  <2> QED BY <2>1, <2>2, <2>3, <2>4
<1>2. provider \notin {NoWorker, "injected", "gateway", "fixture"}
  BY RegisteredNames
<1>3. f.state = "file" => ws.transfer = f.transfer /\ (f.approved # {} => ws.approved = f.approved)
                            /\ ws.present /\ ws.policy = f.policy
  BY DEF load_workspace_online_policy
<1>4. Lets(f, provider)
  BY <1>1, <1>2, <1>3 DEF Lets
<1>5. ASSUME t \notin {"auto", "require"}, f.state = "file"
      PROVE  f.policy \in {"auto", "require"}
  <2>1. chosen.policy = IF f.policy \in OnlinePolicies THEN f.policy ELSE "deny"
    BY <1>3, <1>5 DEF policy_of
  <2> QED BY <2>1, <1>1
<1> QED BY <1>1, <1>4, <1>5

\* The first decision of a call without a task policy has the source "default"
\* only if there is no file to be read.
LEMMA DefaultDecision ==
  ASSUME NEW t, NEW f \in WorkspaceFile, NEW needed, NEW injected, NEW provider, NEW env, NEW d,
         d = resolve_online_execution_decision(t, f, needed, injected, provider, env),
         d.source = "default"
  PROVE  f.state # "file"
<1> DEFINE ws == load_workspace_online_policy(f)
           chosen == policy_of(t, ws, env.override)
<1>1. \/ d = decision("task", FALSE, FALSE)
      \/ d = decision("injected", TRUE, FALSE)
      \/ \E x : d = decision(chosen.source, x, x)
  BY DEF resolve_online_execution_decision
<1>2. chosen.source = "default"
  <2> HIDE DEF chosen
  <2> QED BY <1>1 DEF decision
<1>3. ~ws.present
  BY <1>2 DEF policy_of
<1> QED BY <1>3 DEF load_workspace_online_policy

\* The resolution makes a decision.
LEMMA ResolvesToDecision ==
  ASSUME NEW t, NEW injected
  PROVE  \E x, y, z : resolve_with(t, injected) = decision(x, y, z)
BY DEF resolve_with, resolve_online_execution_decision

\* _narrow_online_decision only takes away: a permission that is left was given
\* by the resolution, and the route did not give it away.
LEMMA NarrowTakes ==
  ASSUME NEW d, NEW hint, NEW x, NEW y, NEW z, d = decision(x, y, z)
  PROVE  narrow(d, hint).authorized /\ narrow(d, hint).physical =>
           d.authorized /\ d.physical /\ hint \notin {"injected", "deny"}
BY DEF narrow, decision

---------------------------------------------------------------------------
(* ModelCalls: admission.                                                  *)

\* The policy file p admits the provider and the model that a names for what
\* the request r asks of Online.
AdmittedFor(p, r, a) ==
  \E id \in DOMAIN p.workers, i \in DOMAIN r.demands :
    /\ r.demands[i].channel = "online" /\ r.demands[i].authorized
    /\ p.workers[id].provider = a.provider /\ p.workers[id].model = a.model
    /\ in_service(p.workers[id])
    /\ p.workers[id].state = "EXPERIMENT_ONLY" => r.bindings["online"].experiment
    /\ r.demands[i].role \in p.workers[id].roles
    /\ r.demands[i].autonomy <= p.workers[id].ceiling
    /\ r.demands[i].mutates => ~p.workers[id].read_only

\* A record that allows was made from a worker that is admitted.
LEMMA RecordAllows ==
  ASSUME NEW p, NEW i, NEW d, NEW bs, NEW rec, rec = admission_record(p, i, d, bs),
         rec.decision = "ALLOW"
  PROVE  /\ d.channel \in DOMAIN bs
         /\ LET q == request_for(d, bs[d.channel]) IN
            /\ resolvable(p, q) /\ ~blocked(p, q) /\ ~escalated(p, q)
            /\ rec.channel = d.channel
            /\ rec.provider = p.workers[resolved(p, q)].provider
            /\ rec.model = p.workers[resolved(p, q)].model
<1>1. refused(i, d).decision # "ALLOW"
  BY DEF refused
<1>2. d.channel \in DOMAIN bs
  BY <1>1 DEF admission_record
<1> DEFINE b == bs[d.channel]
           q == request_for(d, b)
           last == [refused(i, d) EXCEPT !.decision = admit(p, q), !.id = resolved(p, q),
                                         !.provider = p.workers[resolved(p, q)].provider,
                                         !.model = p.workers[resolved(p, q)].model]
<1>3. \/ rec = refused(i, d)
      \/ ~resolvable(p, q) /\ rec = [refused(i, d) EXCEPT !.decision = admit(p, q)]
      \/ resolvable(p, q) /\ rec = last
  BY <1>2 DEF admission_record
<1>4. admit(p, q) = "ALLOW" => ~blocked(p, q) /\ ~escalated(p, q)
  BY DEF admit
<1>5. ~resolvable(p, q) => blocked(p, q)
  BY DEF blocked
<1>6. [refused(i, d) EXCEPT !.decision = admit(p, q)].decision = admit(p, q)
  BY DEF refused
<1>7. /\ last.decision = admit(p, q) /\ last.channel = d.channel
      /\ last.provider = p.workers[resolved(p, q)].provider
      /\ last.model = p.workers[resolved(p, q)].model
  BY DEF refused
<1> HIDE DEF q, b, last
<1>8. resolvable(p, q) /\ rec = last
  BY <1>1, <1>3, <1>4, <1>5, <1>6
<1>9. /\ resolvable(p, q) /\ ~blocked(p, q) /\ ~escalated(p, q)
      /\ rec.channel = d.channel
      /\ rec.provider = p.workers[resolved(p, q)].provider
      /\ rec.model = p.workers[resolved(p, q)].model
  BY <1>8, <1>7, <1>4
<1> QED BY <1>2, <1>9 DEF q, b

\* gateway_authority: the authority of a call is a record of its snapshot that
\* admits what the request asks, whatever worker the route resolved to.
LEMMA AuthorityAdmits ==
  ASSUME NEW name \in DOMAIN Policies, NEW p, p = Policies[name],
         NEW r \in Requests, NEW routed, NEW bs,
         bs = [ch \in DOMAIN r.bindings |->
                 IF r.routed /\ ch = "online" THEN [r.bindings[ch] EXCEPT !.worker = routed]
                                              ELSE r.bindings[ch]],
         NEW result, result = evaluate(valid(p), p, r.demands, bs),
         NEW x, gateway_authority(result, x)
  PROVE  AdmittedFor(p, r, channel_record(result, "online"))
<1> DEFINE rec == channel_record(result, "online")
<1>1. rec \in of_channel(result, "online") /\ rec.decision = "ALLOW"
  BY OneMember DEF gateway_authority, channel_record
<1> HIDE DEF rec
<1>2. rec \in result.records /\ rec.channel = "online"
  BY <1>1 DEF of_channel
<1>3. PICK i \in DOMAIN r.demands :
        rec = IF valid(p) THEN admission_record(p, i, r.demands[i], bs) ELSE refused(i, r.demands[i])
  <2>1. result.records = {IF valid(p) THEN admission_record(p, i, r.demands[i], bs)
                                      ELSE refused(i, r.demands[i]) : i \in DOMAIN r.demands}
    BY DEF evaluate
  <2> QED BY <1>2, <2>1
<1> DEFINE d == r.demands[i]
<1>4. rec = admission_record(p, i, d, bs)
  BY <1>1, <1>3 DEF refused
<1> DEFINE q == request_for(d, bs[d.channel])
           id == resolved(p, q)
           w == p.workers[id]
<1>5. /\ d.channel \in DOMAIN bs
      /\ resolvable(p, q) /\ ~blocked(p, q) /\ ~escalated(p, q)
      /\ rec.channel = d.channel
      /\ rec.provider = w.provider /\ rec.model = w.model
  <2> HIDE DEF d
  <2>1. /\ d.channel \in DOMAIN bs
        /\ LET y == request_for(d, bs[d.channel]) IN
           /\ resolvable(p, y) /\ ~blocked(p, y) /\ ~escalated(p, y)
           /\ rec.channel = d.channel
           /\ rec.provider = p.workers[resolved(p, y)].provider
           /\ rec.model = p.workers[resolved(p, y)].model
    BY <1>1, <1>4, RecordAllows
  <2> QED BY <2>1
<1>6. id \in DOMAIN p.workers
  BY <1>5, OneMember DEF resolvable, resolved, matches
<1>7. w \in Worker /\ d \in Demand
  BY <1>6, PoliciesAssumption, RequestsAssumption
<1>8. "online" \in DOMAIN r.bindings /\ bs[d.channel].experiment = r.bindings["online"].experiment
  <2>1. d.channel = "online" /\ "online" \in DOMAIN r.bindings
    BY <1>5, <1>2
  <2>2. r.bindings["online"] \in Binding
    BY <2>1, RequestsAssumption
  <2>3. [r.bindings["online"] EXCEPT !.worker = routed].experiment = r.bindings["online"].experiment
    BY <2>2 DEF Binding
  <2>4. bs["online"] \in {[r.bindings["online"] EXCEPT !.worker = routed], r.bindings["online"]}
    BY <2>1
  <2> QED BY <2>1, <2>3, <2>4
<1>9. /\ q.authorized = d.authorized /\ q.role = d.role /\ q.autonomy = d.autonomy
      /\ q.mutates = d.mutates /\ q.experiment = bs[d.channel].experiment
  BY DEF request_for
<1> HIDE DEF q, d
<1>10. d.authorized /\ in_service(w) /\ (w.state = "EXPERIMENT_ONLY" => r.bindings["online"].experiment)
  BY <1>5, <1>8, <1>9 DEF blocked
<1>11. d.role \in w.roles /\ (d.mutates => ~w.read_only) /\ ~(d.autonomy > w.ceiling)
  BY <1>5, <1>9 DEF escalated
<1>12. d.autonomy <= w.ceiling
  BY <1>7, <1>11 DEF Worker, Demand
<1> HIDE DEF id
<1> QED BY <1>2, <1>5, <1>6, <1>10, <1>11, <1>12 DEF AdmittedFor, rec, d

---------------------------------------------------------------------------
(* ModelCalls: the inductive invariant.                                    *)

\* The fields of a call that has begun.
Fields ==
  {"pc", "req", "routed", "snapshot", "authority", "admitted", "local", "advisory", "packet",
   "sound", "read", "decision", "started", "answer", "how"}
Undecided == {"evaluate", "local", "decide", "decide_again"}
Locations == Undecided \cup {"online", "running", "grace", "done"}

\* The gates of _run_online, of the call c.
Open(c) ==
  /\ c.authority # NoWorker
  /\ online_gates(c.local, c.advisory, c.req.closable, c.decision.authorized)

ShapeOK(c) == c.pc \in Locations /\ DOMAIN c = Fields /\ c.req \in Requests

\* What a call kept of Local is what its answer was.
LocalOK(c) ==
  /\ c.pc \in {"evaluate", "local"} => c.advisory = "none"
  /\ c.advisory \in {"none", "open", "closed", "invalid", "unbuildable"}
  /\ c.advisory = "unbuildable" => c.local.refused
  /\ "output" \in DOMAIN c.local
  /\ forwardable(c.local) =>
       c.sound /\ (c.local.packet \in {"none", "bound"} => c.packet \in {"none", "same"})

\* The authority of a call is a record of the policy file it was evaluated
\* against, whatever the file says since.
AuthorityOK(c) ==
  /\ c.pc = "evaluate" => c.authority = NoWorker
  /\ c.authority # NoWorker => AdmittedFor(Policies[c.snapshot], c.req, c.authority)

\* What the decision rests on: the request, and the files that were read.
Permitted(c) ==
  /\ c.req.task # "deny" /\ c.req.hint \notin {"injected", "deny"}
  /\ c.req.task = "" => Head(c.read).state # "file" \/ Head(c.read).policy \in {"auto", "require"}
  /\ Lets(c.read[Len(c.read)], c.req.invoker.provider)

\* Nothing is decided before the decision; a second resolution is for a call
\* without a task policy that found no file.
DecisionOK(c) ==
  /\ c.pc \in Undecided => ~c.decision.authorized
  /\ c.pc = "decide_again" =>
       c.req.task = "" /\ \E f \in WorkspaceFile : c.read = <<f>> /\ f.state # "file"
  /\ c.decision.authorized /\ c.decision.physical /\ c.req.invoker.provider \in Registered =>
       Permitted(c)

\* A process was started behind every gate, by the provider of the request and
\* with the model of the authority where the command line takes one.
StartOK(c) ==
  /\ c.pc \in Undecided \cup {"online"} => c.started = NoProcess
  /\ c.pc \in {"running", "grace"} => c.started.provider # NoWorker
  /\ c.started.provider # NoWorker =>
       /\ c.req.invoker.physical /\ Open(c)
       /\ c.started.provider = c.req.invoker.provider /\ c.started.provider \in Registered
       /\ c.started.provider = c.authority.provider /\ c.started.provider \notin BindingUnsupported
       /\ c.decision.authorized /\ c.decision.physical
       /\ c.started.forwarded => forwardable(c.local)
       /\ c.started.provider \in ModelBinding => c.started.model = c.authority.model

\* How a call ends; g is the provider's process group.
EndOK(c, g) ==
  /\ c.pc \notin {"grace", "done"} => c.how = "none"
  /\ c.pc = "done" =>
       /\ c.how = "timeout" => g = {}
       /\ c.answer.invoked <=> c.started.provider # NoWorker \/ (~c.req.invoker.physical /\ Open(c))

CallOK(c, g) ==
  ShapeOK(c) /\ LocalOK(c) /\ AuthorityOK(c) /\ DecisionOK(c) /\ StartOK(c) /\ EndOK(c, g)

\* The invariant: files are as the assumptions say, and the call in progress is
\* as above.
IInv ==
  /\ policy \in DOMAIN Policies
  /\ workspace \in WorkspaceFile
  /\ call = NoCall \/ CallOK(call, group)

---------------------------------------------------------------------------
(* ModelCalls: what a step leaves of a call.                               *)

\* A step may keep the request, the authority, the Local stage or the decision.
SameRequest(c, d) == DOMAIN d = Fields /\ d.req = c.req
SameAuthority(c, d) == d.snapshot = c.snapshot /\ d.authority = c.authority
SameLocal(c, d) ==
  d.local = c.local /\ d.advisory = c.advisory /\ d.packet = c.packet /\ d.sound = c.sound
SameDecision(c, d) == d.read = c.read /\ d.decision = c.decision

\* A step that leaves a part of the call leaves what is true of it.
LEMMA PartsKept ==
  ASSUME NEW c, NEW d, SameRequest(c, d), d.pc \notin {"evaluate", "local"}
  PROVE  /\ LocalOK(c) /\ SameLocal(c, d) => LocalOK(d)
         /\ AuthorityOK(c) /\ SameAuthority(c, d) => AuthorityOK(d)
         /\ Permitted(c) /\ SameDecision(c, d) => Permitted(d)
         /\ SameLocal(c, d) /\ SameAuthority(c, d) /\ SameDecision(c, d) => (Open(d) <=> Open(c))
BY DEF SameRequest, SameLocal, SameAuthority, SameDecision, LocalOK, AuthorityOK, Permitted, Open

\* A call in progress is a record of the call, not the placeholder.
LEMMA InProgress ==
  ASSUME IInv, call.pc # "idle"
  PROVE  CallOK(call, group)
BY DEF IInv, NoCall

---------------------------------------------------------------------------
(* ModelCalls: one lemma per step.                                         *)

\* A new call has nothing yet.
LEMMA RequestStep ==
  ASSUME IInv, NEW r \in Requests, request(r)
  PROVE  IInv'
<1> DEFINE d == call'
<1>1. /\ DOMAIN d = Fields /\ d.pc = "evaluate" /\ d.req = r /\ d.authority = NoWorker
      /\ d.local = not_requested /\ d.advisory = "none" /\ d.packet = "none" /\ d.sound = TRUE
      /\ d.decision = decision("none", FALSE, FALSE) /\ d.started = NoProcess /\ d.how = "none"
  BY DEF request, step, Fields
<1>2. policy' \in DOMAIN Policies /\ workspace' \in WorkspaceFile
  BY DEF IInv, request
<1> HIDE DEF d
<1>3. d.decision.authorized = FALSE
  BY <1>1 DEF decision
<1>4. d.started.provider = NoWorker
  BY <1>1 DEF NoProcess
<1>5. ~forwardable(d.local) /\ "output" \in DOMAIN d.local
  BY <1>1 DEF forwardable, not_requested, stage
<1>6. ShapeOK(d) /\ LocalOK(d) /\ AuthorityOK(d)
  BY <1>1, <1>5 DEF ShapeOK, Locations, Undecided, LocalOK, AuthorityOK
<1>7. DecisionOK(d) /\ StartOK(d) /\ EndOK(d, group')
  BY <1>1, <1>3, <1>4 DEF DecisionOK, Undecided, StartOK, EndOK
<1>8. CallOK(d, group')
  BY <1>6, <1>7 DEF CallOK
<1> QED BY <1>2, <1>8 DEF IInv, d

\* The evaluation: an authority is admitted by the file it was built from.
LEMMA EvaluateStep ==
  ASSUME IInv, evaluate_admission
  PROVE  IInv'
<1> DEFINE c == call
           d == call'
           bs == bindings
           result == evaluate(valid(file_policy), file_policy, req.demands, bs)
           gateway == gateway_authority(result, [req.invoker EXCEPT !.model = req.model])
<1>1. CallOK(c, group) /\ c.pc = "evaluate"
  <2>1. c.pc = "evaluate"
    BY DEF evaluate_admission
  <2> QED BY <2>1, InProgress
<1>2. DOMAIN c = Fields /\ c.req \in Requests
  BY <1>1 DEF CallOK, ShapeOK
<1>3. \/ d = [[c EXCEPT !.snapshot = policy] EXCEPT !.pc = "done", !.answer = not_invoked]
      \/ \E ad : d = [c EXCEPT !.pc = "local", !.snapshot = policy, !.admitted = ad,
                        !.authority = IF gateway THEN channel_record(result, "online") ELSE NoWorker]
  BY DEF evaluate_admission, step, end
<1>4. gateway => AdmittedFor(file_policy, req, channel_record(result, "online"))
  BY <1>2, AuthorityAdmits DEF bindings, file_policy, req, IInv
<1> DEFINE a == IF gateway THEN channel_record(result, "online") ELSE NoWorker
<1> HIDE DEF c, d, result, gateway, a
<1>5. /\ DOMAIN d = Fields /\ d.req = c.req /\ d.snapshot = policy
      /\ SameLocal(c, d) /\ SameDecision(c, d) /\ d.started = c.started /\ d.how = c.how
      /\ \/ d.pc = "done" /\ d.authority = c.authority /\ d.answer = not_invoked
         \/ d.pc = "local" /\ d.authority = a
  BY <1>2, <1>3 DEF Fields, SameLocal, SameDecision, a
<1>6. policy' \in DOMAIN Policies /\ workspace' \in WorkspaceFile /\ group' = group
  BY DEF IInv, evaluate_admission
<1>7. ShapeOK(d)
  BY <1>2, <1>5 DEF ShapeOK, Locations, Undecided
<1>8. LocalOK(d)
  BY <1>1, <1>5 DEF CallOK, LocalOK, SameLocal
<1>9. c.authority = NoWorker /\ c.started = NoProcess /\ ~c.decision.authorized /\ c.how = "none"
  BY <1>1 DEF CallOK, AuthorityOK, StartOK, DecisionOK, EndOK, Undecided
<1>10. AuthorityOK(d)
  BY <1>4, <1>5, <1>9 DEF AuthorityOK, a, file_policy, req, c
<1>11. ~d.decision.authorized /\ d.started = NoProcess /\ d.started.provider = NoWorker
  BY <1>5, <1>9 DEF SameDecision, NoProcess
<1>12. DecisionOK(d) /\ StartOK(d)
  BY <1>5, <1>11 DEF DecisionOK, StartOK
<1>13. d.pc = "done" => ~d.answer.invoked /\ ~Open(d)
  BY <1>5, <1>9 DEF not_invoked, Open
<1>14. EndOK(d, group')
  BY <1>5, <1>9, <1>11, <1>13 DEF EndOK
<1>15. CallOK(d, group')
  BY <1>7, <1>8, <1>10, <1>12, <1>14 DEF CallOK
<1> QED BY <1>6, <1>15 DEF IInv, d

\* Local: what is kept of its answer is what the answer was.
LEMMA LocalStep ==
  ASSUME IInv, run_local
  PROVE  IInv'
<1> DEFINE c == call
           d == call'
           mode == IF req.mutates THEN "mutating" ELSE "advising"
<1>1. CallOK(c, group) /\ c.pc = "local"
  <2>1. c.pc = "local"
    BY DEF run_local
  <2> QED BY <2>1, InProgress
<1>2. DOMAIN c = Fields /\ c.req \in Requests
  BY <1>1 DEF CallOK, ShapeOK
<1>3. \/ d = [c EXCEPT !.pc = "decide"]
      \/ d = [c EXCEPT !.pc = "decide", !.local = stage("FAILED", FALSE, TRUE, FALSE)]
      \/ \E x \in LocalAnswers :
           d = [c EXCEPT !.pc = "decide", !.advisory = x.advisory,
                         !.local = local_stage(x, req.closable, mode),
                         !.packet = x.packet, !.sound = sound(x, req.mutates)]
  BY DEF run_local, step
<1>4. policy' \in DOMAIN Policies /\ workspace' \in WorkspaceFile /\ group' = group
  BY DEF IInv, run_local
<1> HIDE DEF d, mode
<1>5. /\ SameRequest(c, d) /\ d.pc = "decide" /\ SameAuthority(c, d) /\ SameDecision(c, d)
      /\ d.started = c.started /\ d.how = c.how
  <2> HIDE DEF c
  <2> QED BY <1>2, <1>3 DEF Fields, SameRequest, SameAuthority, SameDecision
<1>6. LocalOK(d)
  <2>1. CASE d = [c EXCEPT !.pc = "decide"]
    <3> HIDE DEF c
    <3>1. SameLocal(c, d)
      BY <1>2, <2>1 DEF SameLocal, Fields
    <3> QED BY <1>1, <1>5, <3>1, PartsKept DEF CallOK
  <2>2. CASE d = [c EXCEPT !.pc = "decide", !.local = stage("FAILED", FALSE, TRUE, FALSE)]
    <3> HIDE DEF c
    <3>1. /\ d.local = stage("FAILED", FALSE, TRUE, FALSE) /\ d.advisory = c.advisory
      BY <1>2, <2>2 DEF Fields
    <3>2. ~forwardable(d.local) /\ "output" \in DOMAIN d.local
      BY <3>1 DEF forwardable, stage
    <3>3. c.advisory # "unbuildable"
      BY <1>1 DEF CallOK, LocalOK
    <3> QED BY <1>1, <3>1, <3>2, <3>3 DEF CallOK, LocalOK
  <2>3. ASSUME NEW x \in LocalAnswers,
               d = [c EXCEPT !.pc = "decide", !.advisory = x.advisory,
                             !.local = local_stage(x, req.closable, mode),
                             !.packet = x.packet, !.sound = sound(x, req.mutates)]
        PROVE  LocalOK(d)
    <3>1. /\ d.advisory = x.advisory /\ d.local = local_stage(x, req.closable, mode)
          /\ d.packet = x.packet /\ d.sound = sound(x, req.mutates)
      <4> HIDE DEF c
      <4> QED BY <1>2, <2>3 DEF Fields
    <3>2. x \in LocalAnswer /\ req.mutates \in BOOLEAN
      BY <1>2, LocalAssumption, RequestsAssumption DEF req
    <3>3. /\ x.advisory = "unbuildable" => d.local.refused
          /\ "output" \in DOMAIN d.local
          /\ forwardable(d.local) => sound(x, req.mutates)
          /\ forwardable(d.local) /\ d.local.packet \in {"none", "bound"} => x.packet \in {"none", "same"}
      BY <3>1, <3>2, LocalStageSound DEF mode
    <3>4. x.advisory \in {"none", "open", "closed", "invalid", "unbuildable"}
      BY <3>2 DEF LocalAnswer
    <3> QED BY <1>5, <3>1, <3>3, <3>4 DEF LocalOK
  <2> QED BY <1>3, <2>1, <2>2, <2>3
<1>7. ShapeOK(d) /\ AuthorityOK(d)
  BY <1>1, <1>2, <1>5, PartsKept DEF CallOK, ShapeOK, SameRequest, Locations, Undecided
<1>8. c.started = NoProcess /\ ~c.decision.authorized /\ c.how = "none"
  BY <1>1 DEF CallOK, StartOK, DecisionOK, EndOK, Undecided
<1>9. ~d.decision.authorized /\ d.started = NoProcess /\ d.started.provider = NoWorker
  BY <1>5, <1>8 DEF SameDecision, NoProcess
<1>10. DecisionOK(d) /\ StartOK(d) /\ EndOK(d, group')
  BY <1>5, <1>8, <1>9 DEF DecisionOK, StartOK, EndOK
<1>11. CallOK(d, group')
  BY <1>6, <1>7, <1>10 DEF CallOK
<1> QED BY <1>4, <1>11 DEF IInv, d

\* The decision, of a first or a second resolution: a permission that is left
\* after narrowing rests on the request and on the files that were read.
LEMMA DecideStep ==
  ASSUME IInv, decide \/ decide_again
  PROVE  IInv'
<1> DEFINE c == call
           d == call'
           once == resolve_with(req.task, injected_flag(req.task, req.invoker, req.hint))
           again == resolve_with("auto", FALSE)
           seen == [c EXCEPT !.read = <<workspace>>]
<1>1. CallOK(c, group) /\ c.pc \in {"decide", "decide_again"}
  <2>1. c.pc \in {"decide", "decide_again"}
    BY DEF decide, decide_again
  <2> QED BY <2>1, InProgress
<1>2. DOMAIN c = Fields /\ c.req \in Requests
  BY <1>1 DEF CallOK, ShapeOK
<1>3. \/ /\ implicit_auto(req.task, req.invoker, once)
         /\ d = [seen EXCEPT !.pc = "decide_again"]
      \/ /\ ~implicit_auto(req.task, req.invoker, once) /\ c.pc = "decide"
         /\ d = [seen EXCEPT !.pc = "online", !.decision = narrow(once, req.hint)]
      \/ /\ c.pc = "decide_again"
         /\ d = [c EXCEPT !.pc = "online", !.read = Append(@, workspace),
                          !.decision = narrow(again, req.hint)]
  BY DEF decide, decide_again, step
<1>4. policy' \in DOMAIN Policies /\ workspace \in WorkspaceFile /\ workspace' = workspace
      /\ group' = group
  BY DEF IInv, decide, decide_again
<1> HIDE DEF d, once, again
<1>5. /\ SameRequest(c, d) /\ SameAuthority(c, d) /\ SameLocal(c, d) /\ d.started = c.started
      /\ d.how = c.how
      /\ \/ /\ implicit_auto(req.task, req.invoker, once)
            /\ d.pc = "decide_again" /\ d.read = <<workspace>> /\ d.decision = c.decision
         \/ /\ ~implicit_auto(req.task, req.invoker, once)
            /\ d.pc = "online" /\ d.read = <<workspace>> /\ d.decision = narrow(once, req.hint)
         \/ /\ c.pc = "decide_again"
            /\ d.pc = "online" /\ d.read = Append(c.read, workspace)
            /\ d.decision = narrow(again, req.hint)
  <2> HIDE DEF c
  <2> QED BY <1>2, <1>3 DEF Fields, SameRequest, SameAuthority, SameLocal
<1>6. ShapeOK(d) /\ AuthorityOK(d) /\ LocalOK(d)
  BY <1>1, <1>2, <1>5, PartsKept DEF CallOK, ShapeOK, SameRequest, Locations, Undecided
<1>7. c.started = NoProcess /\ ~c.decision.authorized /\ c.how = "none"
  BY <1>1 DEF CallOK, StartOK, DecisionOK, EndOK, Undecided
<1>8. d.started = NoProcess /\ d.started.provider = NoWorker
  BY <1>5, <1>7 DEF NoProcess
<1>9. StartOK(d) /\ EndOK(d, group')
  BY <1>5, <1>7, <1>8 DEF StartOK, EndOK
<1>10. DecisionOK(d)
  <2>1. CASE d.pc = "decide_again"
    <3>1. /\ implicit_auto(req.task, req.invoker, once)
          /\ d.read = <<workspace>> /\ d.decision = c.decision
      BY <1>5, <2>1
    <3>2. req.task = "" /\ once.source = "default"
      BY <3>1 DEF implicit_auto
    <3>3. workspace.state # "file"
      BY <3>2, <1>4, DefaultDecision DEF once, resolve_with
    <3>4. d.req.task = ""
      BY <3>2, <1>5 DEF SameRequest, req
    <3> QED BY <1>4, <1>7, <2>1, <3>1, <3>3, <3>4 DEF DecisionOK
  <2>2. CASE d.pc = "online" /\ d.read = <<workspace>> /\ d.decision = narrow(once, req.hint)
             /\ ~implicit_auto(req.task, req.invoker, once)
    <3> SUFFICES ASSUME d.decision.authorized, d.decision.physical,
                        d.req.invoker.provider \in Registered
                 PROVE  Permitted(d)
      BY <2>2 DEF DecisionOK, Undecided
    <3>1. once.authorized /\ once.physical /\ req.hint \notin {"injected", "deny"}
      <4>1. PICK x, y, z : once = decision(x, y, z)
        BY ResolvesToDecision DEF once
      <4>2. narrow(once, req.hint).authorized /\ narrow(once, req.hint).physical
        BY <2>2
      <4> QED BY <4>1, <4>2, NarrowTakes
    <3>2. d.req = req
      BY <1>5 DEF SameRequest, req
    <3>3. /\ req.task # "deny"
          /\ Lets(workspace, req.invoker.provider)
          /\ req.task \notin {"auto", "require"} =>
               workspace.state # "file" \/ workspace.policy \in {"auto", "require"}
      BY <1>4, <3>1, <3>2, PhysicalDecision, ZenonT(30) DEF once, resolve_with
    <3>4. Head(d.read) = workspace /\ d.read[Len(d.read)] = workspace
      BY <2>2
    <3> QED BY <3>1, <3>2, <3>3, <3>4 DEF Permitted
  <2>3. CASE d.pc = "online" /\ d.read = Append(c.read, workspace)
             /\ d.decision = narrow(again, req.hint) /\ c.pc = "decide_again"
    <3> SUFFICES ASSUME d.decision.authorized, d.decision.physical,
                        d.req.invoker.provider \in Registered
                 PROVE  Permitted(d)
      BY <2>3 DEF DecisionOK, Undecided
    <3>1. again.authorized /\ again.physical /\ req.hint \notin {"injected", "deny"}
      <4>1. PICK x, y, z : again = decision(x, y, z)
        BY ResolvesToDecision DEF again
      <4>2. narrow(again, req.hint).authorized /\ narrow(again, req.hint).physical
        BY <2>3
      <4> QED BY <4>1, <4>2, NarrowTakes
    <3>2. d.req = req
      BY <1>5 DEF SameRequest, req
    <3>3. Lets(workspace, req.invoker.provider)
      BY <1>4, <3>1, <3>2, PhysicalDecision DEF again, resolve_with
    <3>4. PICK f \in WorkspaceFile : c.read = <<f>> /\ f.state # "file" /\ req.task = ""
      BY <1>1, <2>3 DEF CallOK, DecisionOK, req
    <3>5. Head(d.read) = f /\ d.read[Len(d.read)] = workspace
      <4>1. d.read = Append(<<f>>, workspace)
        BY <2>3, <3>4
      <4>2. <<f>> \in Seq(WorkspaceFile) /\ Len(<<f>>) = 1 /\ <<f>>[1] = f
        OBVIOUS
      <4>3. /\ d.read \in Seq(WorkspaceFile) /\ Len(d.read) = 2
            /\ d.read[1] = f /\ d.read[2] = workspace
        BY <1>4, <4>1, <4>2, AppendProperties
      <4> QED BY <4>3
    <3> QED BY <3>1, <3>2, <3>3, <3>4, <3>5 DEF Permitted
  <2> QED BY <1>5, <2>1, <2>2, <2>3
<1>11. CallOK(d, group')
  BY <1>6, <1>9, <1>10 DEF CallOK
<1> QED BY <1>4, <1>11 DEF IInv, d

\* A step that leaves request, authority, Local and decision alone and starts
\* no process keeps everything but how the call ends.
LEMMA OnlyTheEnd ==
  ASSUME NEW c, NEW d, NEW g, NEW h, CallOK(c, g), c.pc \notin Undecided,
         SameRequest(c, d), SameAuthority(c, d), SameLocal(c, d), SameDecision(c, d),
         d.started = c.started, d.pc \in {"running", "grace", "done"},
         d.pc # "done" => c.pc = "running", EndOK(d, h)
  PROVE  CallOK(d, h)
<1>1. ShapeOK(d) /\ LocalOK(d) /\ AuthorityOK(d)
  BY PartsKept DEF CallOK, ShapeOK, SameRequest, Locations
<1>2. DecisionOK(d)
  BY PartsKept DEF CallOK, DecisionOK, SameRequest, SameDecision, Undecided
<1>3. Open(d) <=> Open(c)
  BY PartsKept
<1>4. /\ d.req = c.req /\ d.authority = c.authority /\ d.decision = c.decision /\ d.local = c.local
      /\ d.pc \notin Undecided \cup {"online"} /\ StartOK(c)
  BY DEF SameRequest, SameAuthority, SameDecision, SameLocal, CallOK, Undecided
<1>5. StartOK(d)
  BY <1>3, <1>4 DEF StartOK
<1> QED BY <1>1, <1>2, <1>5 DEF CallOK

\* The process that is started: the provider's own, with the model of the
\* authority where its command line takes one.
LEMMA Bound ==
  ASSUME NEW provider, NEW cmd, NEW model, NEW default, NEW authority, NEW text,
         ~model_binding_failure(provider, model, authority), authority # NoWorker,
         ~command_refused(provider, cmd, model, authority, text), provider \in ModelBinding
  PROVE  argv_model(provider, cmd, model, default) = authority.model
<1>1. model = authority.model /\ model # NoWorker
  BY DEF model_binding_failure
<1>2. cmd.shape # "bare" => cmd.model = model
  BY <1>1 DEF command_refused
<1>3. cmd.shape = "bare" => argv_model(provider, cmd, model, default) = model
  BY <1>1 DEF argv_model, PrintFlag, ModelBinding
<1>4. cmd.shape # "bare" => argv_model(provider, cmd, model, default) = cmd.model
  BY DEF argv_model
<1> QED BY <1>1, <1>2, <1>3, <1>4

\* _run_online: refused, answered without a process, or a process is started
\* behind every gate.
LEMMA OnlineStep ==
  ASSUME IInv, run_online
  PROVE  IInv'
<1> DEFINE c == call
           d == call'
           provider == req.invoker.provider
           proc == [provider |-> provider, forwarded |-> online_view(c.local).output,
                    model |-> argv_model(provider, command, model_name, default_name)]
<1>1. CallOK(c, group) /\ c.pc = "online"
  <2>1. c.pc = "online"
    BY DEF run_online
  <2> QED BY <2>1, InProgress
<1>2. DOMAIN c = Fields /\ c.req \in Requests
  BY <1>1 DEF CallOK, ShapeOK
<1>3. \/ /\ ~open /\ group' = group
         /\ d = [c EXCEPT !.pc = "done", !.answer = not_invoked]
      \/ /\ open /\ ~req.invoker.physical /\ group' = group
         /\ \E x \in Exits : d = [c EXCEPT !.pc = "done", !.answer = exit_answer("fixture", x)]
      \/ /\ open /\ req.invoker.physical /\ group' = group
         /\ d = [c EXCEPT !.pc = "done", !.answer = not_invoked]
      \/ /\ open /\ req.invoker.physical /\ group' = group
         /\ d = [[c EXCEPT !.how = "oserror"] EXCEPT !.pc = "done", !.answer = not_invoked]
      \/ /\ open /\ req.invoker.physical /\ startable
         /\ d = [c EXCEPT !.pc = "running", !.started = proc]
  BY DEF run_online, step, end
<1>4. policy' \in DOMAIN Policies /\ workspace' \in WorkspaceFile
  BY DEF IInv, run_online
<1>5. (open <=> Open(c)) /\ req = c.req
  BY DEF open, Open, req
<1>6. c.started = NoProcess /\ c.started.provider = NoWorker /\ c.how = "none"
  BY <1>1 DEF CallOK, StartOK, EndOK, NoProcess
<1>7. ~not_invoked.invoked /\ \A x : exit_answer("fixture", x).invoked
  BY DEF not_invoked, exit_answer
<1> HIDE DEF d, proc
<1>8. /\ SameRequest(c, d) /\ SameAuthority(c, d) /\ SameLocal(c, d) /\ SameDecision(c, d)
      /\ \/ /\ d.pc = "done" /\ d.started = c.started /\ d.how \in {"none", "oserror"}
            /\ d.answer.invoked <=> (~req.invoker.physical /\ open)
         \/ /\ open /\ req.invoker.physical /\ startable
            /\ d.pc = "running" /\ d.started = proc /\ d.how = "none"
  <2> HIDE DEF c
  <2>1. SameRequest(c, d) /\ SameAuthority(c, d) /\ SameLocal(c, d) /\ SameDecision(c, d)
    BY <1>2, <1>3 DEF Fields, SameRequest, SameAuthority, SameLocal, SameDecision
  <2>2. \/ /\ d.pc = "done" /\ d.started = c.started /\ d.how \in {"none", "oserror"}
           /\ \/ ~open /\ d.answer = not_invoked
              \/ open /\ ~req.invoker.physical /\ \E x \in Exits : d.answer = exit_answer("fixture", x)
              \/ open /\ req.invoker.physical /\ d.answer = not_invoked
        \/ /\ open /\ req.invoker.physical /\ startable
           /\ d.pc = "running" /\ d.started = proc /\ d.how = "none"
    BY <1>2, <1>3, <1>6 DEF Fields
  <2> QED BY <1>7, <2>1, <2>2
<1>9. CASE d.pc = "done"
  <2>1. Open(d) <=> Open(c)
    BY <1>8, <1>9, PartsKept
  <2>2. d.req = c.req
    BY <1>8 DEF SameRequest
  <2>3. EndOK(d, group')
    BY <1>5, <1>6, <1>8, <1>9, <2>1, <2>2 DEF EndOK
  <2>4. CallOK(d, group')
    BY <1>1, <1>8, <1>9, <2>3, OnlyTheEnd DEF Undecided
  <2> QED BY <1>4, <2>4 DEF IInv, d
<1>10. CASE d.pc = "running"
  <2>1. open /\ req.invoker.physical /\ startable /\ d.started = proc /\ d.how = "none"
    BY <1>8, <1>10
  <2>2. Open(d) /\ Open(c) /\ c.authority # NoWorker
    BY <1>5, <1>8, <1>10, <2>1, PartsKept DEF Open
  <2>3. /\ ~model_binding_failure(provider, model_name, c.authority)
        /\ c.decision.authorized /\ c.decision.physical
        /\ ~command_refused(provider, command, model_name, c.authority, req.prompt)
        /\ command # NoWorker
    BY <2>1 DEF startable, physical_online_authorized
  <2>4. provider \in Registered
    BY <2>3 DEF command, resolve_command
  <2>5. /\ provider # NoWorker /\ provider = c.authority.provider
        /\ provider \notin BindingUnsupported
    BY <2>2, <2>3, <2>4, RegisteredNames DEF model_binding_failure
  <2>6. /\ proc.provider = provider /\ proc.forwarded = online_view(c.local).output
        /\ proc.model = argv_model(provider, command, model_name, default_name)
    BY DEF proc
  <2>7. provider \in ModelBinding => proc.model = c.authority.model
    BY <2>2, <2>3, <2>6, Bound
  <2>8. proc.forwarded => forwardable(c.local)
    <3>1. "output" \in DOMAIN c.local
      BY <1>1 DEF CallOK, LocalOK
    <3> QED BY <2>6, <3>1 DEF online_view
  <2>9. /\ d.req = c.req /\ d.authority = c.authority /\ d.decision = c.decision
        /\ d.local = c.local
    BY <1>8 DEF SameRequest, SameAuthority, SameDecision, SameLocal
  <2>10. StartOK(d)
    BY <1>5, <1>10, <2>1, <2>2, <2>3, <2>4, <2>5, <2>6, <2>7, <2>8, <2>9 DEF StartOK, Undecided
  <2>11. ShapeOK(d) /\ LocalOK(d) /\ AuthorityOK(d)
    BY <1>1, <1>2, <1>8, <1>10, PartsKept DEF CallOK, ShapeOK, SameRequest, Locations
  <2>12. DecisionOK(d)
    BY <1>1, <1>8, <1>10, PartsKept DEF CallOK, DecisionOK, SameRequest, SameDecision, Undecided
  <2>13. EndOK(d, group')
    BY <1>10, <2>1 DEF EndOK
  <2>14. CallOK(d, group')
    BY <2>10, <2>11, <2>12, <2>13 DEF CallOK
  <2> QED BY <1>4, <2>14 DEF IInv, d
<1> QED BY <1>8, <1>9, <1>10

\* The provider ends, times out, and is killed: the answer says that it was
\* called, and after a timeout the group is empty.
LEMMA ProcessStep ==
  ASSUME IInv, exit \/ timeout \/ terminate
  PROVE  IInv'
<1> DEFINE c == call
           d == call'
<1>1. CallOK(c, group) /\ c.pc \in {"running", "grace"}
  <2>1. c.pc \in {"running", "grace"}
    BY DEF exit, timeout, terminate
  <2> QED BY <2>1, InProgress
<1>2. DOMAIN c = Fields /\ c.started.provider # NoWorker
  BY <1>1 DEF CallOK, ShapeOK, StartOK
<1>3. \/ \E x \in Exits :
           d = [[c EXCEPT !.how = "exit"] EXCEPT !.pc = "done",
                                                !.answer = exit_answer(c.started.provider, x)]
      \/ c.pc = "running" /\ d = [c EXCEPT !.pc = "grace", !.how = "timeout"]
      \/ group' = {} /\ d = [c EXCEPT !.pc = "done", !.answer = timed_out]
  BY DEF exit, timeout, terminate, step, end, kill
<1>4. policy' \in DOMAIN Policies /\ workspace' \in WorkspaceFile
  BY DEF IInv, exit, timeout, terminate
<1>5. timed_out.invoked /\ \A p, x : exit_answer(p, x).invoked
  BY DEF timed_out, exit_answer
<1> HIDE DEF c, d
<1>6. /\ SameRequest(c, d) /\ SameAuthority(c, d) /\ SameLocal(c, d) /\ SameDecision(c, d)
      /\ d.started = c.started
  BY <1>2, <1>3 DEF Fields, SameRequest, SameAuthority, SameLocal, SameDecision
<1>7. \/ \E x \in Exits : d.pc = "done" /\ d.how = "exit" /\ d.answer = exit_answer(c.started.provider, x)
      \/ c.pc = "running" /\ d.pc = "grace"
      \/ group' = {} /\ d.pc = "done" /\ d.answer = timed_out
  BY <1>2, <1>3 DEF Fields
<1>8. \/ d.pc = "grace" /\ c.pc = "running"
      \/ d.pc = "done" /\ d.answer.invoked /\ (d.how = "exit" \/ group' = {})
  BY <1>5, <1>7
<1>9. EndOK(d, group')
  BY <1>2, <1>6, <1>8 DEF EndOK
<1>10. CallOK(d, group')
  BY <1>1, <1>6, <1>8, <1>9, OnlyTheEnd DEF Undecided
<1> QED BY <1>4, <1>10 DEF IInv, d

\* Files, routes and calls that do not move leave a call alone.
LEMMA OtherStep ==
  ASSUME IInv, \/ \E p \in DOMAIN Policies : edit_policy(p)
               \/ \E f \in Workspaces : edit_workspace(f)
               \/ \E role, campaign, consumer : resolve(role, campaign, consumer)
               \/ UNCHANGED vars
  PROVE  IInv'
<1>1. policy' \in DOMAIN Policies /\ workspace' \in WorkspaceFile
  BY FilesAssumption DEF IInv, edit_policy, edit_workspace, resolve, vars
<1>2. call' = call /\ group' = group
  BY DEF edit_policy, edit_workspace, resolve, vars
<1> QED BY <1>1, <1>2 DEF IInv

\* The invariant of a call holds in every reachable state.
LEMMA CallsAreOK == Spec => []IInv
<1>1. Init => IInv
  BY FilesAssumption DEF Init, IInv
<1>2. IInv /\ [Next]_vars => IInv'
  <2> SUFFICES ASSUME IInv, [Next]_vars
               PROVE  IInv'
    OBVIOUS
  <2>1. CASE Call
    BY <2>1, EvaluateStep, LocalStep, DecideStep, OnlineStep, ProcessStep DEF Call
  <2>2. CASE exit
    BY <2>2, ProcessStep
  <2>3. CASE \E r \in Requests : request(r)
    BY <2>3, RequestStep
  <2>4. CASE \/ \E p \in DOMAIN Policies : edit_policy(p)
             \/ \E f \in Workspaces : edit_workspace(f)
             \/ \E role, campaign, consumer : resolve(role, campaign, consumer)
             \/ UNCHANGED vars
    BY <2>4, OtherStep
  <2> QED BY <2>1, <2>2, <2>3, <2>4 DEF Next
<1> QED BY <1>1, <1>2, PTL DEF Spec

---------------------------------------------------------------------------
(* ModelCalls: the theorems.                                               *)

\* What is true of a started process.
LEMMA StartedFacts ==
  ASSUME IInv, started
  PROVE  CallOK(call, group) /\ call.started.provider # NoWorker
BY DEF IInv, started

\* A physical provider process needs a permission: the task does not deny, the
\* route gave nothing away, and the workspace files the call read, however they
\* were edited since, let this provider be called.
THEOREM StartsOnlyIfAuthorized == Spec => []PhysicalOnlyIfAuthorized
<1>1. IInv => PhysicalOnlyIfAuthorized
  <2> SUFFICES ASSUME IInv, started
               PROVE  PhysicalOnlyIfAuthorized
    BY DEF PhysicalOnlyIfAuthorized
  <2>1. StartOK(call) /\ DecisionOK(call) /\ call.started.provider # NoWorker
    BY StartedFacts DEF CallOK
  <2>2. /\ call.req.invoker.physical /\ call.started.provider = call.req.invoker.provider
        /\ Permitted(call)
    BY <2>1 DEF StartOK, DecisionOK
  <2> QED BY <2>2 DEF PhysicalOnlyIfAuthorized, Permitted, Lets, req
<1> QED BY <1>1, CallsAreOK, PTL

\* A provider is shown Local's output only if the answer was sound, and is not
\* started over Local's refusal, whatever Local answers.
THEOREM LocalIsRespected == Spec => []LocalRespected
<1>1. IInv => LocalRespected
  <2> SUFFICES ASSUME IInv, started
               PROVE  LocalRespected
    BY DEF LocalRespected
  <2>1. StartOK(call) /\ LocalOK(call) /\ call.started.provider # NoWorker
    BY StartedFacts DEF CallOK
  <2>2. Open(call) /\ (call.started.forwarded => forwardable(call.local))
    BY <2>1 DEF StartOK
  <2>3. /\ ~call.local.refused /\ call.advisory \notin {"closed", "invalid"}
        /\ forwardable(call.local) => call.local.packet \in {"none", "bound"}
    BY <2>2 DEF Open, online_gates, advisory_invalid, advisory_blocks
  <2> QED BY <2>1, <2>2, <2>3 DEF LocalRespected, LocalOK
<1> QED BY <1>1, CallsAreOK, PTL

\* A call that is over says whether a provider was called, and leaves nobody of
\* its process group alive after a timeout, however the processes react to
\* signals.
THEOREM OverMeansOver == Spec => []DoneMeansOver
<1>1. IInv => DoneMeansOver
  <2> SUFFICES ASSUME IInv, call.pc = "done"
               PROVE  DoneMeansOver
    BY DEF DoneMeansOver
  <2>1. EndOK(call, group)
    BY InProgress DEF CallOK
  <2>2. started <=> call.started.provider # NoWorker
    BY DEF started, NoCall
  <2>3. (open <=> Open(call)) /\ req = call.req
    BY DEF open, Open, req
  <2> QED BY <2>1, <2>2, <2>3 DEF EndOK, DoneMeansOver
<1> QED BY <1>1, CallsAreOK, PTL

\* No request goes to gemini, the one registered provider whose command line
\* takes no model and which is not refused under an authority for it (grok and
\* openai are).
ModelIsBound == \A r \in Requests : r.invoker.provider # "gemini"

\* A provider process runs as the provider and the model that the policy file
\* of the evaluation admits for the demand, whatever route was cached, whatever
\* the request, the invoker and the command name, and however the file was
\* edited since.
THEOREM StartsAsAdmitted == ModelIsBound => (Spec => []CalledAsAdmitted)
<1> SUFFICES ASSUME ModelIsBound PROVE Spec => []CalledAsAdmitted
  OBVIOUS
<1>1. IInv => CalledAsAdmitted
  <2> SUFFICES ASSUME IInv, started
               PROVE  CalledAsAdmitted
    BY DEF CalledAsAdmitted
  <2>1. ShapeOK(call) /\ StartOK(call) /\ AuthorityOK(call) /\ call.started.provider # NoWorker
    BY StartedFacts DEF CallOK
  <2>2. /\ call.started.provider \in Registered \ BindingUnsupported
        /\ call.started.provider = call.authority.provider
        /\ call.started.provider = call.req.invoker.provider /\ call.authority # NoWorker
        /\ call.started.provider \in ModelBinding => call.started.model = call.authority.model
    BY <2>1 DEF StartOK, Open
  <2>3. call.started.provider # "gemini"
    BY <2>1, <2>2 DEF ModelIsBound, ShapeOK
  <2>4. call.started.provider \in ModelBinding
    BY <2>2, <2>3 DEF Registered, BindingUnsupported, ModelBinding
  <2>5. AdmittedFor(Policies[call.snapshot], call.req, call.started)
    BY <2>1, <2>2, <2>4 DEF AuthorityOK, AdmittedFor
  <2> QED BY <2>5 DEF CalledAsAdmitted, AdmittedFor, req
<1> QED BY <1>1, CallsAreOK, PTL

---------------------------------------------------------------------------
(* Placement: the scan over the hosts.                                     *)

\* Python's order of tuples of numbers is transitive, and no tuple is less
\* than itself.
LEMMA TupleOrder ==
  ASSUME NEW n \in Nat, NEW s \in [1..n -> Int], NEW t \in [1..n -> Int], NEW u \in [1..n -> Int]
  PROVE  /\ tuple_less(s, t) /\ tuple_less(t, u) => tuple_less(s, u)
         /\ ~tuple_less(s, s)
<1>1. ASSUME tuple_less(s, t), tuple_less(t, u) PROVE tuple_less(s, u)
  <2>1. PICK k \in 1..n : s[k] < t[k] /\ \A j \in 1..k - 1 : s[j] = t[j]
    BY <1>1 DEF tuple_less
  <2>2. PICK l \in 1..n : t[l] < u[l] /\ \A j \in 1..l - 1 : t[j] = u[j]
    BY <1>1 DEF tuple_less
  <2> DEFINE m == IF k <= l THEN k ELSE l
  <2>3. m \in 1..n /\ \A j \in 1..m - 1 : j \in 1..k - 1 /\ j \in 1..l - 1 /\ j \in 1..n
    OBVIOUS
  <2>4. s[m] < u[m]
    <3>1. s[k] \in Int /\ t[k] \in Int /\ u[k] \in Int /\ s[l] \in Int /\ t[l] \in Int /\ u[l] \in Int
      OBVIOUS
    <3>2. CASE k = l
      BY <2>1, <2>2, <3>1, <3>2
    <3>3. CASE k < l
      BY <2>1, <2>2, <3>1, <3>3
    <3>4. CASE l < k
      BY <2>1, <2>2, <3>1, <3>4
    <3> QED
      BY <3>2, <3>3, <3>4
  <2>5. \A j \in 1..m - 1 : s[j] = u[j]
    BY <2>1, <2>2, <2>3
  <2> QED
    BY <2>3, <2>4, <2>5 DEF tuple_less
<1>2. ~tuple_less(s, s)
  BY DEF tuple_less
<1> QED
  BY <1>1, <1>2

\* A score has one number for each criterion.
LEMMA ScoreType ==
  ASSUME NEW r \in Placements, NEW h \in Hosts, NEW facts \in Facts
  PROVE  /\ Len(r.preferences.criteria) \in Nat
         /\ preference_score(r.preferences, h, facts) \in [1..Len(r.preferences.criteria) -> Int]
<1> DEFINE p == r.preferences
           score(k) ==
             CASE p.criteria[k] = "PREFERRED_HOST_ORDER" ->
                     IF Contains(p.hosts, h)
                     THEN Len(p.hosts) - (CHOOSE i \in DOMAIN p.hosts : p.hosts[i] = h) + 1
                     ELSE 0
               [] p.criteria[k] = "MORE_AVAILABLE_MEMORY" -> facts.available_memory
               [] p.criteria[k] = "LOWER_NORMALIZED_LOAD" -> -facts.load
<1>1. p.criteria \in Seq(CRITERIA) /\ p.hosts \in Seq(Nat)
  BY PreferenceAssumption
<1>2. facts.available_memory \in Int /\ facts.load \in Int
  BY PreferenceAssumption
<1>3. Len(p.criteria) \in Nat /\ DOMAIN p.criteria = 1..Len(p.criteria)
      /\ Len(p.hosts) \in Nat /\ DOMAIN p.hosts = 1..Len(p.hosts)
  BY <1>1
<1>4. ASSUME NEW k \in 1..Len(p.criteria) PROVE score(k) \in Int
  <2>1. p.criteria[k] \in CRITERIA
    BY <1>1, <1>3
  <2>2. CASE p.criteria[k] = "PREFERRED_HOST_ORDER"
    <3>1. score(k) = IF Contains(p.hosts, h)
                     THEN Len(p.hosts) - (CHOOSE i \in DOMAIN p.hosts : p.hosts[i] = h) + 1
                     ELSE 0
      BY <2>2
    <3>2. CASE Contains(p.hosts, h)
      <4>1. \E i \in DOMAIN p.hosts : p.hosts[i] = h
        BY <1>3, <3>2 DEF Contains
      <4>2. (CHOOSE i \in DOMAIN p.hosts : p.hosts[i] = h) \in Int
        BY <1>3, <4>1
      <4> HIDE DEF score, p
      <4> QED
        BY <1>3, <3>1, <3>2, <4>2
    <3>3. CASE ~Contains(p.hosts, h)
      <4> HIDE DEF score
      <4> QED
        BY <3>1, <3>3
    <3> QED
      BY <3>2, <3>3
  <2>3. CASE p.criteria[k] = "MORE_AVAILABLE_MEMORY"
    <3>1. score(k) = facts.available_memory
      BY <2>3
    <3> HIDE DEF score
    <3> QED
      BY <1>2, <3>1
  <2>4. CASE p.criteria[k] = "LOWER_NORMALIZED_LOAD"
    <3>1. score(k) = -facts.load
      BY <2>4
    <3> HIDE DEF score
    <3> QED
      BY <1>2, <3>1
  <2> QED
    BY <2>1, <2>2, <2>3, <2>4 DEF CRITERIA
<1>5. preference_score(p, h, facts) = [k \in 1..Len(p.criteria) |-> score(k)]
  BY <1>3 DEF preference_score
<1> HIDE DEF score
<1> QED
  BY <1>3, <1>4, <1>5

\* The snapshots DevSpace may have of the hosts.
Snapshot == [online : {TRUE}, facts : Facts, observed_at : Int]

\* What the provider may hold of each host: a snapshot, or the host is offline.
Inventory == [Hosts -> Snapshot \cup {Offline}]

\* A host that is present has a snapshot.
LEMMA PresentSnapshot ==
  ASSUME NEW inv \in Inventory, NEW h \in present(inv)
  PROVE  h \in Hosts /\ inv[h] \in Snapshot
<1>1. h \in Hosts /\ inv[h].online
  BY DEF present
<1>2. Offline.online = FALSE
  BY DEF Offline
<1>3. inv[h] # Offline
  BY <1>1, <1>2, Zenon
<1> QED
  BY <1>1, <1>3 DEF Inventory

\* What select promises: with a host eligible, it answers an eligible one that
\* no eligible host beats, the first of those of its score.
LEMMA SelectBest ==
  ASSUME NEW r \in Placements, NEW inv \in Inventory, eligible(r, inv) # {}
  PROVE  LET h == select(r, inv)
             score(g) == preference_score(r.preferences, g, inv[g].facts) IN
         /\ h \in eligible(r, inv)
         /\ \A g \in eligible(r, inv) :
              ~tuple_less(score(h), score(g)) /\ (score(h) = score(g) => h <= g)
<1> DEFINE E == eligible(r, inv)
           score(g) == preference_score(r.preferences, g, inv[g].facts)
           D == 1..Len(r.preferences.criteria)
           next(b, n) == IF n \in E /\ (b # 0 => tuple_less(score(b), score(n))) THEN n ELSE b
           best == CHOOSE f : f = [n \in 0..HostCount |-> IF n = 0 THEN 0 ELSE next(f[n - 1], n)]
<1>1. HostCount \in Nat /\ Hosts = 1..HostCount
  BY PlacementAssumption DEF Hosts
<1>2. E \subseteq 1..HostCount
  BY <1>1 DEF eligible, present
<1>3. \A g \in E : score(g) \in [D -> Int]
  <2> SUFFICES ASSUME NEW g \in E PROVE score(g) \in [D -> Int]
    OBVIOUS
  <2>1. g \in Hosts /\ inv[g] \in Snapshot
    BY PresentSnapshot DEF eligible
  <2>2. inv[g].facts \in Facts
    BY <2>1 DEF Snapshot
  <2> QED
    BY <2>1, <2>2, ScoreType
<1>4. select(r, inv) = best[HostCount]
  BY DEF select
<1>5. \E f : f = [n \in 0..HostCount |-> IF n = 0 THEN 0 ELSE next(f[n - 1], n)]
  <2> DEFINE V == 0..HostCount
             rule == [p \in V \X (1..HostCount) |-> next(p[1], p[2])]
  <2> HIDE DEF score
  <2>1. RuleOn(V, HostCount, rule)
    BY <1>1 DEF RuleOn
  <2>2. \A b \in V, n \in 1..HostCount : rule[<<b, n>>] = next(b, n)
    OBVIOUS
  <2>3. 0 \in V
    BY <1>1
  <2> HIDE DEF rule, next
  <2>4. PICK f : Recursion(V, 0, rule, HostCount, f)
    BY <1>1, <2>1, <2>3, RecursionExists
  <2>5. /\ f \in [0..HostCount -> V] /\ f[0] = 0
        /\ \A n \in 1..HostCount : f[n] = rule[<<f[n - 1], n>>]
    BY <2>4 DEF Recursion
  <2>6. \A n \in 1..HostCount : f[n] = next(f[n - 1], n)
    <3>1. \A n \in 1..HostCount : f[n - 1] \in V
      BY <1>1, <2>5
    <3> QED
      BY <2>2, <2>5, <3>1
  <2> DEFINE g == [n \in 0..HostCount |-> IF n = 0 THEN 0 ELSE next(f[n - 1], n)]
  <2>7. f = g
    <3>1. \A n \in 0..HostCount : n = 0 \/ n \in 1..HostCount
      BY <1>1
    <3>2. \A n \in 0..HostCount : f[n] = g[n]
      BY <2>5, <2>6, <3>1
    <3> QED
      BY <2>5, <3>2
  <2> QED
    BY <2>7
<1>6. best = [n \in 0..HostCount |-> IF n = 0 THEN 0 ELSE next(best[n - 1], n)]
  <2> HIDE DEF next
  <2> QED
    BY <1>5
<1> HIDE DEF best, score, E
<1> DEFINE Good(n) ==
      /\ best[n] = 0 => E \cap (1..n) = {}
      /\ best[n] # 0 =>
          /\ best[n] \in E /\ best[n] \in 1..n
          /\ \A g \in E \cap (1..n) :
               ~tuple_less(score(best[n]), score(g)) /\ (score(best[n]) = score(g) => best[n] <= g)
           T == {n \in 0..HostCount : ~Good(n)}
<1>7. T = {}
  <2>0. SUFFICES ASSUME T # {} PROVE FALSE
    OBVIOUS
  <2>1. PICK n \in T : \A m \in T : n <= m
    <3>1. T \in SUBSET Nat
      BY <1>1
    <3> HIDE DEF T
    <3> QED
      BY <2>0, <3>1, FirstOf
  <2>2. n \in 0..HostCount /\ ~Good(n)
    BY <2>1
  <2>3. n # 0
    <3> SUFFICES ASSUME n = 0 PROVE Good(0)
      BY <2>2
    <3>1. best[0] = 0 /\ 1..0 = {}
      BY <1>1, <1>6
    <3> QED
      BY <3>1
  <2>4. n \in 1..HostCount /\ n - 1 \in 0..HostCount /\ ~(n <= n - 1)
    BY <1>1, <2>2, <2>3
  <2>5. Good(n - 1)
    <3>1. n - 1 \notin T
      BY <2>1, <2>4
    <3> HIDE DEF Good
    <3> QED
      BY <2>4, <3>1
  <2>6. best[n] = next(best[n - 1], n)
    <3> HIDE DEF next
    <3> QED
      BY <1>6, <2>2, <2>3
  <2>7. 1..n = (1..n - 1) \cup {n}
    BY <2>4
  <2>8. CASE n \in E /\ (best[n - 1] # 0 => tuple_less(score(best[n - 1]), score(n)))
    <3>1. best[n] = n /\ n # 0 /\ n \in 1..n
      BY <2>4, <2>6, <2>8
    <3>2. score(n) \in [D -> Int]
      BY <1>3, <2>8
    <3>3. ASSUME NEW g \in E \cap (1..n)
          PROVE  ~tuple_less(score(n), score(g)) /\ (score(n) = score(g) => n <= g)
      <4>0. score(g) \in [D -> Int]
        BY <1>3
      <4>1. CASE g = n
        <5>1. Len(r.preferences.criteria) \in Nat
          BY PreferenceAssumption
        <5>2. ~tuple_less(score(n), score(n))
          BY <3>2, <5>1, TupleOrder
        <5> QED
          BY <2>4, <4>1, <5>2
      <4>2. CASE g # n
        <5>1. g \in E \cap (1..n - 1)
          BY <2>7, <4>2
        <5>2. best[n - 1] # 0
          BY <2>5, <5>1
        <5> DEFINE b == best[n - 1]
        <5>3. b \in E /\ ~tuple_less(score(b), score(g)) /\ tuple_less(score(b), score(n))
          BY <2>5, <2>8, <5>1, <5>2
        <5>4. score(b) \in [D -> Int]
          BY <1>3, <5>3
        <5>5. ~tuple_less(score(n), score(g))
          <6>1. Len(r.preferences.criteria) \in Nat
            BY PreferenceAssumption
          <6> HIDE DEF b
          <6> QED
            BY <3>2, <4>0, <5>3, <5>4, <6>1, TupleOrder
        <5>6. score(n) # score(g)
          BY <5>3
        <5> QED
          BY <5>5, <5>6
      <4> QED
        BY <4>1, <4>2
    <3>4. Good(n)
      BY <2>8, <3>1, <3>3
    <3> QED
      BY <2>2, <3>4
  <2>9. CASE ~(n \in E /\ (best[n - 1] # 0 => tuple_less(score(best[n - 1]), score(n))))
    <3>1. best[n] = best[n - 1]
      BY <2>6, <2>9
    <3>2. CASE n \notin E
      <4>1. E \cap (1..n) = E \cap (1..n - 1)
        BY <2>7, <3>2
      <4>2. \A x \in 1..n - 1 : x \in 1..n
        BY <2>7
      <4> QED
        BY <2>2, <2>5, <3>1, <4>1, <4>2
    <3>3. CASE n \in E
      <4>1. best[n - 1] # 0 /\ ~tuple_less(score(best[n - 1]), score(n))
        BY <2>9, <3>3
      <4>2. best[n - 1] \in E /\ best[n - 1] \in 1..n - 1
        BY <2>5, <4>1
      <4>3. best[n - 1] <= n /\ best[n - 1] \in 1..n
        BY <2>4, <4>2
      <4>4. \A g \in E \cap (1..n) : ~tuple_less(score(best[n - 1]), score(g))
                                     /\ (score(best[n - 1]) = score(g) => best[n - 1] <= g)
        BY <2>5, <2>7, <4>1, <4>3
      <4> QED
        BY <2>2, <3>1, <4>1, <4>2, <4>3, <4>4
    <3> QED
      BY <3>2, <3>3
  <2> QED
    BY <2>8, <2>9
<1>8. Good(HostCount)
  <2>1. HostCount \in 0..HostCount
    BY <1>1
  <2> HIDE DEF Good
  <2> QED
    BY <1>7, <2>1
<1>9. E \cap (1..HostCount) = E /\ E # {}
  BY <1>2 DEF E
<1>10. /\ best[HostCount] \in E
       /\ \A g \in E : ~tuple_less(score(best[HostCount]), score(g))
                       /\ (score(best[HostCount]) = score(g) => best[HostCount] <= g)
  BY <1>8, <1>9
<1> QED
  BY <1>4, <1>10 DEF E, score

---------------------------------------------------------------------------
(* Placement: the lease.                                                   *)

\* Every snapshot was taken at most the skew ahead of the time given.
ObservedBy(inv, at) == \A h \in present(inv) : inv[h].observed_at <= at + Skew

\* The lease is what issue_lease made of a request, an inventory and a time.
LeaseIssued ==
  \E r \in Placements, inv \in Inventory, at \in Int :
    /\ evaluates(r, inv)
    /\ ObservedBy(inv, at)
    /\ lease = issue_lease(r, inv, at)

\* The invariant: no observation is further ahead than the clocks' skew, and the
\* lease was issued by select over an inventory of such observations.
PlacementInv ==
  /\ clock \in Int
  /\ inventory \in Inventory
  /\ ObservedBy(inventory, clock)
  /\ lease = NoLease \/ LeaseIssued

\* What an issued lease says.
LEMMA IssuedLease ==
  ASSUME PlacementInv, lease # NoLease
  PROVE  /\ lease.request \in Placements /\ lease.considered \in Inventory /\ lease.placed_at \in Int
         /\ evaluates(lease.request, lease.considered)
         /\ lease.host = select(lease.request, lease.considered)
         /\ lease.host \in eligible(lease.request, lease.considered)
         /\ lease.snapshot = lease.considered[lease.host]
         /\ lease.valid_until = lease.snapshot.observed_at + Ttl
         /\ lease.snapshot.observed_at \in Int
         /\ lease.snapshot.observed_at <= lease.placed_at + Skew
<1>1. PICK r \in Placements, inv \in Inventory, at \in Int :
        evaluates(r, inv) /\ ObservedBy(inv, at) /\ lease = issue_lease(r, inv, at)
  BY DEF PlacementInv, LeaseIssued
<1>2. /\ lease.request = r /\ lease.considered = inv /\ lease.placed_at = at /\ lease.host = select(r, inv)
      /\ lease.snapshot = inv[select(r, inv)]
      /\ lease.valid_until = inv[select(r, inv)].observed_at + Ttl
  BY <1>1 DEF issue_lease
<1>3. select(r, inv) \in eligible(r, inv)
  BY <1>1, SelectBest DEF evaluates
<1>4. select(r, inv) \in present(inv) /\ select(r, inv) \in Hosts
  BY <1>3 DEF eligible, present
<1>5. inv[select(r, inv)].observed_at <= at + Skew
  BY <1>1, <1>4 DEF ObservedBy
<1>6. inv[select(r, inv)].observed_at \in Int
  BY <1>4, PresentSnapshot DEF Snapshot
<1> QED
  BY <1>1, <1>2, <1>3, <1>5, <1>6

\* The invariant holds at first and is kept by every step.
LEMMA PlacementInductive ==
  /\ PlacementInit => PlacementInv
  /\ PlacementInv /\ [PlacementNext]_placement_vars => PlacementInv'
<1>1. ASSUME PlacementInit PROVE PlacementInv
  BY <1>1 DEF PlacementInit, PlacementInv, Inventory, ObservedBy, present, Offline
<1>2. ASSUME PlacementInv, [PlacementNext]_placement_vars PROVE PlacementInv'
  <2>0. clock \in Int /\ inventory \in Inventory /\ ObservedBy(inventory, clock)
    BY <1>2 DEF PlacementInv
  <2>1. ASSUME NEW h \in Hosts, drain(h) PROVE PlacementInv'
    <3>1. inventory' \in Inventory
      BY <2>0, <2>1 DEF drain, Inventory
    <3>2. ObservedBy(inventory', clock)
      BY <2>0, <2>1 DEF drain, Inventory, ObservedBy, present, Offline
    <3> QED
      BY <1>2, <2>1, <3>1, <3>2 DEF drain, PlacementInv, LeaseIssued
  <2>2. ASSUME NEW h \in Hosts, NEW facts \in Facts, NEW ahead \in 0..Skew, observe(h, facts, ahead)
        PROVE  PlacementInv'
    <3> DEFINE new == [online |-> TRUE, facts |-> facts, observed_at |-> clock + ahead]
    <3>1. new \in Snapshot /\ new.observed_at <= clock + Skew /\ new.observed_at = clock + ahead
      BY <2>0, PlacementAssumption DEF Snapshot
    <3>2. inventory' = [inventory EXCEPT ![h] = new] /\ lease' = lease /\ clock' = clock
      BY <2>2 DEF observe
    <3> HIDE DEF new
    <3>3. inventory' \in Inventory
      BY <2>0, <3>1, <3>2 DEF Inventory
    <3>4. ObservedBy(inventory', clock)
      BY <2>0, <3>1, <3>2 DEF Inventory, ObservedBy, present
    <3> QED
      BY <1>2, <3>2, <3>3, <3>4 DEF PlacementInv, LeaseIssued
  <2>3. ASSUME NEW r \in Placements, place_with_lease(r) PROVE PlacementInv'
    <3>1. evaluates(r, inventory) /\ lease' = issue_lease(r, inventory, clock)
          /\ inventory' = inventory /\ clock' = clock
      BY <2>3 DEF place_with_lease
    <3>2. LeaseIssued'
      BY <2>0, <3>1 DEF LeaseIssued
    <3> QED
      BY <1>2, <3>1, <3>2 DEF PlacementInv
  <2>4. ASSUME pass_time PROVE PlacementInv'
    <3>1. clock' = clock + 1 /\ inventory' = inventory /\ lease' = lease
      BY <2>4 DEF pass_time
    <3>2. ObservedBy(inventory, clock + 1)
      <4> SUFFICES ASSUME NEW h \in present(inventory) PROVE inventory[h].observed_at <= clock + 1 + Skew
        BY DEF ObservedBy
      <4>1. inventory[h].observed_at \in Int
        BY <2>0, PresentSnapshot DEF Snapshot
      <4>2. inventory[h].observed_at <= clock + Skew
        BY <2>0 DEF ObservedBy
      <4> QED
        BY <2>0, <4>1, <4>2, PlacementAssumption
    <3> QED
      BY <1>2, <3>1, <3>2 DEF PlacementInv, LeaseIssued
  <2>5. CASE UNCHANGED placement_vars
    BY <1>2, <2>5 DEF PlacementInv, LeaseIssued, placement_vars
  <2> QED
    BY <1>2, <2>1, <2>2, <2>3, <2>4, <2>5 DEF PlacementNext
<1> QED
  BY <1>1, <1>2

\* What revalidate_lease answers, from the invariant.
LEMMA RevalidationSound ==
  PlacementInv => LeaseSound
<1> SUFFICES ASSUME PlacementInv, lease # NoLease,
                    NEW r \in Placements, NEW outcome \in {"NONE", "OUTCOME_UNKNOWN"}
             PROVE
        LET answer == revalidate_lease(r, lease, inventory, clock, outcome) IN
        /\ outcome = "OUTCOME_UNKNOWN" => answer \notin {"VALID", "REPLACEMENT_REQUIRED"}
        /\ answer = "VALID" =>
            /\ clock - lease.placed_at < Ttl + Skew
            /\ lease.host \in eligible(r, inventory)
            /\ (\A h \in Hosts \ {lease.host} : inventory[h] = lease.considered[h]) =>
                /\ select(lease.request, inventory) = lease.host
                /\ \A h \in eligible(lease.request, inventory) :
                    LET p == lease.request.preferences
                        mine  == preference_score(p, lease.host, inventory[lease.host].facts)
                        other == preference_score(p, h, inventory[h].facts) IN
                    ~tuple_less(mine, other) /\ (mine = other => lease.host <= h)
  BY DEF LeaseSound
<1> DEFINE answer == revalidate_lease(r, lease, inventory, clock, outcome)
<1>1. ASSUME outcome = "OUTCOME_UNKNOWN" PROVE answer \notin {"VALID", "REPLACEMENT_REQUIRED"}
  <2>1. answer = "raises" \/ answer = "RECONCILIATION_REQUIRED"
    <3>1. CASE validate_lease_identity(r, lease)
      BY <1>1, <3>1, Zenon DEF revalidate_lease
    <3>2. CASE ~validate_lease_identity(r, lease)
      BY <3>2, Zenon DEF revalidate_lease
    <3> QED
      BY <3>1, <3>2
  <2> HIDE DEF answer
  <2> QED
    BY <2>1
<1>2. ASSUME answer = "VALID"
      PROVE  /\ clock < lease.valid_until
             /\ lease.host \in present(inventory)
             /\ hard_constraints_pass(r.requirements, inventory[lease.host].facts)
             /\ inventory[lease.host] = lease.snapshot
  <2>1. ~(clock >= lease.valid_until)
    BY <1>2 DEF revalidate_lease
  <2>2. lease.host \in present(inventory)
    BY <1>2 DEF revalidate_lease
  <2>3. hard_constraints_pass(r.requirements, inventory[lease.host].facts)
    BY <1>2 DEF revalidate_lease
  <2>4. inventory[lease.host] = lease.snapshot
    BY <1>2 DEF revalidate_lease, snapshot_current
  <2>5. clock \in Int /\ lease.valid_until \in Int
    BY IssuedLease, PlacementAssumption DEF PlacementInv
  <2> QED
    BY <2>1, <2>2, <2>3, <2>4, <2>5
<1>3. ASSUME answer = "VALID" PROVE clock - lease.placed_at < Ttl + Skew
  <2> DEFINE seen == lease.snapshot.observed_at
  <2>1. /\ clock \in Int /\ lease.placed_at \in Int /\ seen \in Int
        /\ lease.valid_until = seen + Ttl
        /\ seen <= lease.placed_at + Skew
    BY IssuedLease DEF PlacementInv
  <2>2. clock < lease.valid_until
    BY <1>2, <1>3
  <2> HIDE DEF seen
  <2> QED
    BY <2>1, <2>2, PlacementAssumption
<1>4. ASSUME answer = "VALID" PROVE lease.host \in eligible(r, inventory)
  BY <1>2, <1>4 DEF eligible
<1>5. ASSUME answer = "VALID", \A h \in Hosts \ {lease.host} : inventory[h] = lease.considered[h]
      PROVE  inventory = lease.considered
  <2>1. inventory[lease.host] = lease.considered[lease.host]
    BY <1>2, <1>5, IssuedLease
  <2>2. \A h \in Hosts : inventory[h] = lease.considered[h]
    BY <1>5, <2>1
  <2>3. inventory \in Inventory /\ lease.considered \in Inventory
    BY IssuedLease DEF PlacementInv
  <2> QED
    BY <2>2, <2>3 DEF Inventory
<1>6. ASSUME answer = "VALID", \A h \in Hosts \ {lease.host} : inventory[h] = lease.considered[h]
      PROVE  /\ select(lease.request, inventory) = lease.host
             /\ \A h \in eligible(lease.request, inventory) :
                    LET p == lease.request.preferences
                        mine  == preference_score(p, lease.host, inventory[lease.host].facts)
                        other == preference_score(p, h, inventory[h].facts) IN
                    ~tuple_less(mine, other) /\ (mine = other => lease.host <= h)
  <2>1. inventory = lease.considered
    BY <1>5, <1>6
  <2>2. /\ lease.request \in Placements /\ inventory \in Inventory
        /\ lease.host = select(lease.request, inventory)
        /\ eligible(lease.request, inventory) # {}
    BY <2>1, IssuedLease
  <2> QED
    BY <2>2, SelectBest
<1> QED
  BY <1>1, <1>3, <1>4, <1>6

\* A lease revalidated as VALID is no older than the time to live and the skew
\* allow, its host still meets the request, and with no other host changed it is
\* the host placing anew would choose: no eligible host beats it
\* (PlacementEngine._evaluate, revalidate_lease).
THEOREM LeaseIsSound ==
  PlacementSpec => []LeaseSound
<1>1. PlacementInit => PlacementInv
  BY PlacementInductive
<1>2. PlacementInv /\ [PlacementNext]_placement_vars => PlacementInv'
  BY PlacementInductive
<1>3. PlacementInv => LeaseSound
  BY RevalidationSound
<1> QED
  BY <1>1, <1>2, <1>3, PTL DEF PlacementSpec

---------------------------------------------------------------------------
(* ContextStore: the rows of a page.                                       *)

\* Rows with numbers as identifiers, one row for each.
Numbered(rows) ==
  /\ IsFiniteSet(rows)
  /\ \A row \in rows : row.id \in Ids
  /\ \A x, y \in rows : x.id = y.id => x = y

\* A part of a finite set of rows with numbers of their own is one too.
LEMMA NumberedSubset ==
  ASSUME NEW rows, Numbered(rows), NEW R \in SUBSET rows
  PROVE  Numbered(R)
BY FS_Subset DEF Numbered

\* first keeps the rows with few rows before them: with a row, all before it;
\* all rows if there are no more than n, or if it keeps fewer than n.
LEMMA FirstRows ==
  ASSUME NEW rows, Numbered(rows), NEW n \in Nat
  PROVE  /\ \A x \in rows, y \in first(n, rows) : x.id <= y.id => x \in first(n, rows)
         /\ Cardinality(rows) <= n => first(n, rows) = rows
         /\ Cardinality(first(n, rows)) < n => first(n, rows) = rows
<1> DEFINE before(row) == {x \in rows : x.id < row.id}
<1>0. IdCount \in Nat /\ Ids \subseteq Nat
  BY StoreAssumption DEF Ids
<1>1. \A row \in rows : IsFiniteSet(before(row)) /\ Cardinality(before(row)) \in Nat
  <2>1. \A row \in rows : before(row) \in SUBSET rows
    OBVIOUS
  <2> HIDE DEF before
  <2> QED
    BY <2>1, FS_Subset, FS_CardinalityType DEF Numbered
<1>2. first(n, rows) = {row \in rows : Cardinality(before(row)) < n}
  BY DEF first
<1>3. ASSUME NEW x \in rows, NEW y \in first(n, rows), x.id <= y.id PROVE x \in first(n, rows)
  <2>1. y \in rows /\ Cardinality(before(y)) < n
    BY <1>2
  <2>2. x.id \in Nat /\ y.id \in Nat /\ \A z \in rows : z.id \in Nat
    BY <1>0, <2>1 DEF Numbered
  <2>3. before(x) \in SUBSET before(y)
    BY <1>3, <2>2
  <2>4. Cardinality(before(x)) <= Cardinality(before(y))
    <3> HIDE DEF before
    <3> QED
      BY <1>1, <2>1, <2>3, FS_Subset
  <2> HIDE DEF before
  <2> QED
    BY <1>1, <1>2, <2>1, <2>4
<1>4. ASSUME Cardinality(rows) <= n PROVE first(n, rows) = rows
  <2>1. ASSUME NEW row \in rows PROVE Cardinality(before(row)) < n
    <3>1. row.id \in Nat
      BY <1>0 DEF Numbered
    <3>2. before(row) \in SUBSET (rows \ {row})
      BY <3>1
    <3>3. IsFiniteSet(rows \ {row}) /\ Cardinality(rows \ {row}) = Cardinality(rows) - 1
      BY FS_RemoveElement DEF Numbered
    <3>4. Cardinality(before(row)) <= Cardinality(rows \ {row})
      <4> HIDE DEF before
      <4> QED
        BY <3>2, <3>3, FS_Subset
    <3>5. Cardinality(rows) \in Nat /\ Cardinality(before(row)) \in Nat
      <4> HIDE DEF before
      <4> QED
        BY <1>1, FS_CardinalityType DEF Numbered
    <3> HIDE DEF before
    <3> QED
      BY <1>4, <3>3, <3>4, <3>5
  <2> HIDE DEF before
  <2> QED
    BY <1>2, <2>1
<1>5. ASSUME Cardinality(first(n, rows)) < n, first(n, rows) # rows PROVE FALSE
  <2> DEFINE T == {row.id : row \in rows \ first(n, rows)}
  <2>1. T \in SUBSET Nat /\ T # {}
    <3>1. first(n, rows) \subseteq rows
      BY <1>2
    <3>2. \A row \in rows : row.id \in Nat
      BY <1>0 DEF Numbered
    <3> QED
      BY <1>5, <3>1, <3>2
  <2>2. PICK id \in T : \A m \in T : id <= m
    <3> HIDE DEF T
    <3> QED
      BY <2>1, FirstOf
  <2>3. PICK row \in rows \ first(n, rows) : row.id = id
    BY <2>2
  <2>4. before(row) \in SUBSET first(n, rows)
    <3> SUFFICES ASSUME NEW x \in rows, x.id < row.id, x \notin first(n, rows) PROVE FALSE
      OBVIOUS
    <3>1. row.id <= x.id
      BY <2>2, <2>3
    <3>2. x.id \in Nat /\ row.id \in Nat
      BY <1>0 DEF Numbered
    <3> QED
      BY <3>1, <3>2
  <2>5. IsFiniteSet(first(n, rows)) /\ Cardinality(first(n, rows)) \in Nat
    <3>1. first(n, rows) \in SUBSET rows
      BY <1>2
    <3> QED
      BY <3>1, FS_Subset, FS_CardinalityType DEF Numbered
  <2>6. Cardinality(before(row)) <= Cardinality(first(n, rows))
    <3> HIDE DEF before
    <3> QED
      BY <2>4, <2>5, FS_Subset
  <2>7. Cardinality(before(row)) < n
    <3> HIDE DEF before
    <3> QED
      BY <1>1, <1>5, <2>3, <2>5, <2>6
  <2> HIDE DEF before
  <2> QED
    BY <1>2, <2>3, <2>7
<1> QED
  BY <1>3, <1>4, <1>5

\* Some row is the last.
LEMMA LastId ==
  ASSUME NEW rows, Numbered(rows), rows # {}
  PROVE  /\ \E row \in rows : row.id = last_id(rows)
         /\ \A row \in rows : row.id <= last_id(rows)
         /\ last_id(rows) \in Ids
<1> DEFINE T == {IdCount - row.id : row \in rows}
<1>0. IdCount \in Nat /\ Ids = 1..IdCount
  BY StoreAssumption DEF Ids
<1>1. T \in SUBSET Nat /\ T # {}
  BY <1>0 DEF Numbered
<1>2. PICK t \in T : \A m \in T : t <= m
  <2> HIDE DEF T
  <2> QED
    BY <1>1, FirstOf
<1>3. PICK row \in rows : t = IdCount - row.id
  BY <1>2
<1>4. \A x \in rows : x.id <= row.id
  <2> SUFFICES ASSUME NEW x \in rows PROVE x.id <= row.id
    OBVIOUS
  <2>1. IdCount - row.id <= IdCount - x.id
    BY <1>2, <1>3
  <2>2. x.id \in Nat /\ row.id \in Nat
    BY <1>0 DEF Numbered
  <2> QED
    BY <1>0, <2>1, <2>2
<1>5. \E id \in {x.id : x \in rows} : \A x \in rows : x.id <= id
  BY <1>4
<1>6. last_id(rows) \in {x.id : x \in rows} /\ \A x \in rows : x.id <= last_id(rows)
  BY <1>5 DEF last_id
<1> QED
  BY <1>6 DEF Numbered

\* The page after a cursor: what it shows are rows found, past the cursor; when
\* there is no more, all of them, and otherwise all up to the next cursor.
LEMMA PageRows ==
  ASSUME NEW scope, NEW query, NEW cursor \in Nat, Numbered(items)
  PROVE  LET found == {row \in items : /\ row.scope = scope
                                       /\ ~expired(row.created)
                                       /\ query \in row.request.payload
                                       /\ row.id > cursor}
             rows == search_rows(scope, query, cursor) IN
         /\ next_cursor(rows) \in Nat
         /\ hits(rows) \subseteq found
         /\ \A row \in hits(rows) : row.id > cursor /\ (next_cursor(rows) # 0 => row.id <= next_cursor(rows))
         /\ \A row \in found : next_cursor(rows) = 0 \/ row.id <= next_cursor(rows) => row \in hits(rows)
         /\ next_cursor(rows) = 0 \/ next_cursor(rows) > cursor
<1> DEFINE found == {row \in items : /\ row.scope = scope
                                     /\ ~expired(row.created)
                                     /\ query \in row.request.payload
                                     /\ row.id > cursor}
           rows == first(PageLimit + 1, found)
           page == first(PageLimit, rows)
<1>0. PageLimit \in Nat /\ PageLimit # 0 /\ PageLimit + 1 \in Nat /\ Ids \subseteq Nat /\ 0 \notin Ids
  BY StoreAssumption DEF Ids
<1>1. search_rows(scope, query, cursor) = rows /\ hits(rows) = page
  BY DEF search_rows, hits
<1>2. found \in SUBSET items /\ \A row \in found : row.id > cursor
  OBVIOUS
<1> HIDE DEF found
<1>3. rows \in SUBSET found /\ page \in SUBSET rows
  BY DEF first
<1>4. Numbered(found) /\ Numbered(rows) /\ Numbered(page)
  BY <1>2, <1>3, NumberedSubset
<1> HIDE DEF rows, page
<1>5. CASE Cardinality(rows) > PageLimit
  <2>1. next_cursor(rows) = last_id(page)
    BY <1>1, <1>5 DEF next_cursor
  <2>2. page # {}
    <3> SUFFICES ASSUME page = {} PROVE FALSE
      OBVIOUS
    <3>1. Cardinality(page) < PageLimit
      BY <1>0, FS_EmptySet
    <3>2. page = rows
      BY <1>0, <1>4, <3>1, FirstRows DEF page
    <3> QED
      BY <1>0, <1>5, <3>1, <3>2, FS_EmptySet
  <2>3. /\ \E row \in page : row.id = last_id(page)
        /\ \A row \in page : row.id <= last_id(page)
        /\ last_id(page) \in Ids
    BY <1>4, <2>2, LastId
  <2>4. ASSUME NEW row \in found, row.id <= last_id(page) PROVE row \in page
    <3>1. PICK y \in page : y.id = last_id(page)
      BY <2>3
    <3>2. row \in rows
      BY <1>0, <1>3, <1>4, <2>4, <3>1, FirstRows DEF rows
    <3> QED
      BY <1>0, <1>4, <2>4, <3>1, <3>2, FirstRows DEF page
  <2>5. last_id(page) > cursor /\ last_id(page) \in Nat /\ last_id(page) # 0
    BY <1>0, <1>2, <1>3, <2>3
  <2> QED
    BY <1>1, <1>2, <1>3, <2>1, <2>3, <2>4, <2>5 DEF found
<1>6. CASE ~(Cardinality(rows) > PageLimit)
  <2>1. next_cursor(rows) = 0
    BY <1>6 DEF next_cursor
  <2>2. Cardinality(rows) \in Nat
    BY <1>4, FS_CardinalityType DEF Numbered
  <2>3. rows = found
    <3>1. Cardinality(rows) < PageLimit + 1
      BY <1>0, <1>6, <2>2
    <3> QED
      BY <1>0, <1>4, <3>1, FirstRows DEF rows
  <2>4. page = rows
    <3>1. Cardinality(rows) <= PageLimit
      BY <1>0, <1>6, <2>2
    <3> QED
      BY <1>0, <1>4, <3>1, FirstRows DEF page
  <2> QED
    BY <1>1, <1>2, <2>1, <2>3, <2>4 DEF found
<1> QED
  BY <1>5, <1>6

---------------------------------------------------------------------------
(* ContextStore: items, receipts, checkpoints and a search.                *)

\* What is ingested, and the row the store keeps of it.
Request == [scope : Scopes, key : Keys, payload : Payloads]

Row == [id : Ids, scope : Scopes, request : Request, created : Int, intact : BOOLEAN]

\* One row for each identifier and for each key of a scope.
ItemsInv ==
  /\ items \subseteq Row
  /\ Numbered(items)
  /\ \A row \in items : row.scope = row.request.scope
  /\ \A x, y \in items : x.scope = y.scope /\ x.request.key = y.request.key => x = y
  /\ \A scope \in Scopes : Cardinality({row \in items : row.scope = scope}) <= MaxItems

\* A row of items with what never changes of a row.
Kept(id, scope, asking, created) ==
  \E row \in items : row.id = id /\ row.scope = scope /\ row.request = asking /\ row.created = created

\* A receipt names the row of its request, so the row is never another one's.
ReceiptsInv ==
  /\ receipts \subseteq [request : Request, id : Ids]
  /\ \A r \in receipts : \E row \in items : row.id = r.id /\ row.request = r.request

\* What a checkpoint refers to is in its scope.
RefersWithin(c) == \A id \in c.refs : \E row \in items : row.scope = c.scope /\ row.id = id

\* The references of a checkpoint, taken or about to be, are rows of its scope.
CheckpointsInv ==
  /\ checkpoints \in Seq([scope : Scopes, refs : SUBSET Ids, created : Int])
  /\ checking \subseteq [scope : Scopes, refs : SUBSET Ids, created : Int]
  /\ \A c \in checking : RefersWithin(c)
  /\ \A k \in 1..Len(checkpoints) : RefersWithin(checkpoints[k])

\* A search has shown all that is due up to its cursor, on pages apart.
PagingInv ==
  paging # NoPaging =>
    /\ paging.at \in {"more", "done"}
    /\ paging.cursor \in Nat
    /\ paging.found \in Seq(SUBSET Ids)
    /\ \A j, k \in 1..Len(paging.found) : j # k => paging.found[j] \cap paging.found[k] = {}
    /\ \A row \in paging.began : /\ row.scope = paging.scope
                                 /\ paging.query \in row.request.payload
                                 /\ row.id \in Ids /\ row.created \in Int
                                 /\ Kept(row.id, row.scope, row.request, row.created)
    /\ \A row \in paging.began :
        ~expired(row.created) /\ (paging.at = "done" \/ row.id <= paging.cursor) =>
            \E k \in 1..Len(paging.found) : row.id \in paging.found[k]
    /\ \A k \in 1..Len(paging.found) : \A id \in paging.found[k] :
        /\ \E row \in items : row.id = id /\ row.scope = paging.scope /\ paging.query \in row.request.payload
        /\ paging.at = "more" => id <= paging.cursor

\* The invariant of the store.
StoreInv ==
  /\ ItemsInv
  /\ ReceiptsInv
  /\ CheckpointsInv
  /\ PagingInv
  /\ time \in Int

\* Every row of items stays, up to its integrity.
ItemsStay ==
  \A row \in items : \E new \in items' :
    new.id = row.id /\ new.scope = row.scope /\ new.request = row.request /\ new.created = row.created

\* What is said about rows of items stays true while items stay.
LEMMA StayingItems ==
  ASSUME ItemsStay,
         receipts' = receipts, ReceiptsInv
  PROVE  ReceiptsInv'
BY DEF ItemsStay, ReceiptsInv

\* Checkpoints that stay as they are still refer within their scope.
LEMMA StayingCheckpoints ==
  ASSUME ItemsStay, CheckpointsInv, UNCHANGED <<checkpoints, checking>>
  PROVE  CheckpointsInv'
BY DEF ItemsStay, CheckpointsInv, RefersWithin

\* A search that is not advanced stays complete while time passes.
LEMMA StayingPaging ==
  ASSUME ItemsStay, PagingInv, paging' = paging, time \in Int, time' \in Int, time <= time'
  PROVE  PagingInv'
<1> SUFFICES ASSUME paging # NoPaging
             PROVE  PagingInv'
  BY DEF PagingInv
<1>1. ASSUME NEW row \in paging.began
      PROVE  /\ row.created \in Int
             /\ Kept(row.id, row.scope, row.request, row.created)'
             /\ ~expired(row.created)' => ~expired(row.created)
  <2>1. row.created \in Int /\ Kept(row.id, row.scope, row.request, row.created)
    BY DEF PagingInv
  <2>2. Kept(row.id, row.scope, row.request, row.created)'
    BY <2>1 DEF ItemsStay, Kept
  <2>3. ~expired(row.created)' => ~expired(row.created)
    BY <2>1, StoreAssumption DEF expired
  <2> QED
    BY <2>1, <2>2, <2>3
<1>2. ASSUME NEW id, \E row \in items : row.id = id /\ row.scope = paging.scope /\ paging.query \in row.request.payload
      PROVE  \E row \in items' : row.id = id /\ row.scope = paging.scope /\ paging.query \in row.request.payload
  BY <1>2 DEF ItemsStay
<1>3. \A row \in paging.began : /\ row.scope = paging.scope
                                /\ paging.query \in row.request.payload
                                /\ row.id \in Ids /\ row.created \in Int
  BY DEF PagingInv
<1>4. \A row \in paging.began :
        ~expired(row.created)' /\ (paging.at = "done" \/ row.id <= paging.cursor) =>
            \E k \in 1..Len(paging.found) : row.id \in paging.found[k]
  BY <1>1 DEF PagingInv
<1>5. \A k \in 1..Len(paging.found) : \A id \in paging.found[k] :
        /\ \E row \in items' : row.id = id /\ row.scope = paging.scope /\ paging.query \in row.request.payload
        /\ paging.at = "more" => id <= paging.cursor
  <2>1. \A k \in 1..Len(paging.found) : \A id \in paging.found[k] :
          /\ \E row \in items : row.id = id /\ row.scope = paging.scope /\ paging.query \in row.request.payload
          /\ paging.at = "more" => id <= paging.cursor
    BY DEF PagingInv
  <2> QED
    BY <1>2, <2>1, Zenon
<1>6. /\ paging.at \in {"more", "done"}
      /\ paging.cursor \in Nat
      /\ paging.found \in Seq(SUBSET Ids)
      /\ \A j, k \in 1..Len(paging.found) : j # k => paging.found[j] \cap paging.found[k] = {}
  BY DEF PagingInv
<1> QED
  BY <1>1, <1>3, <1>4, <1>5, <1>6 DEF PagingInv

\* What the pages of a search have shown up to a cursor.
ShownUpTo(scope, query, cursor, found, began) ==
  /\ cursor \in Nat
  /\ found \in Seq(SUBSET Ids)
  /\ \A j, k \in 1..Len(found) : j # k => found[j] \cap found[k] = {}
  /\ \A row \in began : /\ row.scope = scope /\ query \in row.request.payload
                        /\ row.id \in Ids /\ row.created \in Int
                        /\ Kept(row.id, row.scope, row.request, row.created)
  /\ \A row \in began : ~expired(row.created) /\ row.id <= cursor =>
        \E k \in 1..Len(found) : row.id \in found[k]
  /\ \A k \in 1..Len(found) : \A id \in found[k] :
        /\ \E row \in items : row.id = id /\ row.scope = scope /\ query \in row.request.payload
        /\ id <= cursor

\* A page more keeps what a search has shown complete and apart.
LEMMA PageKeeps ==
  ASSUME StoreInv, NEW scope, NEW query, NEW cursor, NEW found, NEW began,
         search_page(scope, query, cursor, found, began),
         ShownUpTo(scope, query, cursor, found, began)
  PROVE  PagingInv'
<1> DEFINE rows == search_rows(scope, query, cursor)
           page == {row.id : row \in hits(rows)}
           n == Len(found)
           now_found == Append(found, page)
           next == next_cursor(rows)
<1>1. /\ cursor \in Nat
      /\ found \in Seq(SUBSET Ids)
      /\ \A j, k \in 1..Len(found) : j # k => found[j] \cap found[k] = {}
  BY DEF ShownUpTo
<1>2. \A row \in began : /\ row.scope = scope /\ query \in row.request.payload
                         /\ row.id \in Ids /\ row.created \in Int
                         /\ Kept(row.id, row.scope, row.request, row.created)
  BY DEF ShownUpTo
<1>3. \A row \in began : ~expired(row.created) /\ row.id <= cursor =>
        \E k \in 1..Len(found) : row.id \in found[k]
  BY DEF ShownUpTo
<1>4. \A k \in 1..Len(found) : \A id \in found[k] :
        /\ \E row \in items : row.id = id /\ row.scope = scope /\ query \in row.request.payload
        /\ id <= cursor
  BY DEF ShownUpTo
<1>5. Numbered(items) /\ Ids \subseteq Nat /\ 0 \notin Ids
  BY StoreAssumption DEF StoreInv, ItemsInv, Ids
<1>6. /\ items' = items /\ time' = time
      /\ paging' = [at |-> IF next = 0 THEN "done" ELSE "more",
                    scope |-> scope, query |-> query, cursor |-> next, began |-> began, found |-> now_found]
  BY DEF search_page
<1>7. /\ paging'.at = (IF next = 0 THEN "done" ELSE "more") /\ paging'.cursor = next
      /\ paging'.scope = scope /\ paging'.query = query /\ paging'.began = began /\ paging'.found = now_found
  BY <1>6
<1>8. /\ next \in Nat /\ (next = 0 \/ next > cursor)
      /\ \A row \in hits(rows) : /\ row \in items /\ row.scope = scope /\ query \in row.request.payload
                                 /\ row.id > cursor
                                 /\ next # 0 => row.id <= next
      /\ \A row \in items : /\ row.scope = scope /\ ~expired(row.created) /\ query \in row.request.payload
                            /\ row.id > cursor
                            /\ next = 0 \/ row.id <= next
                            => row \in hits(rows)
  <2> HIDE DEF next
  <2> QED
    BY <1>5, <1>1, PageRows DEF next
<1> HIDE DEF rows, next
<1>9. page \in SUBSET Ids /\ \A id \in page : id > cursor /\ id \in Nat
  <2> SUFFICES ASSUME NEW row \in hits(rows) PROVE row.id \in Ids /\ row.id > cursor /\ row.id \in Nat
    OBVIOUS
  <2>1. row \in items /\ row.id > cursor
    BY <1>8
  <2>2. row.id \in Ids
    BY <1>5, <2>1 DEF Numbered
  <2> QED
    BY <1>5, <1>1, <2>1, <2>2
<1> HIDE DEF page
<1>10. \A k \in 1..n : \A id \in found[k] : id \in Nat
  <2>1. \A k \in 1..n : found[k] \in SUBSET Ids
    BY <1>1, ElementOfSeq
  <2> QED
    BY <1>5, <2>1
<1>11. /\ now_found \in Seq(SUBSET Ids) /\ Len(now_found) = n + 1 /\ n \in Nat
       /\ \A k \in 1..n : now_found[k] = found[k]
       /\ now_found[n + 1] = page
  BY <1>9, <1>1, AppendProperties, LenProperties
<1>12. \A k \in 1..n : found[k] \cap page = {}
  BY <1>9, <1>10, <1>1, <1>4
<1>13. 1..n + 1 = (1..n) \cup {n + 1} /\ n + 1 \in 1..n + 1 /\ n + 1 \notin 1..n
  BY <1>11
<1> HIDE DEF now_found
<1>14. \A j, k \in 1..n + 1 : j # k => now_found[j] \cap now_found[k] = {}
  <2> SUFFICES ASSUME NEW j \in 1..n + 1, NEW k \in 1..n + 1, j # k PROVE now_found[j] \cap now_found[k] = {}
    OBVIOUS
  <2>1. CASE j \in 1..n /\ k \in 1..n
    BY <1>11, <1>1, <2>1
  <2>2. CASE j = n + 1
    <3>1. k \in 1..n
      BY <1>13, <2>2
    <3> QED
      BY <1>11, <1>12, <2>2, <3>1
  <2>3. CASE k = n + 1
    <3>1. j \in 1..n
      BY <1>13, <2>3
    <3> QED
      BY <1>11, <1>12, <2>3, <3>1
  <2> QED
    BY <1>13, <2>1, <2>2, <2>3
<1>15. ASSUME NEW row \in began, ~expired(row.created), next = 0 \/ row.id <= next
       PROVE  \E k \in 1..n + 1 : row.id \in now_found[k]
  <2>1. CASE row.id <= cursor
    <3>1. PICK k \in 1..n : row.id \in found[k]
      BY <1>15, <1>3, <2>1
    <3> QED
      BY <1>11, <1>13, <3>1
  <2>2. CASE ~(row.id <= cursor)
    <3>0. row.id \in Ids /\ cursor \in Nat
      BY <1>1, <1>2
    <3>1. row.id > cursor
      <4>1. row.id \in Nat
        BY <1>5, <3>0
      <4>2. \A a, b \in Nat : ~(a <= b) => a > b
        OBVIOUS
      <4> QED
        BY <2>2, <3>0, <4>1, <4>2
    <3>2. PICK new \in items : new.id = row.id /\ new.scope = row.scope /\ new.request = row.request
                               /\ new.created = row.created
      BY <1>2 DEF Kept
    <3>3. new \in hits(rows)
      BY <1>8, <1>15, <1>2, <3>1, <3>2
    <3>4. row.id \in page
      BY <3>2, <3>3 DEF page
    <3>5. now_found[n + 1] = page /\ n + 1 \in 1..n + 1
      BY <1>11, <1>13
    <3> QED
      BY <3>4, <3>5
  <2> QED
    BY <2>1, <2>2
<1>16. ASSUME NEW k \in 1..n + 1, NEW id \in now_found[k]
       PROVE  /\ \E row \in items : row.id = id /\ row.scope = scope /\ query \in row.request.payload
              /\ next # 0 => id <= next
  <2>1. CASE k \in 1..n
    <3>1. id \in found[k] /\ id \in Nat
      BY <1>10, <1>11, <2>1
    <3>2. id <= cursor /\ \E row \in items : row.id = id /\ row.scope = scope /\ query \in row.request.payload
      BY <1>4, <2>1, <3>1
    <3>3. next # 0 => id <= next
      BY <1>8, <1>1, <3>1, <3>2
    <3> QED
      BY <3>2, <3>3
  <2>2. CASE k = n + 1
    <3>1. id \in page
      <4>1. now_found[n + 1] = page
        BY <1>11
      <4> QED
        BY <2>2, <4>1
    <3>2. PICK row \in hits(rows) : row.id = id
      BY <3>1 DEF page
    <3> QED
      BY <1>8, <3>2
  <2> QED
    BY <1>13, <2>1, <2>2
<1>17. \A row \in began : Kept(row.id, row.scope, row.request, row.created)'
  BY <1>6, <1>2 DEF Kept
<1>18. \A row \in began : expired(row.created)' = expired(row.created)
  BY <1>6 DEF expired
<1>19. paging'.at = "done" => next = 0
  BY <1>7
<1>20. \A row \in began :
         ~expired(row.created)' /\ (paging'.at = "done" \/ row.id <= next) =>
            \E k \in 1..n + 1 : row.id \in now_found[k]
  BY <1>15, <1>18, <1>19
<1>21. paging'.at = "more" => next # 0
  BY <1>7
<1>22. \A k \in 1..n + 1 : \A id \in now_found[k] :
         /\ \E row \in items' : row.id = id /\ row.scope = scope /\ query \in row.request.payload
         /\ paging'.at = "more" => id <= next
  BY <1>6, <1>16, <1>21
<1>23. paging'.at \in {"more", "done"}
  BY <1>7
<1> HIDE DEF n
<1> QED
  BY <1>7, <1>8, <1>11, <1>14, <1>2, <1>17, <1>20, <1>22, <1>23 DEF PagingInv

\* An empty store has the invariant.
LEMMA StoreInitially ==
  StoreInit => StoreInv
<1> SUFFICES ASSUME StoreInit PROVE StoreInv
  OBVIOUS
<1>1. ItemsInv
  <2>1. IsFiniteSet({}) /\ Cardinality({}) = 0
    BY FS_EmptySet
  <2>2. \A scope \in Scopes : {row \in items : row.scope = scope} = {}
    BY DEF StoreInit
  <2> QED
    BY <2>1, <2>2, StoreAssumption DEF StoreInit, ItemsInv, Numbered
<1>2. ReceiptsInv
  BY DEF StoreInit, ReceiptsInv
<1>3. CheckpointsInv
  BY DEF StoreInit, CheckpointsInv
<1>4. PagingInv /\ time \in Int
  BY DEF StoreInit, PagingInv
<1> QED
  BY <1>1, <1>2, <1>3, <1>4 DEF StoreInv

\* ingest: a replay answers with the row kept, a new key adds a row.
LEMMA IngestKeeps ==
  ASSUME StoreInv, NEW scope \in Scopes, NEW key \in Keys, NEW payload \in Payloads,
         ingest(scope, key, payload)
  PROVE  StoreInv'
<1> DEFINE asking == [scope |-> scope, key |-> key, payload |-> payload]
           existing == {row \in items : row.scope = scope /\ row.request.key = key}
<1>0. /\ ItemsInv /\ ReceiptsInv /\ CheckpointsInv /\ PagingInv /\ time \in Int
      /\ UNCHANGED <<checkpoints, checking, paging, time>>
      /\ asking \in Request
  BY DEF StoreInv, ingest, Request
<1>1. CASE \E row \in existing : /\ row.request = asking
                                 /\ receipts' = receipts \cup {[request |-> asking, id |-> row.id]}
                                 /\ items' = items
  <2>1. PICK row \in items : /\ row.request = asking
                             /\ receipts' = receipts \cup {[request |-> asking, id |-> row.id]}
                             /\ items' = items
    BY <1>1
  <2>2. ItemsStay /\ ItemsInv'
    BY <1>0, <2>1 DEF ItemsStay, ItemsInv, Numbered
  <2>3. row.id \in Ids
    BY <1>0 DEF ItemsInv, Numbered
  <2> HIDE DEF asking
  <2>4. ReceiptsInv'
    BY <1>0, <2>1, <2>3 DEF ReceiptsInv
  <2> QED
    BY <1>0, <2>2, <2>4, StayingCheckpoints, StayingPaging DEF StoreInv
<1>2. CASE /\ existing = {}
           /\ Cardinality({row \in items : row.scope = scope}) < MaxItems
           /\ \E id \in Ids \ {row.id : row \in items} :
                /\ items' = items \cup {[id |-> id, scope |-> scope, request |-> asking,
                                         created |-> time, intact |-> TRUE]}
                /\ receipts' = receipts \cup {[request |-> asking, id |-> id]}
  <2>1. PICK id \in Ids \ {row.id : row \in items} :
          /\ items' = items \cup {[id |-> id, scope |-> scope, request |-> asking,
                                   created |-> time, intact |-> TRUE]}
          /\ receipts' = receipts \cup {[request |-> asking, id |-> id]}
    BY <1>2
  <2> DEFINE new == [id |-> id, scope |-> scope, request |-> asking, created |-> time, intact |-> TRUE]
  <2>2. /\ new.id = id /\ new.scope = scope /\ new.request = asking /\ new.created = time
        /\ new \in Row /\ asking.key = key /\ asking.scope = scope
    BY <1>0 DEF Row
  <2>3. items' = items \cup {new} /\ receipts' = receipts \cup {[request |-> asking, id |-> id]}
    BY <2>1
  <2>4. \A x \in items : x.id # id /\ ~(x.scope = scope /\ x.request.key = key)
    BY <1>2, <2>1
  <2> HIDE DEF new, asking, existing
  <2>5. ItemsStay
    BY <2>3 DEF ItemsStay
  <2>6. Numbered(items')
    <3>1. IsFiniteSet(items') /\ \A x, y \in items' : x.id = y.id => x = y
      BY <1>0, <2>2, <2>3, <2>4, FS_AddElement DEF ItemsInv, Numbered
    <3>2. \A x \in items' : x.id \in Ids
      BY <1>0, <2>1, <2>2, <2>3 DEF ItemsInv, Numbered
    <3> QED
      BY <3>1, <3>2 DEF Numbered
  <2>7. ASSUME NEW s \in Scopes PROVE Cardinality({row \in items' : row.scope = s}) <= MaxItems
    <3> DEFINE old == {row \in items : row.scope = s}
               now_in == {row \in items' : row.scope = s}
    <3>1. IsFiniteSet(old) /\ Cardinality(old) \in Nat /\ Cardinality(old) <= MaxItems
      <4>1. old \in SUBSET items /\ Cardinality(old) <= MaxItems
        BY <1>0 DEF ItemsInv
      <4> HIDE DEF old
      <4> QED
        BY <1>0, <4>1, FS_Subset, FS_CardinalityType DEF ItemsInv, Numbered
    <3>2. CASE s = scope
      <4>1. now_in = old \cup {new} /\ Cardinality(old) < MaxItems
        BY <1>2, <2>2, <2>3, <3>2
      <4> HIDE DEF old, now_in
      <4>2. Cardinality(now_in) = Cardinality(old) \/ Cardinality(now_in) = Cardinality(old) + 1
        BY <3>1, <4>1, FS_AddElement
      <4>3. Cardinality(now_in) \in Nat
        BY <3>1, <4>1, FS_AddElement, FS_CardinalityType
      <4> QED
        BY <3>1, <4>1, <4>2, <4>3, StoreAssumption DEF now_in
    <3>3. CASE s # scope
      <4>1. now_in = old
        BY <2>2, <2>3, <3>3
      <4> QED
        BY <3>1, <4>1
    <3> QED
      BY <3>2, <3>3
  <2>8. ItemsInv'
    <3>1. items' \subseteq Row /\ \A row \in items' : row.scope = row.request.scope
      BY <1>0, <2>2, <2>3 DEF ItemsInv
    <3>2. \A x, y \in items' : x.scope = y.scope /\ x.request.key = y.request.key => x = y
      BY <1>0, <2>2, <2>3, <2>4 DEF ItemsInv
    <3> QED
      BY <2>6, <2>7, <3>1, <3>2 DEF ItemsInv
  <2>9. ReceiptsInv'
    <3>1. receipts' \subseteq [request : Request, id : Ids]
      BY <1>0, <2>1, <2>3 DEF ReceiptsInv
    <3>2. \A r \in receipts' : \E row \in items' : row.id = r.id /\ row.request = r.request
      BY <1>0, <2>2, <2>3 DEF ReceiptsInv
    <3> QED
      BY <3>1, <3>2 DEF ReceiptsInv
  <2> QED
    BY <1>0, <2>5, <2>8, <2>9, StayingCheckpoints, StayingPaging DEF StoreInv
<1> QED
  BY <1>1, <1>2 DEF ingest

\* A spoiled row takes the place of its former self.
LEMMA SpoilKeeps ==
  ASSUME StoreInv, spoil
  PROVE  StoreInv'
<1>0. /\ ItemsInv /\ ReceiptsInv /\ CheckpointsInv /\ PagingInv /\ time \in Int
      /\ UNCHANGED <<checkpoints, checking, receipts, paging, time>>
  BY DEF StoreInv, spoil
<1>1. PICK old \in items : items' = (items \ {old}) \cup {[old EXCEPT !.intact = FALSE]}
  BY DEF spoil
<1> DEFINE new == [old EXCEPT !.intact = FALSE]
<1>2. old \in Row
  BY <1>0 DEF ItemsInv
<1>3. /\ new.id = old.id /\ new.scope = old.scope /\ new.request = old.request /\ new.created = old.created
      /\ new \in Row
  BY <1>2 DEF Row
<1>4. items' = (items \ {old}) \cup {new}
  BY <1>1
<1> HIDE DEF new
<1>5. ItemsStay
  BY <1>3, <1>4 DEF ItemsStay
<1>6. Numbered(items')
  <2>1. IsFiniteSet(items \ {old})
    BY <1>0, FS_RemoveElement DEF ItemsInv, Numbered
  <2>2. IsFiniteSet(items')
    BY <1>4, <2>1, FS_AddElement
  <2>3. \A x, y \in items' : x.id = y.id => x = y
    BY <1>0, <1>3, <1>4 DEF ItemsInv, Numbered
  <2>4. \A x \in items' : x.id \in Ids
    BY <1>0, <1>3, <1>4 DEF ItemsInv, Numbered
  <2> QED
    BY <2>2, <2>3, <2>4 DEF Numbered
<1>7. ASSUME NEW s \in Scopes PROVE Cardinality({row \in items' : row.scope = s}) <= MaxItems
  <2> DEFINE was == {row \in items : row.scope = s}
             is == {row \in items' : row.scope = s}
  <2>1. IsFiniteSet(was) /\ Cardinality(was) \in Nat /\ Cardinality(was) <= MaxItems
    <3>1. was \in SUBSET items /\ Cardinality(was) <= MaxItems
      BY <1>0 DEF ItemsInv
    <3> HIDE DEF was
    <3> QED
      BY <1>0, <3>1, FS_Subset, FS_CardinalityType DEF ItemsInv, Numbered
  <2>2. CASE old \in was
    <3>1. is = (was \ {old}) \cup {new}
      BY <1>3, <1>4, <2>2
    <3> HIDE DEF was, is
    <3>2. IsFiniteSet(was \ {old}) /\ Cardinality(was \ {old}) = Cardinality(was) - 1
      BY <2>1, <2>2, FS_RemoveElement
    <3>3. Cardinality(is) <= Cardinality(was \ {old}) + 1 /\ Cardinality(is) \in Nat
      <4>1. Cardinality(was \ {old}) \in Nat
        BY <3>2, FS_CardinalityType
      <4>2. IsFiniteSet(is)
        BY <3>1, <3>2, FS_AddElement
      <4>3. Cardinality(is) \in Nat
        BY <4>2, FS_CardinalityType
      <4>4. Cardinality(is) = Cardinality(was \ {old}) \/ Cardinality(is) = Cardinality(was \ {old}) + 1
        BY <3>1, <3>2, FS_AddElement
      <4> QED
        BY <4>1, <4>3, <4>4
    <3> QED
      BY <2>1, <3>2, <3>3, StoreAssumption DEF is
  <2>3. CASE old \notin was
    <3>1. is = was
      BY <1>3, <1>4, <2>3
    <3> QED
      BY <2>1, <3>1
  <2> QED
    BY <2>2, <2>3
<1>8. ItemsInv'
  <2>1. items' \subseteq Row /\ \A row \in items' : row.scope = row.request.scope
    BY <1>0, <1>3, <1>4 DEF ItemsInv
  <2>2. \A x, y \in items' : x.scope = y.scope /\ x.request.key = y.request.key => x = y
    <3> SUFFICES ASSUME NEW x \in items', NEW y \in items', x.scope = y.scope, x.request.key = y.request.key
                 PROVE  x = y
      OBVIOUS
    <3>1. CASE x = new /\ y # new
      BY <1>0, <1>3, <1>4, <3>1 DEF ItemsInv
    <3>2. CASE x # new /\ y = new
      BY <1>0, <1>3, <1>4, <3>2 DEF ItemsInv
    <3>3. CASE x # new /\ y # new
      BY <1>0, <1>4, <3>3 DEF ItemsInv
    <3> QED
      BY <3>1, <3>2, <3>3
  <2> QED
    BY <1>6, <1>7, <2>1, <2>2 DEF ItemsInv
<1> QED
  BY <1>0, <1>5, <1>8, StayingItems, StayingCheckpoints, StayingPaging DEF StoreInv

\* checkpoint, the check and the insert of a later transaction.
LEMMA StoreCheckpointKeeps ==
  ASSUME StoreInv
  PROVE  /\ \A scope \in Scopes, refs \in SUBSET Ids : checkpoint_check(scope, refs) => StoreInv'
         /\ \A c \in checking : checkpoint_insert(c) => StoreInv'
<1> DEFINE Checkpoint == [scope : Scopes, refs : SUBSET Ids, created : Int]
<1>0. ItemsInv /\ ReceiptsInv /\ CheckpointsInv /\ PagingInv /\ time \in Int
  BY DEF StoreInv
<1>1. ASSUME items' = items, receipts' = receipts, paging' = paging, time' = time, CheckpointsInv'
      PROVE  StoreInv'
  <2>1. ItemsStay /\ ItemsInv'
    BY <1>0, <1>1 DEF ItemsStay, ItemsInv, Numbered
  <2> QED
    BY <1>0, <1>1, <2>1, StayingItems, StayingPaging DEF StoreInv
<1>2. ASSUME NEW scope \in Scopes, NEW refs \in SUBSET Ids, checkpoint_check(scope, refs) PROVE StoreInv'
  <2> DEFINE c == [scope |-> scope, refs |-> refs, created |-> time]
  <2>1. /\ checking' = {c} /\ checkpoints' = checkpoints
        /\ items' = items /\ receipts' = receipts /\ paging' = paging /\ time' = time
        /\ c.scope = scope /\ c.refs = refs
        /\ \A id \in refs : \E row \in items : row.scope = scope /\ row.id = id
    BY <1>2 DEF checkpoint_check
  <2>2. c \in Checkpoint
    BY <1>0
  <2> HIDE DEF c
  <2>3. CheckpointsInv'
    BY <1>0, <2>1, <2>2 DEF CheckpointsInv, RefersWithin
  <2> QED
    BY <1>1, <2>1, <2>3
<1>3. ASSUME NEW c \in checking, checkpoint_insert(c) PROVE StoreInv'
  <2> DEFINE l == Len(checkpoints)
             new == Append(checkpoints, c)
  <2>1. /\ checking' = {} /\ checkpoints' = new
        /\ items' = items /\ receipts' = receipts /\ paging' = paging /\ time' = time
    BY <1>3 DEF checkpoint_insert
  <2>2. c \in Checkpoint /\ RefersWithin(c) /\ checkpoints \in Seq(Checkpoint)
    BY <1>0, <1>3 DEF CheckpointsInv
  <2>3. /\ new \in Seq(Checkpoint) /\ l \in Nat /\ Len(new) = l + 1
        /\ \A k \in 1..l : new[k] = checkpoints[k]
        /\ new[l + 1] = c
    <3> HIDE DEF Checkpoint
    <3> QED
      BY <2>2, AppendProperties, LenProperties
  <2> HIDE DEF new
  <2>4. \A k \in 1..l + 1 : RefersWithin(new[k])
    <3>1. \A k \in 1..l + 1 : k = l + 1 \/ k \in 1..l
      BY <2>3
    <3> QED
      BY <1>0, <2>2, <2>3, <3>1 DEF CheckpointsInv
  <2>5. \A k \in 1..Len(checkpoints') : \A id \in checkpoints'[k].refs :
          \E row \in items' : row.scope = checkpoints'[k].scope /\ row.id = id
    BY <2>1, <2>3, <2>4 DEF RefersWithin
  <2>6. CheckpointsInv'
    BY <2>1, <2>3, <2>5 DEF CheckpointsInv, RefersWithin
  <2> QED
    BY <1>1, <2>1, <2>6
<1> QED
  BY <1>2, <1>3

\* The first page of a search and the pages after it.
LEMMA SearchKeeps ==
  ASSUME StoreInv,
         search_next \/ \E scope \in Scopes, query \in Queries : search_begin(scope, query)
  PROVE  StoreInv'
<1>0. ItemsInv /\ ReceiptsInv /\ CheckpointsInv /\ PagingInv /\ time \in Int
  BY DEF StoreInv
<1>1. /\ PagingInv'
      /\ UNCHANGED <<items, checkpoints, checking, receipts, time>>
  <2>1. CASE search_next
    <3>1. /\ paging.at = "more"
          /\ search_page(paging.scope, paging.query, paging.cursor, paging.found, paging.began)
      BY <2>1 DEF search_next
    <3>2. paging # NoPaging
      BY <3>1 DEF NoPaging
    <3>3. UNCHANGED <<items, checkpoints, checking, receipts, time>>
      BY <3>1 DEF search_page
    <3>4. PICK scope, query, cursor, found, began :
            /\ scope = paging.scope /\ query = paging.query /\ cursor = paging.cursor
            /\ found = paging.found /\ began = paging.began
      OBVIOUS
    <3>5. search_page(scope, query, cursor, found, began)
      BY <3>1, <3>4
    <3>6. /\ cursor \in Nat
          /\ found \in Seq(SUBSET Ids)
          /\ \A j, k \in 1..Len(found) : j # k => found[j] \cap found[k] = {}
      BY <1>0, <3>2, <3>4 DEF PagingInv
    <3>7. \A row \in began : /\ row.scope = scope /\ query \in row.request.payload
                                    /\ row.id \in Ids /\ row.created \in Int
                                    /\ Kept(row.id, row.scope, row.request, row.created)
      BY <1>0, <3>2, <3>4 DEF PagingInv
    <3>8. \A row \in began : ~expired(row.created) /\ row.id <= cursor =>
            \E k \in 1..Len(found) : row.id \in found[k]
      BY <1>0, <3>2, <3>4 DEF PagingInv
    <3>9. \A k \in 1..Len(found) : \A id \in found[k] :
            /\ \E row \in items : row.id = id /\ row.scope = scope
                                  /\ query \in row.request.payload
            /\ id <= cursor
      BY <1>0, <3>1, <3>2, <3>4 DEF PagingInv
    <3>10. ShownUpTo(scope, query, cursor, found, began)
      BY <3>6, <3>7, <3>8, <3>9 DEF ShownUpTo
    <3>11. PagingInv'
      BY <3>5, <3>10, PageKeeps
    <3> QED
      BY <3>3, <3>11
  <2>2. ASSUME NEW scope \in Scopes, NEW query \in Queries, search_begin(scope, query)
        PROVE  PagingInv' /\ UNCHANGED <<items, checkpoints, checking, receipts, time>>
    <3>0. PICK began : began = {row \in items : row.scope = scope /\ query \in row.request.payload}
      OBVIOUS
    <3>1. search_page(scope, query, 0, <<>>, began)
      BY <2>2, <3>0 DEF search_begin
    <3>2. UNCHANGED <<items, checkpoints, checking, receipts, time>>
      BY <3>1 DEF search_page
    <3>3. \A row \in began : /\ row.scope = scope /\ query \in row.request.payload
                             /\ row.id \in Ids /\ row.created \in Int
                             /\ Kept(row.id, row.scope, row.request, row.created)
      BY <1>0, <3>0 DEF ItemsInv, Row, Kept
    <3>4. \A row \in began : ~(row.id <= 0)
      BY <1>0, <3>0, StoreAssumption DEF ItemsInv, Numbered, Ids
    <3>5. <<>> \in Seq(SUBSET Ids) /\ 1..Len(<<>>) = {} /\ 0 \in Nat
      OBVIOUS
    <3>6. ShownUpTo(scope, query, 0, <<>>, began)
      BY <3>3, <3>4, <3>5 DEF ShownUpTo
    <3>7. PagingInv'
      BY <3>1, <3>6, PageKeeps
    <3> QED
      BY <3>2, <3>7
  <2> QED
    BY <2>1, <2>2
<1>2. ItemsStay /\ ItemsInv'
  BY <1>0, <1>1 DEF ItemsStay, ItemsInv, Numbered
<1> QED
  BY <1>0, <1>1, <1>2, StayingItems, StayingCheckpoints DEF StoreInv

\* Every step of the store keeps the invariant.
LEMMA StoreInductive ==
  StoreInv /\ [StoreNext]_store_vars => StoreInv'
<1> SUFFICES ASSUME StoreInv, [StoreNext]_store_vars PROVE StoreInv'
  OBVIOUS
<1>0. ItemsInv /\ ReceiptsInv /\ CheckpointsInv /\ PagingInv /\ time \in Int
  BY DEF StoreInv
<1>1. ASSUME UNCHANGED <<items, checkpoints, checking, receipts, paging>>, time' \in Int, time <= time'
      PROVE  StoreInv'
  <2>1. ItemsStay /\ ItemsInv'
    BY <1>0, <1>1 DEF ItemsStay, ItemsInv, Numbered
  <2> QED
    BY <1>0, <1>1, <2>1, StayingItems, StayingCheckpoints, StayingPaging DEF StoreInv
<1>2. CASE age
  BY <1>0, <1>1, <1>2 DEF age
<1>3. CASE UNCHANGED store_vars
  BY <1>0, <1>1, <1>3 DEF store_vars
<1>4. CASE \E scope \in Scopes, key \in Keys, payload \in Payloads : ingest(scope, key, payload)
  BY <1>4, IngestKeeps
<1>5. CASE \/ \E scope \in Scopes, refs \in SUBSET Ids : Cardinality(refs) = 1 /\ checkpoint_check(scope, refs)
           \/ \E c \in checking : checkpoint_insert(c)
  BY <1>5, StoreCheckpointKeeps
<1>6. CASE search_next \/ \E scope \in Scopes, query \in Queries : search_begin(scope, query)
  BY <1>6, SearchKeeps
<1>7. CASE spoil
  BY <1>7, SpoilKeeps
<1> QED
  BY <1>2, <1>3, <1>4, <1>5, <1>6, <1>7 DEF StoreNext

\* The invariant is what StoreExact asks.
LEMMA StoreInvExact ==
  StoreInv => StoreExact
<1> SUFFICES ASSUME StoreInv PROVE StoreExact
  OBVIOUS
<1>0. ItemsInv /\ ReceiptsInv /\ CheckpointsInv /\ PagingInv /\ time \in Int
  BY DEF StoreInv
<1>1. ASSUME NEW r \in receipts, NEW s \in receipts,
             r.request.scope = s.request.scope, r.request.key = s.request.key
      PROVE  r = s
  <2>1. r \in [request : Request, id : Ids] /\ s \in [request : Request, id : Ids]
    BY <1>0 DEF ReceiptsInv
  <2>2. PICK x \in items : x.id = r.id /\ x.request = r.request
    BY <1>0 DEF ReceiptsInv
  <2>3. PICK y \in items : y.id = s.id /\ y.request = s.request
    BY <1>0 DEF ReceiptsInv
  <2>4. x = y
    BY <1>0, <1>1, <2>2, <2>3 DEF ItemsInv
  <2> QED
    BY <2>1, <2>2, <2>3, <2>4
<1>2. ASSUME NEW r \in receipts PROVE read_item(r.request.scope, r.id) \subseteq {r.request.payload}
  <2>1. PICK x \in items : x.id = r.id /\ x.request = r.request
    BY <1>0 DEF ReceiptsInv
  <2>2. \A y \in items : y.id = r.id => y = x
    BY <1>0, <2>1 DEF ItemsInv, Numbered
  <2> QED
    BY <2>1, <2>2 DEF read_item
<1>3. \A scope \in Scopes : Cardinality({row \in items : row.scope = scope}) <= MaxItems
  BY <1>0 DEF ItemsInv
<1>4. ASSUME NEW scope \in Scopes, NEW id \in resume_refs(scope)
      PROVE  \E row \in items : row.scope = scope /\ row.id = id
  <2>1. PICK c \in ToSet(checkpoints) : c.scope = scope /\ id \in c.refs
    BY <1>4 DEF resume_refs, latest_checkpoint
  <2>2. PICK k \in 1..Len(checkpoints) : c = checkpoints[k]
    BY <1>0, <2>1 DEF ToSet, CheckpointsInv
  <2>3. RefersWithin(c)
    BY <1>0, <2>2 DEF CheckpointsInv
  <2> QED
    BY <2>1, <2>3 DEF RefersWithin
<1>5. ASSUME paging.at = "done"
      PROVE
        /\ \A j, k \in DOMAIN paging.found : j # k => paging.found[j] \cap paging.found[k] = {}
        /\ \A row \in paging.began :
            ~expired(row.created) => \E k \in DOMAIN paging.found : row.id \in paging.found[k]
        /\ \A k \in DOMAIN paging.found : \A id \in paging.found[k] : \E row \in items :
            row.id = id /\ row.scope = paging.scope /\ paging.query \in row.request.payload
  <2>1. paging # NoPaging
    BY <1>5 DEF NoPaging
  <2>2. paging.found \in Seq(SUBSET Ids)
    BY <1>0, <2>1 DEF PagingInv
  <2>3. DOMAIN paging.found = 1..Len(paging.found)
    BY <2>2
  <2>4. \A j, k \in 1..Len(paging.found) : j # k => paging.found[j] \cap paging.found[k] = {}
    BY <1>0, <2>1 DEF PagingInv
  <2>5. \A row \in paging.began :
          ~expired(row.created) => \E k \in 1..Len(paging.found) : row.id \in paging.found[k]
    BY <1>0, <1>5, <2>1 DEF PagingInv
  <2>6. \A k \in 1..Len(paging.found) : \A id \in paging.found[k] : \E row \in items :
          row.id = id /\ row.scope = paging.scope /\ paging.query \in row.request.payload
    BY <1>0, <2>1 DEF PagingInv
  <2> QED
    BY <2>3, <2>4, <2>5, <2>6
<1> QED
  BY <1>1, <1>2, <1>3, <1>4, <1>5 DEF StoreExact

\* However ingestions, checkpoints, pages and spoiled rows interleave: an
\* ingestion key has one item, which every receipt of it names, no scope is past
\* its quota, resume hands out references of its own scope, and a search that
\* came to its end showed all that was there from the beginning, none twice
\* (ContextStore.ingest, checkpoint, ContextContinuityService.search).
THEOREM StoreIsExact ==
  StoreSpec => []StoreExact
<1>1. StoreInit => StoreInv
  BY StoreInitially
<1>2. StoreInv /\ [StoreNext]_store_vars => StoreInv'
  BY StoreInductive
<1>3. StoreInv => StoreExact
  BY StoreInvExact
<1> QED
  BY <1>1, <1>2, <1>3, PTL DEF StoreSpec

---------------------------------------------------------------------------
(* Continuity: collecting what events add.                                 *)

\* The value of a collection of a snapshot.
Texts == Seq(STRING)

\* Sequences of one text, of any kind.
LEMMA OneText ==
  ASSUME NEW T, NEW t \in T
  PROVE  <<t>> \in Seq(T)
OBVIOUS

\* Texts may be joined in any grouping.
LEMMA TextsAssociative ==
  ASSUME NEW s \in Texts, NEW t \in Texts, NEW u \in Texts
  PROVE  (s \o t) \o u = s \o (t \o u)
BY ConcatAssociative, SMT DEF Texts

\* What an event notes in a collection are texts.
LEMMA NotedType ==
  ASSUME NEW e \in Event, NEW c \in Collections
  PROVE  noted(e)[c] \in Texts
<1>1. <<>> \in Texts
  BY DEF Texts
<1>2. \A t \in STRING : <<t>> \in Texts /\ nonempty(t) \in Texts
  <2>1. \A t \in STRING : <<t>> \in Texts
    BY OneText, Zenon DEF Texts
  <2> QED
    BY <1>1, <2>1 DEF nonempty
<1>3. \A s \in Texts : \A b : only(b, s) \in Texts
  BY <1>1 DEF only
<1>4. /\ e.observation \in STRING /\ e.state \in STRING /\ e.do_not_repeat \in Texts
      /\ e.strategy_delta \in STRING /\ e.action \in STRING /\ e.evidence_refs \in Texts
      /\ e.unresolved_risks \in Texts /\ e.unknowns \in Texts
  BY DEF Event, Texts
<1> HIDE DEF Texts
<1>5. /\ nonempty(e.observation) \in Texts
      /\ only(e.type \in {"PLAN_FORMED", "HYPOTHESIS_REVISED"}, nonempty(e.state)) \in Texts
      /\ only(e.type = "ATTEMPT_REJECTED", <<e.state>>) \in Texts
      /\ only(e.type = "ATTEMPT_REJECTED", e.do_not_repeat) \in Texts
      /\ nonempty(e.strategy_delta) \in Texts
      /\ only(e.type = "COMPLETED", nonempty(e.action)) \in Texts
  BY <1>2, <1>3, <1>4, Zenon
<1> QED
  BY <1>4, <1>5 DEF noted, Collections

\* F has the collection after each event.
AddedBy(old, events, c, F) ==
  /\ F \in [0..Len(events) -> Texts]
  /\ F[0] = old
  /\ \A i \in 1..Len(events) : F[i] = F[i - 1] \o noted(events[i])[c]

\* added computes the last of the values AddedBy describes.
LEMMA AddedIs ==
  ASSUME NEW events \in Seq(Event), NEW old \in Texts, NEW c \in Collections
  PROVE  \E F : AddedBy(old, events, c, F) /\ added(old, events, c) = F[Len(events)]
<1> DEFINE N == Len(events)
           next(v, i) == v \o noted(events[i])[c]
           list == CHOOSE f : f = [i \in 0..N |-> IF i = 0 THEN old ELSE next(f[i - 1], i)]
<1>1. N \in Nat /\ \A i \in 1..N : noted(events[i])[c] \in Texts
  <2>1. N \in Nat /\ \A i \in 1..N : events[i] \in Event
    BY LenProperties, ElementOfSeq
  <2> QED
    BY <2>1, NotedType
<1>2. \A v \in Texts, i \in 1..N : next(v, i) \in Texts
  BY <1>1, ConcatProperties DEF Texts
<1>3. added(old, events, c) = list[N]
  BY DEF added
<1> HIDE DEF next, N
<1>4. PICK f \in [0..N -> Texts] : f[0] = old /\ \A i \in 1..N : f[i] = next(f[i - 1], i)
  <2> DEFINE rule == [p \in Texts \X (1..N) |-> next(p[1], p[2])]
  <2>1. RuleOn(Texts, N, rule)
    BY <1>2 DEF RuleOn
  <2>2. \A v \in Texts, i \in 1..N : rule[<<v, i>>] = next(v, i)
    OBVIOUS
  <2> HIDE DEF rule
  <2>3. PICK f : Recursion(Texts, old, rule, N, f)
    <3>1. N \in Nat
      BY <1>1
    <3> QED
      BY <2>1, <3>1, RecursionExists
  <2>4. /\ f \in [0..N -> Texts] /\ f[0] = old
        /\ \A i \in 1..N : f[i] = rule[<<f[i - 1], i>>]
    BY <2>3 DEF Recursion
  <2>5. \A i \in 1..N : f[i - 1] \in Texts
    BY <1>1, <2>4
  <2> QED
    BY <2>2, <2>4, <2>5
<1>5. f = [i \in 0..N |-> IF i = 0 THEN old ELSE next(f[i - 1], i)]
  <2> DEFINE g == [i \in 0..N |-> IF i = 0 THEN old ELSE next(f[i - 1], i)]
  <2>1. \A i \in 0..N : i = 0 \/ i \in 1..N
    BY <1>1
  <2>2. \A i \in 0..N : f[i] = g[i]
    BY <1>4, <2>1
  <2> QED
    BY <2>2
<1>6. list = [i \in 0..N |-> IF i = 0 THEN old ELSE next(list[i - 1], i)]
  BY <1>5
<1> HIDE DEF list
<1>7. list[0] = old /\ \A i \in 1..N : list[i] = next(list[i - 1], i)
  <2> HIDE DEF next
  <2>1. \A i \in 0..N : list[i] = IF i = 0 THEN old ELSE next(list[i - 1], i)
    BY <1>6
  <2>2. 0 \in 0..N /\ \A i \in 1..N : i \in 0..N /\ i # 0
    BY <1>1
  <2> QED
    BY <2>1, <2>2
<1>8. \A i \in 0..N : list[i] \in Texts
  <2> DEFINE S == {i \in 0..N : list[i] \in Texts}
  <2>1. 0 \in S
    BY <1>1, <1>7
  <2>2. ASSUME NEW i \in 1..N, i - 1 \in S PROVE i \in S
    BY <1>1, <1>2, <1>7, <2>2
  <2>3. \A i \in 0..N : i \in S
    <3> HIDE DEF S
    <3> QED
      BY <1>1, <2>1, <2>2, UpTo
  <2> QED
    BY <2>3
<1>9. list \in [0..N -> Texts]
  BY <1>6, <1>8
<1> QED
  BY <1>3, <1>7, <1>9 DEF AddedBy, N, next

\* Adding from a collection goes on where it ended.
LEMMA AddedType ==
  ASSUME NEW events \in Seq(Event), NEW old \in Texts, NEW c \in Collections
  PROVE  added(old, events, c) \in Texts
<1>1. PICK F : AddedBy(old, events, c, F) /\ added(old, events, c) = F[Len(events)]
  BY AddedIs
<1>2. Len(events) \in 0..Len(events)
  BY LenProperties
<1> QED
  BY <1>1, <1>2 DEF AddedBy

\* Adding two parts of a stream is adding the one, then the other.
LEMMA AddedConcat ==
  ASSUME NEW x \in Seq(Event), NEW y \in Seq(Event), NEW old \in Texts, NEW c \in Collections
  PROVE  added(old, x \o y, c) = added(added(old, x, c), y, c)
<1> DEFINE M == Len(x)
           N == Len(y)
           mid == added(old, x, c)
<1>1. /\ M \in Nat /\ N \in Nat /\ x \o y \in Seq(Event) /\ Len(x \o y) = M + N
      /\ \A i \in 1..M : (x \o y)[i] = x[i]
      /\ \A j \in 1..N : (x \o y)[M + j] = y[j]
  BY ConcatProperties, LenProperties
<1>2. PICK F : AddedBy(old, x \o y, c, F) /\ added(old, x \o y, c) = F[M + N]
  BY <1>1, AddedIs
<1>3. PICK G : AddedBy(old, x, c, G) /\ mid = G[M]
  BY AddedIs
<1>4. mid \in Texts
  BY AddedType
<1>5. PICK H : AddedBy(mid, y, c, H) /\ added(mid, y, c) = H[N]
  <2> HIDE DEF mid
  <2> QED
    BY <1>4, AddedIs
<1> HIDE DEF M, N, mid
<1>6. \A i \in 0..M : F[i] = G[i]
  <2> DEFINE S == {i \in 0..M : F[i] = G[i]}
  <2>1. 0 \in S
    BY <1>1, <1>2, <1>3 DEF AddedBy
  <2>2. ASSUME NEW i \in 1..M, i - 1 \in S PROVE i \in S
    <3>1. i \in 1..M + N /\ i \in 0..M
      BY <1>1
    <3>2. F[i] = F[i - 1] \o noted(x[i])[c]
      BY <1>1, <1>2, <3>1 DEF AddedBy
    <3>3. G[i] = G[i - 1] \o noted(x[i])[c]
      BY <1>3 DEF AddedBy, M
    <3> QED
      BY <2>2, <3>1, <3>2, <3>3
  <2>3. \A i \in 0..M : i \in S
    <3> HIDE DEF S
    <3> QED
      BY <1>1, <2>1, <2>2, UpTo
  <2> QED
    BY <2>3
<1>7. \A j \in 0..N : F[M + j] = H[j]
  <2> DEFINE S == {j \in 0..N : F[M + j] = H[j]}
  <2>1. 0 \in S
    <3>1. H[0] = mid
      BY <1>5 DEF AddedBy
    <3>2. 0 \in 0..N /\ M + 0 = M /\ M \in 0..M
      BY <1>1
    <3>3. F[M] = G[M]
      BY <1>6, <3>2
    <3> QED
      BY <1>3, <3>1, <3>2, <3>3
  <2>2. ASSUME NEW j \in 1..N, j - 1 \in S PROVE j \in S
    <3>1. M + j \in 1..M + N /\ j \in 0..N /\ M + j - 1 = M + (j - 1)
      BY <1>1
    <3>2. F[M + j] = F[M + (j - 1)] \o noted(y[j])[c]
      <4>1. \A i \in 1..M + N : F[i] = F[i - 1] \o noted((x \o y)[i])[c]
        BY <1>1, <1>2 DEF AddedBy
      <4>2. PICK i : i = M + j
        OBVIOUS
      <4>3. i \in 1..M + N /\ i - 1 = M + (j - 1) /\ (x \o y)[i] = y[j]
        BY <1>1, <3>1, <4>2
      <4>4. F[i] = F[i - 1] \o noted((x \o y)[i])[c]
        BY <4>1, <4>3
      <4> QED
        BY <4>2, <4>3, <4>4
    <3>3. H[j] = H[j - 1] \o noted(y[j])[c]
      BY <1>5 DEF AddedBy, N
    <3> QED
      BY <2>2, <3>1, <3>2, <3>3
  <2>3. \A j \in 0..N : j \in S
    <3> HIDE DEF S
    <3> QED
      BY <1>1, <2>1, <2>2, UpTo
  <2> QED
    BY <2>3
<1>8. F[M + N] = H[N]
  BY <1>1, <1>7
<1> QED
  BY <1>2, <1>5, <1>8 DEF mid

\* What a stream adds does not depend on what was there.
LEMMA AddedFromEmpty ==
  ASSUME NEW y \in Seq(Event), NEW old \in Texts, NEW c \in Collections
  PROVE  added(old, y, c) = old \o added(<<>>, y, c)
<1> DEFINE N == Len(y)
<1>0. N \in Nat /\ <<>> \in Texts /\ \A i \in 1..N : noted(y[i])[c] \in Texts
  <2>1. N \in Nat /\ \A i \in 1..N : y[i] \in Event
    BY LenProperties, ElementOfSeq
  <2> QED
    BY <2>1, NotedType DEF Texts
<1>1. PICK F : AddedBy(old, y, c, F) /\ added(old, y, c) = F[N]
  BY AddedIs
<1>2. PICK G : AddedBy(<<>>, y, c, G) /\ added(<<>>, y, c) = G[N]
  BY <1>0, AddedIs
<1>3. \A j \in 0..N : F[j] = old \o G[j]
  <2> DEFINE S == {j \in 0..N : F[j] = old \o G[j]}
  <2>1. 0 \in S
    <3>1. F[0] = old /\ G[0] = <<>>
      BY <1>1, <1>2 DEF AddedBy
    <3>2. old \o <<>> = old
      BY ConcatEmptySeq DEF Texts
    <3>3. 0 \in 0..N
      BY <1>0
    <3> HIDE DEF N
    <3> QED
      BY <3>1, <3>2, <3>3
  <2>2. ASSUME NEW j \in 1..N, j - 1 \in S PROVE j \in S
    <3>1. F[j] = F[j - 1] \o noted(y[j])[c] /\ G[j] = G[j - 1] \o noted(y[j])[c]
      BY <1>1, <1>2 DEF AddedBy
    <3>2. j - 1 \in 0..N /\ j \in 0..N
      BY <1>0
    <3>3. G[j - 1] \in Texts
      BY <1>2, <3>2 DEF AddedBy
    <3>4. (old \o G[j - 1]) \o noted(y[j])[c] = old \o (G[j - 1] \o noted(y[j])[c])
      <4>1. PICK more \in Texts : more = noted(y[j])[c]
        BY <1>0
      <4>2. (old \o G[j - 1]) \o more = old \o (G[j - 1] \o more)
        BY <3>3, TextsAssociative
      <4> QED
        BY <4>1, <4>2
    <3> QED
      BY <2>2, <3>1, <3>2, <3>4
  <2>3. \A j \in 0..N : j \in S
    <3> HIDE DEF S, N
    <3> QED
      BY <1>0, <2>1, <2>2, UpTo
  <2> QED
    BY <2>3
<1>4. N \in 0..N
  BY <1>0
<1> QED
  BY <1>1, <1>2, <1>3, <1>4

\* What is collected was added by an event.
LEMMA AddedComesFrom ==
  ASSUME NEW events \in Seq(Event), NEW c \in Collections,
         NEW k \in 1..Len(added(<<>>, events, c))
  PROVE  \E m \in 1..Len(events) : Contains(noted(events[m])[c], added(<<>>, events, c)[k])
<1> DEFINE N == Len(events)
           From(v, j) == \E m \in 1..j : Contains(noted(events[m])[c], v)
<1>0. N \in Nat /\ <<>> \in Texts /\ \A i \in 1..N : noted(events[i])[c] \in Texts
  <2>1. N \in Nat /\ \A i \in 1..N : events[i] \in Event
    BY LenProperties, ElementOfSeq
  <2> QED
    BY <2>1, NotedType DEF Texts
<1>1. PICK F : AddedBy(<<>>, events, c, F) /\ added(<<>>, events, c) = F[N]
  BY <1>0, AddedIs
<1> DEFINE S == {j \in 0..N : \A i \in 1..Len(F[j]) : From(F[j][i], j)}
<1>2. 0 \in S
  <2>1. F[0] = <<>> /\ Len(<<>>) = 0 /\ 1..0 = {}
    BY <1>1 DEF AddedBy
  <2>2. 1..Len(F[0]) = {}
    BY <2>1
  <2> QED
    BY <1>0, <2>2
<1>3. ASSUME NEW j \in 1..N, j - 1 \in S PROVE j \in S
  <2> DEFINE old == F[j - 1]
             more == noted(events[j])[c]
  <2>1. F[j] = old \o more /\ j - 1 \in 0..N /\ j \in 0..N
    <3>1. F[j] = old \o more
      BY <1>1 DEF AddedBy
    <3>2. j - 1 \in 0..N /\ j \in 0..N
      BY <1>0
    <3> QED
      BY <3>1, <3>2
  <2>2. old \in Texts /\ more \in Texts
    BY <1>0, <1>1, <2>1 DEF AddedBy
  <2> HIDE DEF old, more
  <2>3. /\ Len(old) \in Nat /\ Len(more) \in Nat /\ Len(old \o more) = Len(old) + Len(more)
        /\ \A i \in 1..Len(old) + Len(more) :
             (old \o more)[i] = IF i <= Len(old) THEN old[i] ELSE more[i - Len(old)]
    BY <2>2, ConcatProperties, LenProperties DEF Texts
  <2>4. ASSUME NEW i \in 1..Len(F[j]) PROVE From(F[j][i], j)
    <3>1. i \in 1..Len(old) + Len(more)
      BY <2>1, <2>3
    <3>2. CASE i <= Len(old)
      <4>1. F[j][i] = old[i] /\ i \in 1..Len(old)
        BY <2>1, <2>3, <3>1, <3>2
      <4>2. From(old[i], j - 1)
        BY <1>3, <4>1 DEF old
      <4>3. PICK m \in 1..j - 1 : Contains(noted(events[m])[c], old[i])
        BY <4>2
      <4>4. m \in 1..j
        BY <1>0
      <4> QED
        BY <4>1, <4>3, <4>4
    <3>3. CASE ~(i <= Len(old))
      <4>1. F[j][i] = more[i - Len(old)] /\ i - Len(old) \in 1..Len(more)
        BY <2>1, <2>3, <3>1, <3>3
      <4>2. Contains(more, F[j][i])
        BY <4>1 DEF Contains
      <4>3. j \in 1..j
        BY <1>0
      <4> QED
        BY <4>2, <4>3 DEF more
    <3> QED
      BY <3>2, <3>3
  <2> HIDE DEF From
  <2> QED
    BY <2>1, <2>4
<1>4. N \in S
  <2>1. \A j \in 0..N : j \in S
    <3> HIDE DEF S, N
    <3> QED
      BY <1>0, <1>2, <1>3, UpTo
  <2>2. N \in 0..N
    BY <1>0
  <2> QED
    BY <2>1, <2>2
<1> QED
  BY <1>1, <1>4

---------------------------------------------------------------------------
(* Continuity: unique, the distinct elements in order.                     *)

\* F has the distinct elements of the first of s.
KeptBy(s, F) ==
  /\ F \in [0..Len(s) -> Texts]
  /\ F[0] = <<>>
  /\ \A i \in 1..Len(s) : F[i] = IF Contains(F[i - 1], s[i]) THEN F[i - 1] ELSE Append(F[i - 1], s[i])

\* unique computes the last of the values KeptBy describes.
LEMMA UniqueIs ==
  ASSUME NEW s \in Texts
  PROVE  \E F : KeptBy(s, F) /\ unique(s) = F[Len(s)]
<1> DEFINE N == Len(s)
           next(v, i) == IF Contains(v, s[i]) THEN v ELSE Append(v, s[i])
           kept == CHOOSE f : f = [i \in 0..N |-> IF i = 0 THEN <<>> ELSE next(f[i - 1], i)]
<1>0. <<>> \in Texts
  BY DEF Texts
<1>1. N \in Nat /\ \A i \in 1..N : s[i] \in STRING
  BY LenProperties, ElementOfSeq DEF Texts
<1>2. \A v \in Texts, i \in 1..N : next(v, i) \in Texts
  BY <1>1, AppendProperties DEF Texts
<1>3. unique(s) = kept[N]
  BY DEF unique
<1> HIDE DEF next, N
<1>4. PICK f \in [0..N -> Texts] : f[0] = <<>> /\ \A i \in 1..N : f[i] = next(f[i - 1], i)
  <2> DEFINE rule == [p \in Texts \X (1..N) |-> next(p[1], p[2])]
  <2>1. RuleOn(Texts, N, rule)
    BY <1>2 DEF RuleOn
  <2>2. \A v \in Texts, i \in 1..N : rule[<<v, i>>] = next(v, i)
    OBVIOUS
  <2> HIDE DEF rule
  <2>3. PICK f : Recursion(Texts, <<>>, rule, N, f)
    <3>1. N \in Nat
      BY <1>1
    <3> QED
      BY <1>0, <2>1, <3>1, RecursionExists
  <2>4. /\ f \in [0..N -> Texts] /\ f[0] = <<>>
        /\ \A i \in 1..N : f[i] = rule[<<f[i - 1], i>>]
    BY <2>3 DEF Recursion
  <2>5. \A i \in 1..N : f[i - 1] \in Texts
    BY <1>1, <2>4
  <2> QED
    BY <2>2, <2>4, <2>5
<1>5. f = [i \in 0..N |-> IF i = 0 THEN <<>> ELSE next(f[i - 1], i)]
  <2> DEFINE g == [i \in 0..N |-> IF i = 0 THEN <<>> ELSE next(f[i - 1], i)]
  <2>1. \A i \in 0..N : i = 0 \/ i \in 1..N
    BY <1>1
  <2>2. \A i \in 0..N : f[i] = g[i]
    BY <1>4, <2>1
  <2> QED
    BY <2>2
<1>6. kept = [i \in 0..N |-> IF i = 0 THEN <<>> ELSE next(kept[i - 1], i)]
  BY <1>5
<1> HIDE DEF kept
<1>7. kept[0] = <<>> /\ \A i \in 1..N : kept[i] = next(kept[i - 1], i)
  <2> HIDE DEF next
  <2>1. \A i \in 0..N : kept[i] = IF i = 0 THEN <<>> ELSE next(kept[i - 1], i)
    BY <1>6
  <2>2. 0 \in 0..N /\ \A i \in 1..N : i \in 0..N /\ i # 0
    BY <1>1
  <2> QED
    BY <2>1, <2>2
<1>8. \A i \in 0..N : kept[i] \in Texts
  <2> DEFINE S == {i \in 0..N : kept[i] \in Texts}
  <2>1. 0 \in S
    BY <1>0, <1>1, <1>7
  <2>2. ASSUME NEW i \in 1..N, i - 1 \in S PROVE i \in S
    BY <1>1, <1>2, <1>7, <2>2
  <2>3. \A i \in 0..N : i \in S
    <3> HIDE DEF S
    <3> QED
      BY <1>1, <2>1, <2>2, UpTo
  <2> QED
    BY <2>3
<1>9. kept \in [0..N -> Texts]
  BY <1>6, <1>8
<1> QED
  BY <1>3, <1>7, <1>9 DEF KeptBy, N, next

\* No text occurs twice.
Distinct(s) == \A j, k \in 1..Len(s) : s[j] = s[k] => j = k

\* What unique returns is distinct and was there.
LEMMA UniqueFacts ==
  ASSUME NEW s \in Texts
  PROVE  /\ unique(s) \in Texts
         /\ Distinct(unique(s))
         /\ \A k \in 1..Len(unique(s)) : \E m \in 1..Len(s) : unique(s)[k] = s[m]
<1> DEFINE N == Len(s)
<1>1. N \in Nat /\ \A i \in 1..N : s[i] \in STRING
  BY LenProperties, ElementOfSeq DEF Texts
<1>2. PICK F : KeptBy(s, F) /\ unique(s) = F[N]
  BY UniqueIs
<1>3. /\ F \in [0..N -> Texts]
      /\ F[0] = <<>>
      /\ \A i \in 1..N : F[i] = IF Contains(F[i - 1], s[i]) THEN F[i - 1] ELSE Append(F[i - 1], s[i])
  BY <1>2 DEF KeptBy
<1> HIDE DEF N
<1> DEFINE Good(j) == /\ Distinct(F[j])
                      /\ \A k \in 1..Len(F[j]) : \E m \in 1..j : F[j][k] = s[m]
           S == {j \in 0..N : Good(j)}
<1>4. 0 \in S
  <2>1. Len(<<>>) = 0 /\ 1..0 = {} /\ 0 \in 0..N
    BY <1>1
  <2> QED
    BY <1>3, <2>1 DEF Distinct
<1>5. ASSUME NEW j \in 1..N, j - 1 \in S PROVE j \in S
  <2> DEFINE old == F[j - 1]
  <2>1. j \in 0..N /\ j - 1 \in 0..N /\ j \in 1..j /\ \A m \in 1..j - 1 : m \in 1..j
    BY <1>1
  <2>2. old \in Texts /\ s[j] \in STRING
    BY <1>1, <1>3, <2>1
  <2>3. Distinct(old) /\ \A k \in 1..Len(old) : \E m \in 1..j - 1 : old[k] = s[m]
    BY <1>5
  <2>4. CASE Contains(old, s[j])
    <3>1. F[j] = old
      BY <1>3, <2>4
    <3> QED
      BY <2>1, <2>3, <3>1
  <2>5. CASE ~Contains(old, s[j])
    <3> DEFINE l == Len(old)
               new == Append(old, s[j])
    <3>1. F[j] = new
      BY <1>3, <2>5
    <3>2. /\ l \in Nat /\ Len(new) = l + 1
          /\ \A i \in 1..l : new[i] = old[i]
          /\ new[l + 1] = s[j]
      BY <2>2, AppendProperties, LenProperties DEF Texts
    <3>3. \A i \in 1..l : old[i] # s[j]
      BY <2>5 DEF Contains
    <3>4. \A i \in 1..l + 1 : i = l + 1 \/ i \in 1..l
      BY <3>2
    <3> HIDE DEF new, old
    <3>5. ASSUME NEW i \in 1..l + 1, NEW k \in 1..l + 1, new[i] = new[k] PROVE i = k
      <4>1. CASE i \in 1..l /\ k \in 1..l
        BY <2>3, <3>2, <3>5, <4>1 DEF Distinct
      <4>2. CASE i = l + 1 /\ k \in 1..l
        BY <3>2, <3>3, <3>5, <4>2
      <4>3. CASE i \in 1..l /\ k = l + 1
        BY <3>2, <3>3, <3>5, <4>3
      <4> QED
        BY <3>4, <4>1, <4>2, <4>3
    <3>6. Distinct(new)
      BY <3>2, <3>5 DEF Distinct
    <3>7. ASSUME NEW k \in 1..l + 1 PROVE \E m \in 1..j : new[k] = s[m]
      <4>1. CASE k \in 1..l
        <5>1. PICK m \in 1..j - 1 : old[k] = s[m]
          BY <2>3, <4>1
        <5> QED
          BY <2>1, <3>2, <4>1, <5>1
      <4>2. CASE k = l + 1
        BY <2>1, <3>2, <4>2
      <4> QED
        BY <3>4, <4>1, <4>2
    <3> HIDE DEF l
    <3> QED
      BY <2>1, <3>1, <3>2, <3>6, <3>7
  <2> QED
    BY <2>4, <2>5
<1>6. N \in 0..N
  BY <1>1
<1>7. Good(N)
  <2>1. \A j \in 0..N : j \in S
    <3> HIDE DEF S
    <3> QED
      BY <1>1, <1>4, <1>5, UpTo
  <2> HIDE DEF Good
  <2> QED
    BY <1>6, <2>1
<1> QED
  BY <1>2, <1>3, <1>6, <1>7 DEF N

\* unique leaves a sequence without repetitions alone.
LEMMA UniqueOfDistinct ==
  ASSUME NEW d \in Texts, Distinct(d)
  PROVE  unique(d) = d
<1> DEFINE N == Len(d)
           part(j) == SubSeq(d, 1, j)
<1>1. N \in Nat /\ \A i \in 1..N : d[i] \in STRING
  BY LenProperties, ElementOfSeq DEF Texts
<1>2. PICK F : KeptBy(d, F) /\ unique(d) = F[N]
  BY UniqueIs
<1>3. /\ F[0] = <<>>
      /\ \A i \in 1..N : F[i] = IF Contains(F[i - 1], d[i]) THEN F[i - 1] ELSE Append(F[i - 1], d[i])
  BY <1>2 DEF KeptBy
<1>4. \A j \in 0..N : /\ part(j) \in Seq(STRING) /\ Len(part(j)) = j
                      /\ \A i \in 1..j : part(j)[i] = d[i]
  <2> SUFFICES ASSUME NEW j \in 0..N
               PROVE  /\ part(j) \in Seq(STRING) /\ Len(part(j)) = j
                      /\ \A i \in 1..j : part(j)[i] = d[i]
    OBVIOUS
  <2>1. \A i \in 1..j : d[i] \in STRING
    BY <1>1
  <2>2. /\ SubSeq(d, 1, j) \in Seq(STRING)
        /\ Len(SubSeq(d, 1, j)) = (IF 1 <= j THEN j - 1 + 1 ELSE 0)
        /\ \A i \in 1..j - 1 + 1 : SubSeq(d, 1, j)[i] = d[1 + i - 1]
    BY <1>1, <2>1, SubSeqProperties
  <2> QED
    BY <1>1, <2>2
<1> HIDE DEF part
<1> DEFINE S == {j \in 0..N : F[j] = part(j)}
<1>5. 0 \in S
  <2>1. 0 \in 0..N
    BY <1>1
  <2>2. part(0) \in Seq(STRING) /\ Len(part(0)) = 0
    BY <1>4, <2>1
  <2>3. part(0) = <<>>
    BY <2>2, EmptySeq
  <2> QED
    BY <1>3, <2>1, <2>3
<1>6. ASSUME NEW j \in 1..N, j - 1 \in S PROVE j \in S
  <2>1. j \in 0..N /\ j - 1 \in 0..N /\ F[j - 1] = part(j - 1)
    BY <1>1, <1>6
  <2>2. \A i \in 1..j - 1 : part(j - 1)[i] = d[i] /\ d[i] # d[j]
    BY <1>1, <1>4, <2>1 DEF Distinct
  <2>3. ~Contains(part(j - 1), d[j])
    BY <1>4, <2>1, <2>2 DEF Contains
  <2>4. F[j] = Append(part(j - 1), d[j])
    BY <1>3, <2>1, <2>3
  <2> DEFINE a == Append(part(j - 1), d[j])
  <2>5. /\ a \in Seq(STRING) /\ Len(a) = j
        /\ \A i \in 1..j - 1 : a[i] = d[i]
        /\ a[j] = d[j]
    <3>1. part(j - 1) \in Seq(STRING) /\ Len(part(j - 1)) = j - 1 /\ d[j] \in STRING
      BY <1>1, <1>4, <2>1
    <3>2. /\ a \in Seq(STRING) /\ Len(a) = j - 1 + 1
          /\ \A i \in 1..j - 1 : a[i] = part(j - 1)[i]
          /\ a[j - 1 + 1] = d[j]
      BY <3>1, AppendProperties
    <3> HIDE DEF a
    <3> QED
      BY <2>2, <3>2
  <2>6. \A i \in 1..j : a[i] = part(j)[i]
    <3>1. \A i \in 1..j : i = j \/ i \in 1..j - 1
      BY <1>1
    <3>2. \A i \in 1..j : part(j)[i] = d[i]
      BY <1>4, <2>1
    <3> HIDE DEF a
    <3> QED
      BY <2>5, <3>1, <3>2
  <2>7. a = part(j)
    <3>1. part(j) \in Seq(STRING) /\ Len(part(j)) = j
      BY <1>4, <2>1
    <3> HIDE DEF a
    <3> QED
      BY <2>5, <2>6, <3>1, SeqEqual
  <2> QED
    BY <2>1, <2>4, <2>7
<1>7. N \in 0..N
  BY <1>1
<1>8. F[N] = part(N)
  <2>1. \A j \in 0..N : j \in S
    <3> HIDE DEF S, N
    <3> QED
      BY <1>1, <1>5, <1>6, UpTo
  <2> QED
    BY <1>7, <2>1
<1>9. part(N) = d
  <2>1. part(N) \in Seq(STRING) /\ Len(part(N)) = N /\ \A i \in 1..N : part(N)[i] = d[i]
    BY <1>4, <1>7
  <2>2. d \in Seq(STRING)
    BY DEF Texts
  <2> QED
    BY <2>1, <2>2, SeqEqual
<1> QED
  BY <1>2, <1>8, <1>9

\* Two runs of unique that agree at some point agree over the same rest.
SameRest(x, y, M, L, N) ==
  /\ M + N <= Len(x) /\ L + N <= Len(y)
  /\ \A j \in 1..N : x[M + j] = y[L + j]

\* Two scans that agree at one point and read the same from there stay equal.
LEMMA KeptAgree ==
  ASSUME NEW x \in Texts, NEW y \in Texts, NEW F, NEW G, KeptBy(x, F), KeptBy(y, G),
         NEW M \in Nat, NEW L \in Nat, NEW N \in Nat, SameRest(x, y, M, L, N), F[M] = G[L]
  PROVE  F[M + N] = G[L + N]
<1> DEFINE S == {j \in 0..N : F[M + j] = G[L + j]}
<1>0. Len(x) \in Nat /\ Len(y) \in Nat /\ M + N <= Len(x) /\ L + N <= Len(y)
  BY LenProperties DEF Texts, SameRest
<1>1. 0 \in S
  <2>1. M + 0 = M /\ L + 0 = L /\ 0 \in 0..N
    OBVIOUS
  <2> QED
    BY <2>1
<1>2. ASSUME NEW j \in 1..N, j - 1 \in S PROVE j \in S
  <2>1. PICK p, q : p = M + j /\ q = L + j
    OBVIOUS
  <2>2. /\ p \in 1..Len(x) /\ q \in 1..Len(y) /\ p - 1 = M + (j - 1) /\ q - 1 = L + (j - 1)
        /\ j \in 0..N
    BY <1>0, <2>1
  <2>3. x[p] = y[q] /\ F[p - 1] = G[q - 1]
    BY <1>2, <2>1, <2>2 DEF SameRest
  <2>4. F[p] = IF Contains(F[p - 1], x[p]) THEN F[p - 1] ELSE Append(F[p - 1], x[p])
    BY <2>2 DEF KeptBy
  <2>5. G[q] = IF Contains(G[q - 1], y[q]) THEN G[q - 1] ELSE Append(G[q - 1], y[q])
    BY <2>2 DEF KeptBy
  <2>6. F[p] = G[q]
    BY <2>3, <2>4, <2>5
  <2> QED
    BY <2>1, <2>2, <2>6
<1>3. \A j \in 0..N : j \in S
  <2> HIDE DEF S
  <2> QED
    BY <1>1, <1>2, UpTo
<1>4. N \in 0..N
  OBVIOUS
<1> QED
  BY <1>3, <1>4

\* The distinct elements of the distinct ones and more are those of all.
LEMMA UniqueAbsorbs ==
  ASSUME NEW a \in Texts, NEW b \in Texts
  PROVE  unique(unique(a) \o b) = unique(a \o b)
<1>1. PICK d \in Texts : d = unique(a) /\ Distinct(d)
  BY UniqueFacts
<1> DEFINE M == Len(a)
           L == Len(d)
           N == Len(b)
<1>2. /\ M \in Nat /\ L \in Nat /\ N \in Nat
      /\ a \o b \in Texts /\ Len(a \o b) = M + N
      /\ \A i \in 1..M : (a \o b)[i] = a[i]
      /\ \A j \in 1..N : (a \o b)[M + j] = b[j]
  BY ConcatProperties, LenProperties DEF Texts
<1>3. /\ d \o b \in Texts /\ Len(d \o b) = L + N
      /\ \A i \in 1..L : (d \o b)[i] = d[i]
      /\ \A j \in 1..N : (d \o b)[L + j] = b[j]
  BY ConcatProperties, LenProperties DEF Texts
<1>4. PICK F : KeptBy(a \o b, F) /\ unique(a \o b) = F[M + N]
  BY <1>2, UniqueIs
<1>5. PICK G : KeptBy(a, G) /\ d = G[M]
  BY <1>1, UniqueIs
<1>6. PICK H : KeptBy(d \o b, H) /\ unique(d \o b) = H[L + N]
  BY <1>3, UniqueIs
<1>7. PICK K : KeptBy(d, K) /\ d = K[L]
  BY <1>1, UniqueIs, UniqueOfDistinct
<1> HIDE DEF M, L, N
<1>8. F[0] = <<>> /\ G[0] = <<>> /\ H[0] = <<>> /\ K[0] = <<>>
  BY <1>4, <1>5, <1>6, <1>7 DEF KeptBy
<1>9. F[M] = d
  <2>1. SameRest(a \o b, a, 0, 0, M) /\ 0 + M = M
    BY <1>2 DEF M, SameRest
  <2>2. F[0 + M] = G[0 + M]
    BY <1>2, <1>4, <1>5, <1>8, <2>1, KeptAgree
  <2> QED
    BY <1>5, <2>1, <2>2
<1>10. H[L] = d
  <2>1. SameRest(d \o b, d, 0, 0, L) /\ 0 + L = L
    BY <1>2, <1>3 DEF L, SameRest
  <2>2. H[0 + L] = K[0 + L]
    BY <1>2, <1>3, <1>6, <1>7, <1>8, <2>1, KeptAgree
  <2> QED
    BY <1>7, <2>1, <2>2
<1>11. F[M + N] = H[L + N]
  <2>1. SameRest(a \o b, d \o b, M, L, N)
    <3>1. M + N <= Len(a \o b) /\ L + N <= Len(d \o b)
      BY <1>2, <1>3
    <3>2. ASSUME NEW j \in 1..N PROVE (a \o b)[M + j] = (d \o b)[L + j]
      <4>1. (a \o b)[M + j] = b[j]
        BY <1>2
      <4>2. (d \o b)[L + j] = b[j]
        BY <1>3
      <4> QED
        BY <4>1, <4>2
    <3> QED
      BY <3>1, <3>2 DEF SameRest
  <2>2. F[M] = H[L]
    BY <1>9, <1>10
  <2> QED
    BY <1>2, <1>3, <1>4, <1>6, <2>1, <2>2, KeptAgree
<1> QED
  BY <1>1, <1>4, <1>6, <1>11

---------------------------------------------------------------------------
(* Continuity: latest, the last text that is not empty.                    *)

\* F has the text after each event.
LatestBy(old, events, f, F) ==
  /\ F \in [0..Len(events) -> STRING]
  /\ F[0] = old
  /\ \A i \in 1..Len(events) : F[i] = IF events[i][f] = "" THEN F[i - 1] ELSE events[i][f]

\* latest computes the last of the values LatestBy describes.
LEMMA LatestIs ==
  ASSUME NEW events \in Seq(Event), NEW old \in STRING, NEW f \in Scalars
  PROVE  \E F : LatestBy(old, events, f, F) /\ latest(old, events, f) = F[Len(events)]
<1> DEFINE N == Len(events)
           next(v, i) == IF events[i][f] = "" THEN v ELSE events[i][f]
           text == CHOOSE h : h = [i \in 0..N |-> IF i = 0 THEN old ELSE next(h[i - 1], i)]
<1>1. N \in Nat /\ \A i \in 1..N : events[i][f] \in STRING
  <2>1. N \in Nat /\ \A i \in 1..N : events[i] \in Event
    BY LenProperties, ElementOfSeq
  <2>2. \A e \in Event : e[f] \in STRING
    BY DEF Event, Scalars
  <2> QED
    BY <2>1, <2>2
<1>2. \A v \in STRING, i \in 1..N : next(v, i) \in STRING
  BY <1>1
<1>3. latest(old, events, f) = text[N]
  BY DEF latest
<1> HIDE DEF next, N
<1>4. PICK h \in [0..N -> STRING] : h[0] = old /\ \A i \in 1..N : h[i] = next(h[i - 1], i)
  <2> DEFINE rule == [p \in STRING \X (1..N) |-> next(p[1], p[2])]
  <2>1. RuleOn(STRING, N, rule)
    BY <1>2 DEF RuleOn
  <2>2. \A v \in STRING, i \in 1..N : rule[<<v, i>>] = next(v, i)
    OBVIOUS
  <2> HIDE DEF rule
  <2>3. PICK h : Recursion(STRING, old, rule, N, h)
    <3>1. N \in Nat
      BY <1>1
    <3> QED
      BY <2>1, <3>1, RecursionExists
  <2>4. /\ h \in [0..N -> STRING] /\ h[0] = old
        /\ \A i \in 1..N : h[i] = rule[<<h[i - 1], i>>]
    BY <2>3 DEF Recursion
  <2>5. \A i \in 1..N : h[i - 1] \in STRING
    BY <1>1, <2>4
  <2> QED
    BY <2>2, <2>4, <2>5
<1>5. h = [i \in 0..N |-> IF i = 0 THEN old ELSE next(h[i - 1], i)]
  <2> DEFINE g == [i \in 0..N |-> IF i = 0 THEN old ELSE next(h[i - 1], i)]
  <2>1. \A i \in 0..N : i = 0 \/ i \in 1..N
    BY <1>1
  <2>2. \A i \in 0..N : h[i] = g[i]
    BY <1>4, <2>1
  <2> QED
    BY <2>2
<1>6. text = [i \in 0..N |-> IF i = 0 THEN old ELSE next(text[i - 1], i)]
  BY <1>5
<1> HIDE DEF text
<1>7. text[0] = old /\ \A i \in 1..N : text[i] = next(text[i - 1], i)
  <2> HIDE DEF next
  <2>1. \A i \in 0..N : text[i] = IF i = 0 THEN old ELSE next(text[i - 1], i)
    BY <1>6
  <2>2. 0 \in 0..N /\ \A i \in 1..N : i \in 0..N /\ i # 0
    BY <1>1
  <2> QED
    BY <2>1, <2>2
<1>8. \A i \in 0..N : text[i] \in STRING
  <2> DEFINE S == {i \in 0..N : text[i] \in STRING}
  <2>1. 0 \in S
    <3>1. text[0] \in STRING
      BY ONLY <1>7, old \in STRING
    <3>2. 0 \in 0..N
      BY <1>1
    <3> QED
      BY <3>1, <3>2
  <2>2. ASSUME NEW i \in 1..N, i - 1 \in S PROVE i \in S
    <3>1. i \in 0..N /\ text[i - 1] \in STRING
      BY <1>1, <2>2
    <3>2. text[i] = next(text[i - 1], i)
      BY <1>7
    <3>3. next(text[i - 1], i) \in STRING
      BY <1>2, <3>1
    <3> QED
      BY <3>1, <3>2, <3>3
  <2>3. \A i \in 0..N : i \in S
    <3> HIDE DEF S
    <3> QED
      BY <1>1, <2>1, <2>2, UpTo
  <2> QED
    BY <2>3
<1>9. text \in [0..N -> STRING]
  BY <1>6, <1>8
<1> QED
  BY <1>3, <1>7, <1>9 DEF LatestBy, N, next

\* latest is a text.
LEMMA LatestType ==
  ASSUME NEW events \in Seq(Event), NEW old \in STRING, NEW f \in Scalars
  PROVE  latest(old, events, f) \in STRING
<1>1. PICK F : LatestBy(old, events, f, F) /\ latest(old, events, f) = F[Len(events)]
  BY LatestIs
<1>2. Len(events) \in 0..Len(events)
  BY LenProperties
<1> QED
  BY <1>1, <1>2 DEF LatestBy

\* The last text of two streams is that of the second, from that of the first.
LEMMA LatestConcat ==
  ASSUME NEW x \in Seq(Event), NEW y \in Seq(Event), NEW old \in STRING, NEW f \in Scalars
  PROVE  latest(old, x \o y, f) = latest(latest(old, x, f), y, f)
<1> DEFINE M == Len(x)
           N == Len(y)
           mid == latest(old, x, f)
<1>1. /\ M \in Nat /\ N \in Nat /\ x \o y \in Seq(Event) /\ Len(x \o y) = M + N
      /\ \A i \in 1..M : (x \o y)[i] = x[i]
      /\ \A j \in 1..N : (x \o y)[M + j] = y[j]
  BY ConcatProperties, LenProperties
<1>2. PICK F : LatestBy(old, x \o y, f, F) /\ latest(old, x \o y, f) = F[M + N]
  BY <1>1, LatestIs
<1>3. PICK G : LatestBy(old, x, f, G) /\ mid = G[M]
  BY LatestIs
<1>4. mid \in STRING
  BY LatestType
<1>5. PICK H : LatestBy(mid, y, f, H) /\ latest(mid, y, f) = H[N]
  <2> HIDE DEF mid
  <2> QED
    BY <1>4, LatestIs
<1> HIDE DEF M, N, mid
<1>6. \A i \in 0..M : F[i] = G[i]
  <2> DEFINE S == {i \in 0..M : F[i] = G[i]}
  <2>1. 0 \in S
    <3>1. F[0] = old /\ G[0] = old
      BY <1>2, <1>3, Zenon DEF LatestBy
    <3>2. 0 \in 0..M
      BY <1>1
    <3> QED
      BY <3>1, <3>2
  <2>2. ASSUME NEW i \in 1..M, i - 1 \in S PROVE i \in S
    <3>1. i \in 1..M + N /\ i \in 0..M
      BY <1>1
    <3>2. F[i] = IF x[i][f] = "" THEN F[i - 1] ELSE x[i][f]
      BY <1>1, <1>2, <3>1 DEF LatestBy
    <3>3. G[i] = IF x[i][f] = "" THEN G[i - 1] ELSE x[i][f]
      BY <1>3 DEF LatestBy, M
    <3> QED
      BY <2>2, <3>1, <3>2, <3>3
  <2>3. \A i \in 0..M : i \in S
    <3> HIDE DEF S
    <3> QED
      BY <1>1, <2>1, <2>2, UpTo
  <2> QED
    BY <2>3
<1>7. \A j \in 0..N : F[M + j] = H[j]
  <2> DEFINE S == {j \in 0..N : F[M + j] = H[j]}
  <2>1. 0 \in S
    <3>1. H[0] = mid
      BY <1>5 DEF LatestBy
    <3>2. 0 \in 0..N /\ M + 0 = M /\ M \in 0..M
      BY <1>1
    <3>3. F[M] = G[M]
      BY <1>6, <3>2
    <3> QED
      BY <1>3, <3>1, <3>2, <3>3
  <2>2. ASSUME NEW j \in 1..N, j - 1 \in S PROVE j \in S
    <3>1. M + j \in 1..M + N /\ j \in 0..N /\ M + j - 1 = M + (j - 1)
      BY <1>1
    <3>2. F[M + j] = IF y[j][f] = "" THEN F[M + (j - 1)] ELSE y[j][f]
      <4>1. \A i \in 1..M + N : F[i] = IF (x \o y)[i][f] = "" THEN F[i - 1] ELSE (x \o y)[i][f]
        BY <1>1, <1>2 DEF LatestBy
      <4>2. PICK i : i = M + j
        OBVIOUS
      <4>3. i \in 1..M + N /\ i - 1 = M + (j - 1) /\ (x \o y)[i] = y[j]
        BY <1>1, <3>1, <4>2
      <4>4. F[i] = IF (x \o y)[i][f] = "" THEN F[i - 1] ELSE (x \o y)[i][f]
        BY <4>1, <4>3
      <4> QED
        BY <4>2, <4>3, <4>4
    <3>3. H[j] = IF y[j][f] = "" THEN H[j - 1] ELSE y[j][f]
      BY <1>5 DEF LatestBy, N
    <3> QED
      BY <2>2, <3>1, <3>2, <3>3
  <2>3. \A j \in 0..N : j \in S
    <3> HIDE DEF S
    <3> QED
      BY <1>1, <2>1, <2>2, UpTo
  <2> QED
    BY <2>3
<1>8. F[M + N] = H[N]
  BY <1>1, <1>7
<1> QED
  BY <1>2, <1>5, <1>8 DEF mid

---------------------------------------------------------------------------
(* Continuity: a resumed snapshot.                                         *)

\* A snapshot of a stream carried on by a tail is the snapshot of both.
LEMMA TailProjects ==
  ASSUME NEW x \in Seq(Event), NEW y \in Seq(Event), x # <<>>, y # <<>>
  PROVE  project_tail(project(x), x, y) = project(x \o y)
<1>1. /\ Len(x) \in Nat /\ Len(y) \in Nat /\ x \o y \in Seq(Event) /\ Len(x \o y) = Len(x) + Len(y)
      /\ \A i \in 1..Len(x) : (x \o y)[i] = x[i]
      /\ \A j \in 1..Len(y) : (x \o y)[Len(x) + j] = y[j]
      /\ Len(x) # 0 /\ Len(y) # 0
  BY ConcatProperties, LenProperties, EmptySeq
<1>2. (x \o y)[1] = x[1] /\ (x \o y)[Len(x \o y)] = y[Len(y)]
  BY <1>1
<1>3. ASSUME NEW c \in Collections
      PROVE  unique(added(unique(added(<<>>, x, c)), y, c)) = unique(added(<<>>, x \o y, c))
  <2>1. <<>> \in Texts
    BY DEF Texts
  <2>2. PICK a \in Texts : a = added(<<>>, x, c)
    BY <2>1, AddedType
  <2>3. PICK b \in Texts : b = added(<<>>, y, c)
    BY <2>1, AddedType
  <2>4. added(<<>>, x \o y, c) = a \o b
    <3>1. added(<<>>, x \o y, c) = added(a, y, c)
      BY <2>1, <2>2, AddedConcat, Zenon
    <3>2. added(a, y, c) = a \o b
      BY <2>3, AddedFromEmpty, Zenon
    <3> QED
      BY <3>1, <3>2, Zenon
  <2>5. PICK d \in Texts : d = unique(a)
    BY UniqueFacts
  <2>6. added(d, y, c) = d \o b
    BY <2>3, AddedFromEmpty
  <2>7. unique(d \o b) = unique(a \o b)
    BY <2>5, UniqueAbsorbs
  <2> QED
    BY <2>2, <2>4, <2>5, <2>6, <2>7
<1>4. ASSUME NEW f \in Scalars
      PROVE  latest(latest("", x, f), y, f) = latest("", x \o y, f)
  <2>1. "" \in STRING
    BY ContinuityAssumption
  <2> QED
    BY <2>1, LatestConcat, Zenon
<1>5. [c \in Collections |-> unique(added(project(x).notes[c], y, c))]
        = [c \in Collections |-> unique(added(<<>>, x \o y, c))]
  <2>1. \A c \in Collections : project(x).notes[c] = unique(added(<<>>, x, c))
    BY DEF project
  <2> QED
    BY <1>3, <2>1
<1>6. [f \in Scalars |-> latest(project(x).scalars[f], y, f)]
        = [f \in Scalars |-> latest("", x \o y, f)]
  <2>1. \A f \in Scalars : project(x).scalars[f] = latest("", x, f)
    BY DEF project
  <2> QED
    BY <1>4, <2>1
<1>7. project(x).attempt = x[1].attempt /\ project(x).revision = x[1].revision
  BY DEF project
<1> QED
  BY <1>2, <1>5, <1>6, <1>7, Zenon DEF project_tail, project

\* An event under another type is an event of the same attempt.
LEMMA EventRenamed ==
  ASSUME NEW e \in Event, NEW t \in EVENT_TYPES \cup STRING
  PROVE  /\ [e EXCEPT !.type = t] \in Event
         /\ [e EXCEPT !.type = t].attempt = e.attempt
BY DEF Event

\* An event with attempt, revision and sequence filled in is an event.
LEMMA EventFilled ==
  ASSUME NEW e \in Event, NEW a \in STRING, NEW r \in STRING, NEW n \in Nat
  PROVE  [e EXCEPT !.attempt = a, !.revision = r, !.sequence = n] \in Event
BY DEF Event

\* A stream of events of one attempt.
Stream(s, a) ==
  /\ s \in Seq(Event)
  /\ s # <<>>
  /\ \A i \in 1..Len(s) : s[i].attempt = a

\* Records that decode are a stream of the attempt.
LEMMA DecodedStream ==
  ASSUME NEW records \in Seq(Event), NEW a, decodes(records, a)
  PROVE  /\ Stream(events_from_attempt_records(records), a)
         /\ Len(events_from_attempt_records(records)) = Len(records)
<1> DEFINE N == Len(records)
           events == events_from_attempt_records(records)
           new(i) == [records[i] EXCEPT !.type = continuity_event_type(records[i])]
<1>1. N \in Nat /\ DOMAIN records = 1..N /\ \A i \in 1..N : records[i] \in Event
  BY LenProperties, ElementOfSeq
<1>2. N # 0 /\ \A i \in 1..N : records[i].attempt = a
  BY <1>1, EmptySeq DEF decodes
<1>3. ASSUME NEW i \in 1..N PROVE new(i) \in Event /\ new(i).attempt = a
  <2>1. PICK e \in Event : e = records[i] /\ e.attempt = a
    BY <1>1, <1>2
  <2>2. e.type \in EVENT_TYPES \cup STRING
    BY DEF Event
  <2>3. continuity_event_type(e) \in EVENT_TYPES \cup STRING
    BY <2>2 DEF continuity_event_type, EVENT_TYPES
  <2> QED
    BY <2>1, <2>3, EventRenamed
<1> HIDE DEF new, N
<1>4. events = [i \in 1..N |-> new(i)]
  BY <1>1 DEF events_from_attempt_records, new
<1>5. events \in Seq(Event) /\ Len(events) = N /\ \A i \in 1..N : events[i].attempt = a
  BY <1>1, <1>3, <1>4
<1>6. events # <<>>
  BY <1>2, <1>5
<1> QED
  BY <1>5, <1>6 DEF Stream, N

\* The tail of a stream is one, and with it the part before is.
LEMMA StreamParts ==
  ASSUME NEW a, NEW x, NEW y, Stream(x, a), Stream(y, a)
  PROVE  Stream(x \o y, a)
<1>1. x \in Seq(Event) /\ y \in Seq(Event) /\ Len(x) \in Nat /\ Len(y) \in Nat /\ Len(x) # 0
  BY LenProperties, EmptySeq DEF Stream
<1>2. /\ x \o y \in Seq(Event) /\ Len(x \o y) = Len(x) + Len(y)
      /\ \A i \in 1..Len(x) + Len(y) : (x \o y)[i] = IF i <= Len(x) THEN x[i] ELSE y[i - Len(x)]
  BY <1>1, ConcatProperties
<1>3. ASSUME NEW i \in 1..Len(x \o y) PROVE (x \o y)[i].attempt = a
  <2>1. CASE i <= Len(x)
    <3>1. (x \o y)[i] = x[i] /\ i \in 1..Len(x)
      BY <1>1, <1>2, <2>1
    <3> QED
      BY <3>1 DEF Stream
  <2>2. CASE ~(i <= Len(x))
    <3>1. (x \o y)[i] = y[i - Len(x)] /\ i - Len(x) \in 1..Len(y)
      BY <1>1, <1>2, <2>2
    <3> QED
      BY <3>1 DEF Stream
  <2> QED
    BY <2>1, <2>2
<1>4. x \o y # <<>>
  BY <1>1, <1>2
<1> QED
  BY <1>2, <1>3, <1>4 DEF Stream

\* What remains of a stream after its first events is a stream.
LEMMA StreamTail ==
  ASSUME NEW a, NEW s, Stream(s, a), NEW n \in Nat, SubSeq(s, n + 1, Len(s)) # <<>>
  PROVE  Stream(SubSeq(s, n + 1, Len(s)), a)
<1> DEFINE t == SubSeq(s, n + 1, Len(s))
<1>1. s \in Seq(Event) /\ Len(s) \in Nat /\ \A i \in 1..Len(s) : s[i] \in Event /\ s[i].attempt = a
  BY LenProperties, ElementOfSeq DEF Stream
<1>2. /\ t \in Seq(Event)
      /\ Len(t) = (IF n + 1 <= Len(s) THEN Len(s) - (n + 1) + 1 ELSE 0)
      /\ \A i \in 1..Len(s) - (n + 1) + 1 : t[i] = s[n + 1 + i - 1]
  <2>1. n + 1 \in Int /\ Len(s) \in Int /\ \A i \in n + 1..Len(s) : s[i] \in Event
    BY <1>1
  <2> QED
    BY <2>1, SubSeqProperties
<1> HIDE DEF t
<1>3. ASSUME NEW i \in 1..Len(t) PROVE t[i].attempt = a
  <2>1. i \in 1..Len(s) - (n + 1) + 1 /\ n + 1 + i - 1 \in 1..Len(s)
    BY <1>1, <1>2
  <2> QED
    BY <1>1, <1>2, <2>1
<1> QED
  BY <1>2, <1>3 DEF Stream, t

\* The log of each attempt is a sequence of events; the task names an attempt or
\* none.
LogInv == log \in [Attempts -> Seq(Event)]

TaskInv == task \in [attempt : Attempts \cup {""}, revision : Revisions]

\* A snapshot is the projection of the stream its root stands for.
SnapInv ==
  snap # NoSnapshot =>
    /\ Stream(snap.event_root, snap.attempt)
    /\ snap = project(snap.event_root)

\* The invariant of continuity.
ContinuityInv == LogInv /\ TaskInv /\ SnapInv

\* The projection of a stream keeps the stream and its attempt.
LEMMA ProjectionFacts ==
  ASSUME NEW a, NEW s, Stream(s, a)
  PROVE  /\ project(s).event_root = s
         /\ project(s).attempt = a
         /\ project(s).last_sequence \in Nat
         /\ project(s) # NoSnapshot
<1>1. s \in Seq(Event) /\ Len(s) \in Nat /\ Len(s) # 0
  BY LenProperties, EmptySeq DEF Stream
<1>2. 1 \in 1..Len(s) /\ Len(s) \in 1..Len(s)
  BY <1>1
<1>3. s[1].attempt = a /\ s[Len(s)] \in Event
  BY <1>1, <1>2, ElementOfSeq DEF Stream
<1>4. s[Len(s)].sequence \in Nat
  BY <1>3 DEF Event
<1>5. project(s).event_root = s /\ project(s).attempt = a /\ project(s).last_sequence \in Nat
  BY <1>3, <1>4 DEF project
<1>6. DOMAIN project(s) # DOMAIN NoSnapshot
  <2>1. "revision" \in DOMAIN project(s)
    BY DEF project
  <2>2. "revision" \notin DOMAIN NoSnapshot
    BY DEF NoSnapshot
  <2> QED
    BY <2>1, <2>2, Zenon
<1> QED
  BY <1>5, <1>6, Zenon

\* The host appends a transition to the log of its attempt.
LEMMA EmitKeeps ==
  ASSUME ContinuityInv, NEW t \in Transitions, emit(t)
  PROVE  ContinuityInv'
<1>1. task.attempt # "" /\ task' = task /\ snap' = snap
  BY DEF emit
<1>2. PICK a \in Attempts : a = task.attempt
  BY <1>1 DEF ContinuityInv, TaskInv
<1>3. PICK r \in STRING : r = task.revision
  BY ContinuityAssumption DEF ContinuityInv, TaskInv
<1>4. PICK old \in Seq(Event) : old = log[a]
  BY DEF ContinuityInv, LogInv
<1>5. PICK e \in Event : e = [t EXCEPT !.attempt = a, !.revision = r, !.sequence = Len(old) + 1]
  <2>1. t \in Event /\ a \in STRING
    BY ContinuityAssumption
  <2>2. Len(old) + 1 \in Nat
    BY LenProperties
  <2> QED
    BY <2>1, <2>2, EventFilled
<1>6. log' = [log EXCEPT ![a] = Append(old, e)]
  BY <1>2, <1>3, <1>4, <1>5 DEF emit, ContinuityInv, LogInv
<1>7. Append(old, e) \in Seq(Event)
  BY AppendProperties
<1>8. LogInv'
  BY <1>6, <1>7 DEF ContinuityInv, LogInv
<1> QED
  BY <1>1, <1>8 DEF ContinuityInv, TaskInv, SnapInv

\* An older copy of an attempt's log is put back; the snapshot keeps the events
\* it was made of.
LEMMA RestoreKeeps ==
  ASSUME ContinuityInv, NEW a \in Attempts, restore(a)
  PROVE  ContinuityInv'
<1>1. task' = task /\ snap' = snap
  BY DEF restore
<1>2. PICK old \in Seq(Event) : old = log[a]
  BY DEF ContinuityInv, LogInv
<1>3. PICK n \in 0..Len(old) - 1 : log' = [log EXCEPT ![a] = SubSeq(old, 1, n)]
  BY <1>2 DEF restore, ContinuityInv, LogInv
<1>4. SubSeq(old, 1, n) \in Seq(Event)
  <2>1. Len(old) \in Nat /\ \A i \in 1..Len(old) : old[i] \in Event
    BY LenProperties, ElementOfSeq
  <2>2. 1 \in Int /\ n \in Int /\ \A i \in 1..n : old[i] \in Event
    BY <2>1
  <2> QED
    BY <2>2, SubSeqProperties
<1>5. LogInv'
  BY <1>3, <1>4 DEF ContinuityInv, LogInv
<1> QED
  BY <1>1, <1>5 DEF ContinuityInv, TaskInv, SnapInv

\* A snapshot taken is the projection of the log it was taken from.
LEMMA TakeSnapshotKeeps ==
  ASSUME ContinuityInv, NEW a \in Attempts, take_snapshot(a)
  PROVE  ContinuityInv'
<1>1. task' = task /\ log' = log /\ decodes(log[a], a) /\ snap' = project(events_from_attempt_records(log[a]))
  BY DEF take_snapshot
<1>2. PICK old \in Seq(Event) : old = log[a]
  BY DEF ContinuityInv, LogInv
<1>3. PICK s : s = events_from_attempt_records(old) /\ Stream(s, a)
  BY <1>1, <1>2, DecodedStream
<1>4. snap' = project(s) /\ snap'.event_root = s /\ snap'.attempt = a
  BY <1>1, <1>2, <1>3, ProjectionFacts
<1>5. SnapInv'
  BY <1>3, <1>4 DEF SnapInv
<1> QED
  BY <1>1, <1>5 DEF ContinuityInv, TaskInv, LogInv

\* resume extends the snapshot by the events after it.
LEMMA ResumeKeeps ==
  ASSUME ContinuityInv, NEW a \in Attempts, NEW revision \in Revisions, resume(a, revision)
  PROVE  ContinuityInv'
<1>1. task' = task /\ log' = log /\ decodes(log[a], a) /\ snap # NoSnapshot /\ snap.attempt = a
  BY DEF resume
<1>2. PICK old \in Seq(Event) : old = log[a]
  BY DEF ContinuityInv, LogInv
<1>3. PICK s : s = events_from_attempt_records(old) /\ Stream(s, a)
  BY <1>1, <1>2, DecodedStream
<1>4. PICK root : root = snap.event_root /\ Stream(root, a) /\ snap = project(root)
  BY <1>1 DEF ContinuityInv, SnapInv
<1>5. PICK n \in Nat : n = snap.last_sequence
  BY <1>4, ProjectionFacts
<1>6. PICK tail : tail = SubSeq(s, n + 1, Len(s))
  OBVIOUS
<1>7. tail # <<>> /\ SubSeq(s, 1, n) = root /\ snap' = project_tail(snap, root, tail)
  BY <1>2, <1>3, <1>4, <1>5, <1>6 DEF resume, extends_snapshot
<1>8. Stream(tail, a)
  BY <1>3, <1>6, <1>7, StreamTail
<1>9. Stream(root \o tail, a)
  BY <1>4, <1>8, StreamParts
<1>10. project_tail(project(root), root, tail) = project(root \o tail)
  BY <1>4, <1>8, TailProjects DEF Stream
<1>11. PICK all : all = root \o tail
  OBVIOUS
<1>12. snap' = project(all) /\ snap'.event_root = all /\ snap'.attempt = a /\ Stream(all, a)
  <2>1. Stream(all, a)
    BY <1>9, <1>11
  <2>2. snap' = project(all)
    BY <1>4, <1>7, <1>10, <1>11, Zenon
  <2>3. project(all).event_root = all /\ project(all).attempt = a
    BY <2>1, ProjectionFacts
  <2> QED
    BY <2>1, <2>2, <2>3, Zenon
<1>13. SnapInv'
  BY <1>12 DEF SnapInv
<1> QED
  BY <1>1, <1>13 DEF ContinuityInv, TaskInv, LogInv

\* The task goes on with another attempt or revision; the snapshot stays.
LEMMA RetargetKeeps ==
  ASSUME ContinuityInv, retarget
  PROVE  ContinuityInv'
<1>1. PICK a \in Attempts, r \in Revisions :
        log' = log /\ snap' = snap /\ task' = [attempt |-> a, revision |-> r]
  BY Zenon DEF retarget
<1>2. TaskInv'
  BY <1>1 DEF TaskInv
<1> QED
  BY <1>1, <1>2 DEF ContinuityInv, LogInv, SnapInv

\* A note of a snapshot was added by an event of its stream.
LEMMA NotesRecorded ==
  ASSUME NEW a, NEW s, Stream(s, a), NEW c \in Collections,
         NEW i \in DOMAIN project(s).notes[c]
  PROVE  \E e \in ToSet(s) : e.attempt = a /\ Contains(noted(e)[c], project(s).notes[c][i])
<1>1. s \in Seq(Event) /\ <<>> \in Texts
  BY DEF Stream, Texts
<1>2. PICK t \in Texts : t = added(<<>>, s, c)
  BY <1>1, AddedType
<1>3. PICK u \in Texts : u = unique(t) /\ \A k \in 1..Len(u) : \E m \in 1..Len(t) : u[k] = t[m]
  BY UniqueFacts
<1>4. project(s).notes[c] = u
  BY <1>2, <1>3 DEF project
<1>5. i \in 1..Len(u)
  BY <1>3, <1>4, LenProperties DEF Texts
<1>6. PICK m \in 1..Len(t) : u[i] = t[m]
  BY <1>3, <1>5
<1>7. PICK k \in 1..Len(s) : Contains(noted(s[k])[c], t[m])
  BY <1>1, <1>2, AddedComesFrom
<1>8. s[k] \in ToSet(s) /\ s[k].attempt = a
  BY <1>1, LenProperties DEF ToSet, Stream
<1> QED
  BY <1>4, <1>6, <1>7, <1>8

\* The invariant is what ResumeExact asks.
LEMMA ContinuityInvImplies ==
  ASSUME ContinuityInv
  PROVE  ResumeExact
<1> SUFFICES ASSUME snap # NoSnapshot
             PROVE  /\ snap = project(snap.event_root)
                    /\ \A requested \in Attempts \cup {""} :
                        rehydrates(task, snap, requested) =>
                          LET p == build_rehydration_projection(task, snap, requested) IN
                          /\ task.attempt \in {"", p.attempt}
                          /\ \A c \in Collections : \A i \in DOMAIN p.continuation[c] :
                              \E e \in ToSet(snap.event_root) :
                                e.attempt = p.attempt /\ Contains(noted(e)[c], p.continuation[c][i])
  BY DEF ResumeExact
<1>1. PICK s, a : s = snap.event_root /\ a = snap.attempt /\ Stream(s, a) /\ snap = project(s)
  BY DEF ContinuityInv, SnapInv
<1>2. ASSUME NEW requested \in Attempts \cup {""}, rehydrates(task, snap, requested)
      PROVE  LET p == build_rehydration_projection(task, snap, requested) IN
             p.attempt = a /\ task.attempt \in {"", a} /\ p.continuation = project(s).notes
  BY <1>1, <1>2 DEF rehydrates, build_rehydration_projection
<1>3. ASSUME NEW c \in Collections, NEW i \in DOMAIN project(s).notes[c]
      PROVE  \E e \in ToSet(s) : e.attempt = a /\ Contains(noted(e)[c], project(s).notes[c][i])
  BY <1>1, <1>3, NotesRecorded
<1> QED
  BY <1>1, <1>2, <1>3

\* However events are appended, logs put back and tasks retargeted between two
\* resumptions, a snapshot extended by the events after it is what projecting the
\* whole chain would give, and a rehydration repeats only what events of its
\* attempt recorded (resume, _project_tail, build_rehydration_projection).
THEOREM ResumeIsExact == ContinuitySpec => []ResumeExact
<1>1. ContinuityInit => ContinuityInv
  <2> SUFFICES ASSUME ContinuityInit PROVE ContinuityInv
    OBVIOUS
  <2>1. LogInv
    <3>1. <<>> \in Seq(Event)
      OBVIOUS
    <3>2. log = [a \in Attempts |-> <<>>]
      BY Zenon DEF ContinuityInit
    <3> QED
      BY <3>1, <3>2, Zenon DEF LogInv
  <2>2. TaskInv
    BY Zenon DEF ContinuityInit, TaskInv
  <2>3. SnapInv
    BY Zenon DEF ContinuityInit, SnapInv
  <2> QED
    BY <2>1, <2>2, <2>3 DEF ContinuityInv
<1>2. ContinuityInv /\ [ContinuityNext]_continuity_vars => ContinuityInv'
  <2> SUFFICES ASSUME ContinuityInv, [ContinuityNext]_continuity_vars PROVE ContinuityInv'
    OBVIOUS
  <2>1. ASSUME NEW t \in Transitions, emit(t) PROVE ContinuityInv'
    BY <2>1, EmitKeeps
  <2>2. ASSUME NEW a \in Attempts, restore(a) PROVE ContinuityInv'
    BY <2>2, RestoreKeeps
  <2>3. ASSUME NEW a \in Attempts, take_snapshot(a) PROVE ContinuityInv'
    BY <2>3, TakeSnapshotKeeps
  <2>4. ASSUME NEW a \in Attempts, NEW revision \in Revisions, resume(a, revision) PROVE ContinuityInv'
    BY <2>4, ResumeKeeps
  <2>5. CASE retarget
    BY <2>5, RetargetKeeps
  <2>6. CASE UNCHANGED continuity_vars
    BY <2>6 DEF continuity_vars, ContinuityInv, LogInv, TaskInv, SnapInv
  <2> QED
    BY <2>1, <2>2, <2>3, <2>4, <2>5, <2>6 DEF ContinuityNext
<1>3. ContinuityInv => ResumeExact
  BY ContinuityInvImplies
<1> QED
  BY <1>1, <1>2, <1>3, PTL DEF ContinuitySpec

---------------------------------------------------------------------------
(* ModelContext: segments and receipts.                                    *)

\* A sequence of any kind.
Sequence(s) == \E S : s \in Seq(S)

\* The length and the domain of a sequence.
LEMMA SequenceFacts ==
  ASSUME NEW s, Sequence(s)
  PROVE  Len(s) \in Nat /\ DOMAIN s = 1..Len(s)
<1>1. PICK S : s \in Seq(S)
  BY DEF Sequence
<1> QED
  BY <1>1, LenProperties

\* 1..n has n members.
LEMMA CountingInterval ==
  ASSUME NEW n \in Nat
  PROVE  IsFiniteSet(1..n) /\ Cardinality(1..n) = n
<1>1. IsFiniteSet(1..n) /\ Cardinality(1..n) = IF 1 > n THEN 0 ELSE n - 1 + 1
  BY FS_Interval
<1> QED
  BY <1>1

\* in_order lists what is chosen, each position once.
LEMMA InOrder ==
  ASSUME NEW chosen, chosen \subseteq 1..MaxBlocks
  PROVE  /\ in_order(chosen) \in Seq(Nat)
         /\ ToSet(in_order(chosen)) = chosen
         /\ Len(in_order(chosen)) = Cardinality(chosen)
<1> DEFINE N == MaxBlocks
           next(v, i) == IF i \in chosen THEN Append(v, i) ELSE v
           list == CHOOSE f : f = [i \in 0..N |-> IF i = 0 THEN <<>> ELSE next(f[i - 1], i)]
<1>1. N \in Nat
  BY BundleAssumption
<1>2. \A v \in Seq(Nat), i \in 1..N : next(v, i) \in Seq(Nat)
  BY <1>1, AppendProperties
<1>3. in_order(chosen) = list[N]
  BY DEF in_order
<1> HIDE DEF next, N
<1>4. PICK f \in [0..N -> Seq(Nat)] : f[0] = <<>> /\ \A i \in 1..N : f[i] = next(f[i - 1], i)
  <2> DEFINE rule == [p \in Seq(Nat) \X (1..N) |-> next(p[1], p[2])]
  <2>1. RuleOn(Seq(Nat), N, rule)
    BY <1>2 DEF RuleOn
  <2>2. \A v \in Seq(Nat), i \in 1..N : rule[<<v, i>>] = next(v, i)
    OBVIOUS
  <2> HIDE DEF rule
  <2>3. PICK f : Recursion(Seq(Nat), <<>>, rule, N, f)
    <3>1. <<>> \in Seq(Nat)
      OBVIOUS
    <3> QED
      BY <1>1, <2>1, <3>1, RecursionExists
  <2>4. /\ f \in [0..N -> Seq(Nat)] /\ f[0] = <<>>
        /\ \A i \in 1..N : f[i] = rule[<<f[i - 1], i>>]
    BY <2>3 DEF Recursion
  <2>5. \A i \in 1..N : f[i - 1] \in Seq(Nat)
    BY <1>1, <2>4
  <2> QED
    BY <2>2, <2>4, <2>5
<1>5. f = [i \in 0..N |-> IF i = 0 THEN <<>> ELSE next(f[i - 1], i)]
  <2> DEFINE g == [i \in 0..N |-> IF i = 0 THEN <<>> ELSE next(f[i - 1], i)]
  <2>1. \A i \in 0..N : i = 0 \/ i \in 1..N
    BY <1>1
  <2>2. \A i \in 0..N : f[i] = g[i]
    BY <1>4, <2>1
  <2> QED
    BY <2>2
<1>6. list = [i \in 0..N |-> IF i = 0 THEN <<>> ELSE next(list[i - 1], i)]
  BY <1>5
<1> HIDE DEF list
<1>7. list[0] = <<>> /\ \A i \in 1..N : list[i] = next(list[i - 1], i)
  <2> HIDE DEF next
  <2>1. \A i \in 0..N : list[i] = IF i = 0 THEN <<>> ELSE next(list[i - 1], i)
    BY <1>6
  <2>2. 0 \in 0..N /\ \A i \in 1..N : i \in 0..N /\ i # 0
    BY <1>1
  <2> QED
    BY <2>1, <2>2
<1> DEFINE part(i) == chosen \cap (1..i)
           Good(s, i) == /\ s \in Seq(Nat)
                         /\ ToSet(s) = part(i)
                         /\ IsFiniteSet(part(i)) /\ Len(s) = Cardinality(part(i))
           S == {i \in 0..N : Good(list[i], i)}
<1>8. 0 \in S
  <2>1. part(0) = {} /\ 0 \in 0..N
    BY <1>1
  <2>2. <<>> \in Seq(Nat) /\ ToSet(<<>>) = {} /\ Len(<<>>) = 0
    BY DEF ToSet
  <2>3. IsFiniteSet({}) /\ Cardinality({}) = 0
    BY FS_EmptySet
  <2>4. Good(<<>>, 0)
    BY <2>1, <2>2, <2>3
  <2> HIDE DEF Good
  <2> QED
    BY <1>7, <2>1, <2>4
<1>9. ASSUME NEW i \in 1..N, i - 1 \in S PROVE i \in S
  <2>1. PICK v : v = list[i - 1] /\ Good(v, i - 1)
    BY <1>9
  <2>2. list[i] = next(v, i) /\ i \in 0..N /\ i \in Nat
    BY <1>1, <1>7, <2>1
  <2>3. Len(v) \in Nat /\ DOMAIN v = 1..Len(v)
    BY <2>1, LenProperties
  <2>4. CASE i \notin chosen
    <3>1. part(i) = part(i - 1)
      BY <1>1, <2>4
    <3>2. Good(v, i)
      BY <2>1, <3>1
    <3>3. next(v, i) = v
      BY <2>4 DEF next
    <3> HIDE DEF Good
    <3> QED
      BY <2>2, <3>2, <3>3
  <2>5. CASE i \in chosen
    <3> DEFINE w == Append(v, i)
    <3>1. part(i) = part(i - 1) \cup {i} /\ i \notin part(i - 1)
      BY <1>1, <2>5
    <3>2. /\ w \in Seq(Nat) /\ Len(w) = Len(v) + 1
          /\ \A k \in 1..Len(v) : w[k] = v[k]
          /\ w[Len(v) + 1] = i /\ DOMAIN w = 1..Len(v) + 1
      <4>1. v \in Seq(Nat)
        BY <2>1
      <4>2. /\ w \in Seq(Nat) /\ Len(w) = Len(v) + 1
            /\ \A k \in 1..Len(v) : w[k] = v[k]
            /\ w[Len(v) + 1] = i
        BY <2>2, <4>1, AppendProperties
      <4>3. DOMAIN w = 1..Len(w)
        BY <4>2, LenProperties
      <4> HIDE DEF w
      <4> QED
        BY <4>2, <4>3
    <3> HIDE DEF w
    <3>3. ToSet(w) = ToSet(v) \cup {i}
      <4>1. \A k \in 1..Len(v) + 1 : k = Len(v) + 1 \/ k \in 1..Len(v)
        BY <2>3
      <4>2. 1..Len(v) \subseteq 1..Len(v) + 1 /\ Len(v) + 1 \in 1..Len(v) + 1
        BY <2>3
      <4> QED
        BY <2>3, <3>2, <4>1, <4>2 DEF ToSet
    <3>4. /\ IsFiniteSet(part(i - 1) \cup {i})
          /\ Cardinality(part(i - 1) \cup {i}) = Cardinality(part(i - 1)) + 1
      BY <2>1, <3>1, FS_AddElement
    <3>5. Good(w, i)
      BY <2>1, <3>1, <3>2, <3>3, <3>4
    <3>6. next(v, i) = w
      BY <2>5 DEF next, w
    <3> HIDE DEF Good
    <3> QED
      BY <2>2, <3>5, <3>6
  <2> QED
    BY <2>4, <2>5
<1>10. Good(list[N], N)
  <2>1. \A i \in 0..N : i \in S
    <3> HIDE DEF S
    <3> QED
      BY <1>1, <1>8, <1>9, UpTo
  <2>2. N \in 0..N
    BY <1>1
  <2> HIDE DEF Good
  <2> QED
    BY <2>1, <2>2
<1>11. part(N) = chosen
  BY DEF N
<1> QED
  BY <1>3, <1>10, <1>11

\* The receipt accounts for every segment of p once.
Whole(r, p) ==
  /\ r.visible \in Seq(Nat)
  /\ DOMAIN r.hidden \subseteq 1..Len(p)
  /\ r.recalled \subseteq DOMAIN r.hidden
  /\ Len(r.visible) + Cardinality(DOMAIN r.hidden \ r.recalled) = Len(p)
  /\ ToSet(r.visible) \cup (DOMAIN r.hidden \ r.recalled) = 1..Len(p)

\* A payload as entry and report keep it.
Payload(p) == Sequence(p) /\ Len(p) <= MaxBlocks

\* Admission leaves a receipt that is whole: each segment is visible or hidden,
\* and one it hides is unprotected and was seen before.
LEMMA AdmissionWhole ==
  ASSUME NEW p, Payload(p), NEW rules, NEW r, r = admission_receipt(p, rules)
  PROVE  /\ Whole(r, p)
         /\ \A i \in DOMAIN r.hidden :
              /\ r.hidden[i] = p[i]
              /\ ~classify_block(p, i)
              /\ p[i] \in rules.seen
<1>1. Len(p) \in Nat /\ DOMAIN p = 1..Len(p) /\ Len(p) <= MaxBlocks
  BY SequenceFacts DEF Payload
<1> DEFINE N == Len(p)
<1>2. PICK hid : hid = admit_artifact(p, rules).hidden
  OBVIOUS
<1>3. /\ hid \subseteq 1..N
      /\ \A i \in hid : ~classify_block(p, i) /\ p[i] \in rules.seen
  BY <1>1, <1>2 DEF admit_artifact, decide_visibility, effective_protection_reasons
<1>4. /\ r.visible = in_order(1..N \ hid)
      /\ r.hidden = [i \in hid |-> p[i]]
      /\ r.recalled = {}
  BY <1>1, <1>2 DEF admission_receipt, build_admission_receipt
<1>5. 1..N \ hid \subseteq 1..MaxBlocks
  BY <1>1, BundleAssumption
<1>6. /\ r.visible \in Seq(Nat)
      /\ ToSet(r.visible) = 1..N \ hid
      /\ Len(r.visible) = Cardinality(1..N \ hid)
  BY <1>4, <1>5, InOrder
<1>7. DOMAIN r.hidden = hid /\ hid \ r.recalled = hid
  BY <1>4
<1>8. Cardinality(1..N \ hid) + Cardinality(hid) = N
  <2>1. IsFiniteSet(1..N) /\ Cardinality(1..N) = N
    BY <1>1, CountingInterval
  <2>2. IsFiniteSet(hid) /\ IsFiniteSet(1..N \ hid)
    BY <1>3, <2>1, FS_Subset
  <2>3. Cardinality(1..N \ hid) = Cardinality(1..N) - Cardinality(1..N \cap hid)
    BY <2>1, FS_Difference
  <2>4. 1..N \cap hid = hid
    BY <1>3
  <2>5. Cardinality(hid) \in Nat
    BY <2>2, FS_CardinalityType
  <2> QED
    <3>1. PICK m, h : m = Cardinality(1..N \ hid) /\ h = Cardinality(hid)
      OBVIOUS
    <3>2. m = N - h /\ h \in Nat
      BY <2>1, <2>3, <2>4, <2>5, <3>1
    <3>3. m + h = N
      BY <1>1, <3>2
    <3> QED
      BY <3>1, <3>3
<1>9. Whole(r, p)
  <2>1. (1..N \ hid) \cup hid = 1..N
    BY <1>3
  <2> QED
    BY <1>3, <1>4, <1>6, <1>7, <1>8, <2>1 DEF Whole
<1> QED
  BY <1>3, <1>4, <1>7, <1>9

\* The elements of two sequences joined.
LEMMA ConcatSet ==
  ASSUME NEW v \in Seq(Nat), NEW u \in Seq(Nat)
  PROVE  ToSet(v \o u) = ToSet(v) \cup ToSet(u)
<1> DEFINE w == v \o u
           M == Len(v)
           N == Len(u)
<1>1. /\ M \in Nat /\ N \in Nat /\ w \in Seq(Nat) /\ Len(w) = M + N
      /\ \A k \in 1..M : w[k] = v[k]
      /\ \A k \in 1..N : w[M + k] = u[k]
  BY ConcatProperties, LenProperties
<1>2. DOMAIN w = 1..M + N /\ DOMAIN v = 1..M /\ DOMAIN u = 1..N
  BY <1>1, LenProperties
<1> HIDE DEF w, M, N
<1>3. ASSUME NEW k \in 1..M + N PROVE w[k] \in ToSet(v) \cup ToSet(u)
  <2>1. CASE k \in 1..M
    BY <1>1, <1>2, <2>1 DEF ToSet
  <2>2. CASE k \notin 1..M
    <3>1. k - M \in 1..N /\ k = M + (k - M)
      BY <1>1, <2>2
    <3>2. PICK j \in 1..N : k = M + j
      BY <3>1
    <3> QED
      BY <1>1, <1>2, <3>2 DEF ToSet
  <2> QED
    BY <2>1, <2>2
<1>4. ASSUME NEW k \in 1..M PROVE v[k] \in ToSet(w)
  <2>1. k \in DOMAIN w
    BY <1>1, <1>2
  <2> QED
    BY <1>1, <2>1 DEF ToSet
<1>5. ASSUME NEW k \in 1..N PROVE u[k] \in ToSet(w)
  <2>1. PICK j : j = M + k
    OBVIOUS
  <2>2. j \in DOMAIN w /\ w[j] = u[k]
    BY <1>1, <1>2, <2>1
  <2> QED
    BY <2>2 DEF ToSet
<1>6. ToSet(w) \subseteq ToSet(v) \cup ToSet(u)
  BY <1>2, <1>3 DEF ToSet
<1>7. ToSet(v) \subseteq ToSet(w) /\ ToSet(u) \subseteq ToSet(w)
  BY <1>2, <1>4, <1>5 DEF ToSet
<1> QED
  BY <1>6, <1>7 DEF w

\* restore_visible_text moves a segment from hidden to visible and loses none.
LEMMA RecallWhole ==
  ASSUME NEW p, Payload(p), NEW r, Whole(r, p), NEW i \in DOMAIN r.hidden
  PROVE  Whole(restore_visible_text(r, {i}), p)
<1> DEFINE new == restore_visible_text(r, {i})
           left == DOMAIN r.hidden \ r.recalled
<1>1. /\ Len(p) \in Nat /\ Len(p) <= MaxBlocks /\ MaxBlocks \in Nat
      /\ r.visible \in Seq(Nat) /\ DOMAIN r.hidden \subseteq 1..Len(p)
      /\ r.recalled \subseteq DOMAIN r.hidden
      /\ Len(r.visible) + Cardinality(left) = Len(p)
      /\ ToSet(r.visible) \cup left = 1..Len(p)
  BY SequenceFacts, BundleAssumption DEF Payload, Whole
<1>2. {i} \cap DOMAIN r.hidden = {i}
  OBVIOUS
<1>3. PICK more : more = in_order({i} \ r.recalled)
  OBVIOUS
<1>4. /\ new.visible = r.visible \o more
      /\ new.hidden = r.hidden
      /\ new.recalled = r.recalled \cup {i}
  BY <1>2, <1>3 DEF restore_visible_text
<1>5. /\ more \in Seq(Nat) /\ ToSet(more) = {i} \ r.recalled
      /\ Len(more) = Cardinality({i} \ r.recalled)
  <2>1. {i} \ r.recalled \subseteq 1..MaxBlocks
    BY <1>1
  <2> QED
    BY <1>3, <2>1, InOrder
<1> HIDE DEF new
<1>6. PICK v : v = r.visible /\ v \in Seq(Nat) /\ Len(v) \in Nat /\ DOMAIN v = 1..Len(v)
  BY <1>1, LenProperties
<1>7. Len(more) \in Nat /\ DOMAIN more = 1..Len(more)
  BY <1>5, LenProperties
<1>8. v \o more \in Seq(Nat) /\ Len(v \o more) = Len(v) + Len(more)
  BY <1>5, <1>6, ConcatProperties
<1>9. ToSet(v \o more) = ToSet(v) \cup ToSet(more)
  BY <1>5, <1>6, ConcatSet
<1>10. IsFiniteSet(left) /\ Cardinality(left) \in Nat
  <2>1. IsFiniteSet(1..Len(p)) /\ left \subseteq 1..Len(p)
    BY <1>1, CountingInterval
  <2> QED
    BY <2>1, FS_Subset, FS_CardinalityType
<1>11. CASE i \in r.recalled
  <2>1. {i} \ r.recalled = {} /\ r.recalled \cup {i} = r.recalled
    BY <1>11
  <2>2. Len(more) = 0 /\ ToSet(more) = {}
    BY <1>5, <2>1, FS_EmptySet
  <2>3. Len(v \o more) = Len(v) /\ ToSet(v \o more) = ToSet(v)
    BY <1>6, <1>8, <1>9, <2>2
  <2> QED
    BY <1>1, <1>4, <1>6, <1>8, <2>1, <2>3 DEF Whole, new
<1>12. CASE i \notin r.recalled
  <2>1. {i} \ r.recalled = {i} /\ i \in left /\ DOMAIN r.hidden \ (r.recalled \cup {i}) = left \ {i}
    BY <1>12
  <2>2. Len(more) = 1 /\ ToSet(more) = {i}
    BY <1>5, <2>1, FS_Singleton
  <2>3. Cardinality(left \ {i}) = Cardinality(left) - 1
    BY <1>10, <2>1, FS_RemoveElement
  <2>4. Len(v \o more) + Cardinality(left \ {i}) = Len(p)
    BY <1>1, <1>6, <1>8, <1>10, <2>2, <2>3
  <2>5. ToSet(v \o more) \cup (left \ {i}) = 1..Len(p)
    BY <1>1, <1>6, <1>9, <2>1, <2>2
  <2> HIDE DEF left
  <2>6. /\ new.visible \in Seq(Nat) /\ DOMAIN new.hidden = DOMAIN r.hidden
        /\ Len(new.visible) + Cardinality(DOMAIN new.hidden \ new.recalled) = Len(p)
        /\ ToSet(new.visible) \cup (DOMAIN new.hidden \ new.recalled) = 1..Len(p)
    BY <1>4, <1>6, <1>8, <2>1, <2>4, <2>5
  <2>7. new.recalled \subseteq DOMAIN new.hidden
    BY <1>1, <1>4
  <2> QED
    BY <1>1, <2>6, <2>7 DEF Whole, new
<1> QED
  BY <1>11, <1>12

---------------------------------------------------------------------------
(* ModelContext: bundles and packages.                                     *)

\* An entry never shows a receipt-only capability, and its payload is bounded.
GoodEntry(e) ==
  /\ e.name \in ReceiptOnly => ~e.visible
  /\ Payload(e.payload)

\* A bundle as the runtime seals it.
GoodBundle(b) ==
  /\ b.bundle_hash = b.body
  /\ b.body.plan # ""
  /\ \A e \in b.body.entries : GoodEntry(e)

\* All bundles given out are good.
GoodBundles(B) == \A b \in B : GoodBundle(b)

\* What a request may carry: nothing, or a digest the runtime gave out.
Carried(b, B) == b = NoBundle \/ \E c \in B : b.bundle_hash = c.body

\* Evidence in a package was produced for its plan, at one revision.
Backed(pk, B) ==
  /\ \A p \in pk.payloads : \E b \in B : \E e \in b.body.entries :
       /\ b.body.plan = pk.plan
       /\ e.name = p.capability
       /\ e.payload = p.source
       /\ entry_did_real_work(e)
  /\ pk.hints # "" => \A v \in pk.bundles : v.revision = pk.hints

\* What a package hides was seen, and nothing protects it.
Hiding(pk, seen) ==
  \A p \in pk.payloads :
    /\ Sequence(p.blocks)
    /\ \A i \in p.hidden : ~classify_block(p.source, i) /\ p.source[i] \in seen

\* The report has the text of what a package hides.
Saved(pk, report) ==
  \A p \in pk.payloads : \A i \in p.hidden : \E r \in report :
    /\ r.capability = p.capability
    /\ i \in DOMAIN r.receipt.hidden
    /\ r.receipt.hidden[i] = p.source[i]

\* Every receipt of a report is whole over its payload.
ReportWhole(report) == \A r \in report : Payload(r.source) /\ Whole(r.receipt, r.source)

\* bundle_entry makes a good entry of any stage record.
LEMMA EntryGood ==
  ASSUME NEW name, NEW st, NEW phase, st.payload \in Seq(STRING) \/ st = NoStage
  PROVE  GoodEntry(bundle_entry(name, st, phase)) /\ bundle_entry(name, st, phase).name = name
<1> DEFINE e == bundle_entry(name, st, phase)
           p == extract_bounded_consumer_payload(st)
<1>1. e.name = name /\ e.payload = p /\ (e.visible => name \notin ReceiptOnly)
  BY DEF bundle_entry
<1>2. Payload(<<>>) /\ Payload(<<"truncated">>)
  <2>1. <<>> \in Seq({}) /\ Len(<<>>) = 0
    OBVIOUS
  <2>2. <<"truncated">> \in Seq({"truncated"}) /\ Len(<<"truncated">>) = 1
    OBVIOUS
  <2>3. 0 <= MaxBlocks /\ 1 <= MaxBlocks
    BY BundleAssumption
  <2> QED
    BY <2>1, <2>2, <2>3 DEF Payload, Sequence
<1>3. Payload(p)
  <2>1. CASE status(st) # "REAL_INVOKED"
    BY <1>2, <2>1 DEF extract_bounded_consumer_payload
  <2>2. CASE status(st) = "REAL_INVOKED" /\ Len(st.payload) > MaxBlocks
    BY <1>2, <2>2 DEF extract_bounded_consumer_payload
  <2>3. CASE status(st) = "REAL_INVOKED" /\ ~(Len(st.payload) > MaxBlocks)
    <3>1. st # NoStage
      <4>1. NoStage.ran = "absent"
        BY DEF NoStage
      <4>2. st.ran # "absent"
        BY <2>3 DEF status, PENDING
      <4> QED
        BY <4>1, <4>2
    <3>2. st.payload \in Seq(STRING)
      BY <3>1
    <3>3. Len(st.payload) <= MaxBlocks
      BY <2>3, <3>2, LenProperties, BundleAssumption
    <3>4. p = st.payload
      BY <2>3 DEF extract_bounded_consumer_payload
    <3> QED
      BY <3>2, <3>3, <3>4 DEF Payload, Sequence
  <2> QED
    BY <2>1, <2>2, <2>3
<1> QED
  BY <1>1, <1>3 DEF GoodEntry

\* A sealed bundle hashes its own body.
LEMMA SealedFields ==
  ASSUME NEW plan, NEW revision, NEW selected, NEW entries, NEW preflight, NEW resealed,
         NEW b, b = sealed(plan, revision, selected, entries, preflight, resealed)
  PROVE  /\ b.bundle_hash = b.body
         /\ b.body.plan = plan /\ b.body.revision = revision
         /\ b.body.selected = selected /\ b.body.entries = entries
BY DEF sealed, compute_bundle_hash

\* No bundle is of no plan.
LEMMA NoBundlePlan == NoBundle.body.plan = ""
BY DEF NoBundle, sealed

\* The entries a prompt is made of are entries of the bundle that did real work.
LEMMA ProjectedEntries ==
  ASSUME NEW b
  PROVE  /\ b = NoBundle => with_payload(b) = {}
         /\ \A e \in with_payload(b) : e \in b.body.entries /\ entry_did_real_work(e)
BY DEF with_payload, projected_entries, prompt_visible_entries

\* A bundle of the plan and revision, with the body of one the runtime sealed.
Genuine(b, B, plan, revision) ==
  /\ \E c \in B : c.body = b.body
  /\ b.body.plan = plan /\ b.body.revision = revision /\ revision # ""
  /\ \A e \in b.body.entries : GoodEntry(e)

\* An admissible bundle is genuine.
LEMMA AdmissibleGenuine ==
  ASSUME NEW B, GoodBundles(B), NEW b, Carried(b, B), b # NoBundle,
         NEW plan, NEW revision, evidence_admissible(b, plan, revision)
  PROVE  Genuine(b, B, plan, revision)
<1>1. PICK c \in B : b.bundle_hash = c.body
  BY DEF Carried
<1>2. /\ b.bundle_hash = b.body /\ b.body.plan = plan /\ b.body.revision = revision /\ revision # ""
  BY DEF evidence_admissible, assert_consumer_bundle_intact, verify, compute_bundle_hash
<1>3. c.body = b.body
  BY <1>1, <1>2
<1> QED
  BY <1>1, <1>2, <1>3 DEF Genuine, GoodBundles, GoodBundle

\* The payloads a package may have, from a bundle that is none or genuine.
LEMMA PackageBacked ==
  ASSUME NEW B, GoodBundles(B), NEW b, Carried(b, B), NEW plan, NEW revision,
         b # NoBundle => evidence_admissible(b, plan, revision),
         NEW payloads,
         \A p \in payloads : \E e \in with_payload(b) : p.capability = e.name /\ p.source = e.payload,
         NEW hints, hints # "" /\ revision # "" => hints = revision,
         NEW attempt, NEW channel, NEW provider
  PROVE  Backed(build_planner_consumer_context_package(b, plan, attempt, payloads, channel, provider, hints), B)
<1>1. PICK pk : pk = build_planner_consumer_context_package(b, plan, attempt, payloads, channel, provider, hints)
  OBVIOUS
<1>2. /\ pk.plan = plan /\ pk.payloads = payloads /\ pk.hints = hints
      /\ pk.bundles = IF b = NoBundle THEN {} ELSE {compute_visible_bundle_hash(b.body)}
  BY <1>1 DEF build_planner_consumer_context_package, build_context_assembly_contract
<1>3. ASSUME NEW p \in payloads
      PROVE  \E c \in B : \E e \in c.body.entries :
               /\ c.body.plan = pk.plan /\ e.name = p.capability /\ e.payload = p.source
               /\ entry_did_real_work(e)
  <2>1. PICK e \in with_payload(b) : p.capability = e.name /\ p.source = e.payload
    OBVIOUS
  <2>2. b # NoBundle /\ e \in b.body.entries /\ entry_did_real_work(e)
    BY <2>1, ProjectedEntries
  <2>3. PICK c \in B : c.body = b.body /\ b.body.plan = plan
    <3>1. evidence_admissible(b, plan, revision)
      BY <2>2
    <3>2. Genuine(b, B, plan, revision)
      BY <2>2, <3>1, AdmissibleGenuine
    <3> QED
      BY <3>2 DEF Genuine
  <2> QED
    BY <1>2, <2>1, <2>2, <2>3
<1>4. ASSUME hints # "", NEW v \in pk.bundles PROVE v.revision = hints
  <2>1. b # NoBundle /\ v = compute_visible_bundle_hash(b.body)
    BY <1>2, <1>4
  <2>2. v.revision = b.body.revision
    BY <2>1 DEF compute_visible_bundle_hash
  <2>3. Genuine(b, B, plan, revision)
    BY <2>1, AdmissibleGenuine
  <2> QED
    BY <1>4, <2>2, <2>3 DEF Genuine
<1> QED
  BY <1>1, <1>2, <1>3, <1>4 DEF Backed

\* The blocks of an admitted payload are a sequence.
LEMMA VisibleBlocks ==
  ASSUME NEW e, NEW r, r.visible \in Seq(Nat)
  PROVE  Sequence(context_admitted_payload(e, r).blocks)
<1> DEFINE N == Len(r.visible)
           f == [k \in 1..N |-> e.payload[r.visible[k]]]
           S == {f[k] : k \in 1..N}
<1>1. N \in Nat /\ DOMAIN r.visible = 1..N
  BY LenProperties
<1>2. context_admitted_payload(e, r).blocks = f
  BY <1>1 DEF context_admitted_payload
<1>3. f \in Seq(S)
  <2>1. \A k \in 1..N : f[k] \in S
    OBVIOUS
  <2>2. f \in [1..N -> S]
    BY <2>1
  <2> HIDE DEF f, S, N
  <2> QED
    BY <1>1, <2>2
<1> QED
  BY <1>2, <1>3 DEF Sequence

\* The worker's package and the report kept with it.
LEMMA WorkerPackage ==
  ASSUME NEW B, GoodBundles(B), NEW r, Carried(r.bundle, B),
         r.bundle # NoBundle => evidence_admissible(r.bundle, r.plan, r.revision),
         NEW smaller \in BOOLEAN, NEW pk, NEW report,
         pk = build_worker_context_package(r, trusted_repository_identity(r.authorized, r.revision), smaller),
         report = admission_receipts(r.bundle, r.policy, smaller)
  PROVE  Backed(pk, B) /\ Hiding(pk, r.policy.seen) /\ Saved(pk, report) /\ ReportWhole(report)
<1> DEFINE b == r.bundle
           payloads == admit_worker_payloads(b, r.policy, smaller)
           hints == compose_verified_repository_query_hints(r.query,
                      trusted_repository_identity(r.authorized, r.revision))
           reduced == r.policy.kind = "valid" /\ smaller
           kept(e) == [capability |-> e.name, source |-> e.payload,
                       receipt |-> admission_receipt(e.payload, r.policy)]
<1>1. pk = build_planner_consumer_context_package(b, r.plan, r.attempt, payloads, "worker_registry",
             r.provider, hints)
  BY DEF build_worker_context_package
<1>2. hints # "" /\ r.revision # "" => hints = r.revision
  BY DEF compose_verified_repository_query_hints, trusted_repository_identity
<1> HIDE DEF hints
<1>3. \A e \in with_payload(b) : Payload(e.payload)
  <2> SUFFICES ASSUME NEW e \in with_payload(b) PROVE Payload(e.payload)
    OBVIOUS
  <2>1. b # NoBundle /\ e \in b.body.entries
    BY ProjectedEntries
  <2>2. Genuine(b, B, r.plan, r.revision)
    BY <2>1, AdmissibleGenuine
  <2> QED
    BY <2>1, <2>2 DEF Genuine, GoodEntry
<1>4. ASSUME NEW p \in payloads
      PROVE  \E e \in with_payload(b) :
               p = IF reduced THEN context_admitted_payload(e, admission_receipt(e.payload, r.policy))
                   ELSE canonical_payload(e)
  BY <1>4 DEF admit_worker_payloads
<1> HIDE DEF payloads, b
<1>5. ASSUME NEW p \in payloads
      PROVE  /\ \E e \in with_payload(b) : p.capability = e.name /\ p.source = e.payload
             /\ Sequence(p.blocks)
             /\ \A i \in p.hidden :
                  /\ ~classify_block(p.source, i) /\ p.source[i] \in r.policy.seen
                  /\ \E k \in report :
                       /\ k.capability = p.capability
                       /\ i \in DOMAIN k.receipt.hidden
                       /\ k.receipt.hidden[i] = p.source[i]
  <2>1. PICK e \in with_payload(b) :
          p = IF reduced THEN context_admitted_payload(e, admission_receipt(e.payload, r.policy))
              ELSE canonical_payload(e)
    BY <1>4
  <2>2. Payload(e.payload)
    BY <1>3
  <2>3. CASE ~reduced
    <3>1. p.capability = e.name /\ p.source = e.payload /\ p.blocks = e.payload /\ p.hidden = {}
      BY <2>1, <2>3 DEF canonical_payload
    <3>2. Sequence(p.blocks)
      BY <2>2, <3>1 DEF Payload
    <3> QED
      BY <3>1, <3>2
  <2>4. CASE reduced
    <3>1. PICK a : a = admission_receipt(e.payload, r.policy)
      OBVIOUS
    <3>2. p = context_admitted_payload(e, a)
      BY <2>1, <2>4, <3>1
    <3>3. /\ Whole(a, e.payload)
          /\ \A i \in DOMAIN a.hidden :
               a.hidden[i] = e.payload[i] /\ ~classify_block(e.payload, i) /\ e.payload[i] \in r.policy.seen
      BY <2>2, <3>1, AdmissionWhole
    <3>4. p.capability = e.name /\ p.source = e.payload /\ p.hidden = DOMAIN a.hidden
      BY <3>2 DEF context_admitted_payload
    <3>5. Sequence(p.blocks)
      BY <3>2, <3>3, VisibleBlocks DEF Whole
    <3>6. ASSUME NEW i \in p.hidden PROVE kept(e) \in report
      <4>1. kept(e).receipt = a
        BY <3>1
      <4>2. DOMAIN a.hidden # {}
        BY <3>4, <3>6
      <4> QED
        BY <2>4, <4>1, <4>2 DEF admission_receipts, b
    <3>7. kept(e).capability = e.name /\ kept(e).receipt = a
      BY <3>1
    <3> HIDE DEF kept
    <3> QED
      BY <3>3, <3>4, <3>5, <3>6, <3>7
  <2> QED
    BY <2>3, <2>4
<1>6. pk.payloads = payloads
  BY <1>1 DEF build_planner_consumer_context_package, build_context_assembly_contract
<1>7. Backed(pk, B)
  <2>1. Carried(b, B) /\ (b # NoBundle => evidence_admissible(b, r.plan, r.revision))
    BY DEF b
  <2>2. \A p \in payloads : \E e \in with_payload(b) : p.capability = e.name /\ p.source = e.payload
    BY <1>5
  <2> QED
    BY <1>1, <1>2, <2>1, <2>2, PackageBacked
<1>8. Hiding(pk, r.policy.seen) /\ Saved(pk, report)
  BY <1>5, <1>6 DEF Hiding, Saved
<1>9. ReportWhole(report)
  <2> SUFFICES ASSUME NEW k \in report PROVE Payload(k.source) /\ Whole(k.receipt, k.source)
    BY DEF ReportWhole
  <2>1. PICK e \in with_payload(b) : k = kept(e)
    BY DEF admission_receipts, b
  <2>2. Payload(e.payload)
    BY <1>3
  <2>3. k.source = e.payload /\ k.receipt = admission_receipt(e.payload, r.policy)
    BY <2>1
  <2> QED
    BY <2>2, <2>3, AdmissionWhole
<1> QED
  BY <1>7, <1>8, <1>9

\* The consumer checked the bundle it was given.
Admitted(b, B, plan, revision) ==
  Carried(b, B) /\ (b # NoBundle => evidence_admissible(b, plan, revision))

\* The package of the online wrapper is backed by its bundle and hides nothing.
LEMMA OnlinePackage ==
  ASSUME NEW B, GoodBundles(B), NEW b, NEW plan, NEW revision, Admitted(b, B, plan, revision),
         NEW a, NEW provider, NEW seen, NEW pk, pk = build_online_context_package(b, plan, a, provider)
  PROVE  Backed(pk, B) /\ Hiding(pk, seen) /\ pk.provider = provider
<1>0. Carried(b, B) /\ (b # NoBundle => evidence_admissible(b, plan, revision))
  BY DEF Admitted
<1> DEFINE payloads == {canonical_payload(e) : e \in with_payload(b)}
<1>1. pk = build_planner_consumer_context_package(b, plan, a, payloads, "online_provider", provider, "")
  BY DEF build_online_context_package
<1>2. \A p \in payloads : \E e \in with_payload(b) :
        p.capability = e.name /\ p.source = e.payload /\ p.blocks = e.payload /\ p.hidden = {}
  BY DEF canonical_payload
<1>3. \A e \in with_payload(b) : Sequence(e.payload)
  <2> SUFFICES ASSUME NEW e \in with_payload(b) PROVE Sequence(e.payload)
    OBVIOUS
  <2>1. b # NoBundle /\ e \in b.body.entries
    BY ProjectedEntries
  <2>2. Genuine(b, B, plan, revision)
    BY <1>0, <2>1, AdmissibleGenuine
  <2> QED
    BY <2>1, <2>2 DEF Genuine, GoodEntry, Payload
<1> HIDE DEF payloads
<1>4. pk.payloads = payloads /\ pk.provider = provider
  <2>1. PICK pl, m, n, h : pl = payloads /\ pk = [attempt |-> a, plan |-> plan, selected |-> Selected,
          materialized |-> m, bundles |-> n, payloads |-> pl, channel |-> "online_provider",
          provider |-> provider, hints |-> h]
    BY <1>1, Zenon DEF build_planner_consumer_context_package, build_context_assembly_contract
  <2>2. pk.payloads = pl /\ pk.provider = provider
    BY <2>1
  <2> QED
    BY <2>1, <2>2
<1>5. Backed(pk, B)
  <2>1. \A p \in payloads : \E e \in with_payload(b) : p.capability = e.name /\ p.source = e.payload
    BY <1>2
  <2>2. "" # "" /\ revision # "" => "" = revision
    OBVIOUS
  <2> QED
    BY <1>0, <1>1, <2>1, <2>2, PackageBacked
<1>6. Hiding(pk, seen)
  <2> SUFFICES ASSUME NEW p \in payloads PROVE Sequence(p.blocks) /\ p.hidden = {}
    BY <1>4 DEF Hiding
  <2> QED
    BY <1>2, <1>3
<1> QED
  BY <1>4, <1>5, <1>6

---------------------------------------------------------------------------
(* ModelContext: the invariant.                                            *)

\* Every block of text the inputs of D show.
ShownIn(D) == UNION {UNION {ToSet(p.blocks) : p \in D[k].package.payloads} : k \in DOMAIN D}

\* A proven receipt has its input among D.
Received(r, D) ==
  r.proven => \E k \in DOMAIN D : D[k] = final_input(r.package.provider, r.package)

\* Input k hides only what an earlier one shows.
HidesShown(D, k) ==
  \A p \in D[k].package.payloads : \A i \in p.hidden :
    /\ ~classify_block(p.source, i)
    /\ \E j \in 1..k - 1 : \E q \in D[j].package.payloads : Contains(q.blocks, p.source[i])

\* Every delivery is backed by a bundle and hides only what was shown before it.
DeliveredOk(D, B) ==
  /\ Sequence(D)
  /\ \A k \in DOMAIN D :
       /\ \A p \in D[k].package.payloads : Sequence(p.blocks)
       /\ HidesShown(D, k)
       /\ Backed(D[k].package, B)

\* D2 has the inputs of D1, and B2 the bundles of B1.
Later(D1, D2, B1, B2) ==
  /\ \A k \in DOMAIN D1 : k \in DOMAIN D2 /\ D2[k] = D1[k]
  /\ B1 \subseteq B2

\* A durable request carries a digest that was given out, or none, and hides
\* only what was shown.
RequestOk(r, B, seen) == Carried(r.bundle, B) /\ r.policy.seen \subseteq seen

\* What an attempt keeps on disk.
AttemptOk(d, B, D) ==
  /\ d.status = "WORKER_RUNNING" => RequestOk(d.request, B, ShownIn(D))
  /\ Saved(d.receipt.package, d.report)
  /\ ReportWhole(d.report)
  /\ Received(d.receipt, D)

\* What the tracker keeps in memory, at each point of a worker's run.
TrackerOk(r, B, D) ==
  /\ r.pc \in {"invoke", "returned"} =>
       Backed(r.package, B) /\ Hiding(r.package, ShownIn(D)) /\ Saved(r.package, r.report)
  /\ r.pc = "returned" => r.called \in Providers \cup {"none"}
  /\ r.pc = "returned" /\ r.called # "none" =>
       \E k \in DOMAIN D : D[k] = final_input(r.called, r.package)
  /\ r.pc = "complete" => Saved(r.receipt.package, r.report) /\ Received(r.receipt, D)
  /\ r.pc \in {"invoke", "returned", "complete"} => ReportWhole(r.report)

\* The attempt that runs is one of the task's, and was durably started.
Running(r, d) ==
  r.pc # "idle" => r.attempt \in Tries /\ (r.pc = "prompt" => d[r.attempt].status = "WORKER_RUNNING")

\* All attempts.
AttemptsOk(d, B, D) == DOMAIN d = Tries /\ \A a \in Tries : AttemptOk(d[a], B, D)

\* The invariant of the context-aware coordinator.
ContextInv ==
  /\ now \in Plans
  /\ GoodBundles(bundles)
  /\ DeliveredOk(delivered, bundles)
  /\ AttemptsOk(durable, bundles, delivered)
  /\ TrackerOk(run, bundles, delivered)
  /\ Running(run, durable)
  /\ Received(online, delivered)

\* shown is what the deliveries have shown.
LEMMA ShownIsIn == shown = ShownIn(delivered)
BY DEF shown, ShownIn

\* More deliveries have shown more.
LEMMA LaterShown ==
  ASSUME NEW D1, NEW D2, NEW B1, NEW B2, Later(D1, D2, B1, B2)
  PROVE  ShownIn(D1) \subseteq ShownIn(D2)
<1> SUFFICES ASSUME NEW t \in ShownIn(D1) PROVE t \in ShownIn(D2)
  OBVIOUS
<1>1. PICK k \in DOMAIN D1 : \E p \in D1[k].package.payloads : t \in ToSet(p.blocks)
  BY DEF ShownIn
<1>2. k \in DOMAIN D2 /\ D2[k] = D1[k]
  BY DEF Later
<1> QED
  BY <1>1, <1>2 DEF ShownIn

\* More bundles back more.
LEMMA LaterBacked ==
  ASSUME NEW D1, NEW D2, NEW B1, NEW B2, Later(D1, D2, B1, B2), NEW pk, Backed(pk, B1)
  PROVE  Backed(pk, B2)
BY DEF Later, Backed

\* A receipt stays proven when more is delivered.
LEMMA LaterReceived ==
  ASSUME NEW D1, NEW D2, NEW B1, NEW B2, Later(D1, D2, B1, B2), NEW r, Received(r, D1)
  PROVE  Received(r, D2)
<1> SUFFICES ASSUME r.proven PROVE \E k \in DOMAIN D2 : D2[k] = final_input(r.package.provider, r.package)
  BY DEF Received
<1>1. PICK k \in DOMAIN D1 : D1[k] = final_input(r.package.provider, r.package)
  BY DEF Received
<1> QED
  BY <1>1 DEF Later

\* An attempt stays as it should when more is delivered and given out.
LEMMA LaterAttempts ==
  ASSUME NEW D1, NEW D2, NEW B1, NEW B2, Later(D1, D2, B1, B2), NEW d, AttemptOk(d, B1, D1)
  PROVE  AttemptOk(d, B2, D2)
<1>1. Received(d.receipt, D2)
  BY LaterReceived DEF AttemptOk
<1>2. ASSUME RequestOk(d.request, B1, ShownIn(D1)) PROVE RequestOk(d.request, B2, ShownIn(D2))
  <2>1. ShownIn(D1) \subseteq ShownIn(D2)
    BY LaterShown
  <2>2. Carried(d.request.bundle, B2)
    BY <1>2 DEF RequestOk, Carried, Later
  <2> QED
    BY <1>2, <2>1, <2>2 DEF RequestOk
<1> QED
  BY <1>1, <1>2 DEF AttemptOk

\* One more input keeps the earlier ones.
LEMMA OneMore ==
  ASSUME NEW D, NEW B, DeliveredOk(D, B), NEW x, Hiding(x.package, ShownIn(D)), Backed(x.package, B)
  PROVE  /\ DeliveredOk(Append(D, x), B)
         /\ Later(D, Append(D, x), B, B)
         /\ \E k \in DOMAIN Append(D, x) : Append(D, x)[k] = x
<1>1. PICK S : D \in Seq(S)
  BY DEF DeliveredOk, Sequence
<1>2. PICK E : E = Append(D, x)
  OBVIOUS
<1> DEFINE N == Len(D)
<1>3. N \in Nat /\ DOMAIN D = 1..N
  BY <1>1, LenProperties
<1>4. D \in Seq(S \cup {x}) /\ x \in S \cup {x}
  BY <1>1
<1>5. /\ E \in Seq(S \cup {x}) /\ Len(E) = N + 1
      /\ \A k \in 1..N : E[k] = D[k]
      /\ E[N + 1] = x
  BY <1>2, <1>4, AppendProperties
<1>6. DOMAIN E = 1..N + 1
  BY <1>5, LenProperties
<1> HIDE DEF N
<1>7. 1..N \subseteq 1..N + 1 /\ N + 1 \in 1..N + 1 /\ \A k \in 1..N + 1 : k \in 1..N \/ k = N + 1
  BY <1>3
<1>8. Later(D, E, B, B)
  BY <1>3, <1>5, <1>6, <1>7 DEF Later
<1>9. ASSUME NEW k \in 1..N
      PROVE  /\ \A p \in E[k].package.payloads : Sequence(p.blocks)
             /\ HidesShown(E, k)
             /\ Backed(E[k].package, B)
  <2>1. E[k] = D[k] /\ k \in DOMAIN D
    BY <1>3, <1>5
  <2>2. \A j \in 1..k - 1 : E[j] = D[j]
    BY <1>3, <1>5
  <2>3. (\A p \in D[k].package.payloads : Sequence(p.blocks)) /\ HidesShown(D, k) /\ Backed(D[k].package, B)
    BY <2>1 DEF DeliveredOk
  <2>4. HidesShown(E, k)
    BY <2>1, <2>2, <2>3 DEF HidesShown
  <2> QED
    BY <2>1, <2>3, <2>4
<1>10. /\ \A p \in x.package.payloads : Sequence(p.blocks)
       /\ HidesShown(E, N + 1)
  <2>1. \A p \in x.package.payloads : Sequence(p.blocks)
    BY DEF Hiding
  <2>2. ASSUME NEW p \in x.package.payloads, NEW i \in p.hidden
        PROVE  /\ ~classify_block(p.source, i)
               /\ \E j \in 1..N : \E q \in E[j].package.payloads : Contains(q.blocks, p.source[i])
    <3>1. ~classify_block(p.source, i) /\ p.source[i] \in ShownIn(D)
      BY <2>2 DEF Hiding
    <3>2. PICK j \in DOMAIN D : \E q \in D[j].package.payloads : p.source[i] \in ToSet(q.blocks)
      BY <3>1 DEF ShownIn
    <3>3. PICK q \in D[j].package.payloads : p.source[i] \in ToSet(q.blocks)
      BY <3>2
    <3>4. Sequence(q.blocks)
      BY <3>3 DEF DeliveredOk
    <3>5. DOMAIN q.blocks = 1..Len(q.blocks)
      BY <3>4, SequenceFacts
    <3>6. Contains(q.blocks, p.source[i])
      BY <3>3, <3>5 DEF ToSet, Contains
    <3>7. j \in 1..N /\ E[j] = D[j]
      BY <1>3, <1>5
    <3> QED
      BY <3>1, <3>3, <3>6, <3>7
  <2> QED
    <3>1. PICK m : m = N + 1
      OBVIOUS
    <3>2. E[m] = x /\ m - 1 = N
      <4>1. E[m] = x
        BY <1>5, <3>1
      <4>2. m - 1 = N
        BY <1>3, <3>1
      <4> QED
        BY <4>1, <4>2
    <3>3. HidesShown(E, m)
      BY <2>2, <3>2 DEF HidesShown
    <3> QED
      BY <2>1, <3>1, <3>3
<1>11. DeliveredOk(E, B)
  <2>1. Sequence(E)
    BY <1>5 DEF Sequence
  <2>2. ASSUME NEW k \in DOMAIN E
        PROVE  /\ \A p \in E[k].package.payloads : Sequence(p.blocks)
               /\ HidesShown(E, k)
               /\ Backed(E[k].package, B)
    <3>1. CASE k \in 1..N
      BY <1>9, <3>1
    <3>2. CASE k = N + 1
      BY <1>5, <1>10, <3>2
    <3> QED
      BY <1>6, <1>7, <3>1, <3>2
  <2> QED
    BY <2>1, <2>2 DEF DeliveredOk
<1>12. \E k \in DOMAIN E : E[k] = x
  BY <1>5, <1>6, <1>7
<1> QED
  BY <1>2, <1>8, <1>11, <1>12

\* So do all attempts.
LEMMA LaterAll ==
  ASSUME NEW D1, NEW D2, NEW B1, NEW B2, Later(D1, D2, B1, B2), NEW d, AttemptsOk(d, B1, D1)
  PROVE  AttemptsOk(d, B2, D2)
BY LaterAttempts DEF AttemptsOk

\* So do the deliveries.
LEMMA LaterDelivered ==
  ASSUME NEW D, NEW B1, NEW B2, B1 \subseteq B2, DeliveredOk(D, B1)
  PROVE  DeliveredOk(D, B2)
<1>1. Later(D, D, B1, B2)
  BY DEF Later
<1> QED
  BY <1>1, LaterBacked DEF DeliveredOk

---------------------------------------------------------------------------
(* ModelContext: the host's steps.                                         *)

\* A new bundle is a good one.
LEMMA NewBundle ==
  ASSUME ContextInv, NEW b, GoodBundle(b), bundles' = bundles \cup {b},
         UNCHANGED <<now, run, durable, delivered, online>>, run = NoRun
  PROVE  ContextInv'
<1>1. PICK B, C, D, d : B = bundles /\ C = bundles' /\ D = delivered /\ d = durable
  OBVIOUS
<1>2. Later(D, D, B, C) /\ B \subseteq C
  BY <1>1 DEF Later
<1>3. GoodBundles(C)
  BY <1>1 DEF ContextInv, GoodBundles
<1>4. DeliveredOk(D, B) /\ AttemptsOk(d, B, D)
  BY <1>1 DEF ContextInv
<1>5. DeliveredOk(D, C)
  BY <1>2, <1>4, LaterDelivered
<1>6. AttemptsOk(d, C, D)
  BY <1>2, <1>4, LaterAll
<1>7. TrackerOk(NoRun, C, D)
  BY DEF TrackerOk, NoRun
<1>8. /\ now' \in Plans /\ GoodBundles(bundles') /\ DeliveredOk(delivered', bundles')
      /\ AttemptsOk(durable', bundles', delivered') /\ TrackerOk(run', bundles', delivered')
      /\ Running(run', durable') /\ Received(online', delivered')
  BY <1>1, <1>3, <1>5, <1>6, <1>7 DEF ContextInv
<1> QED
  BY <1>8 DEF ContextInv

\* The runtime materializes a bundle for the plan in force.
LEMMA MaterializeKeeps ==
  ASSUME ContextInv, NEW stages \in Stages, materialize(stages)
  PROVE  ContextInv'
<1> DEFINE record(c) == IF c \in Postflight THEN NoStage ELSE stages[c]
           all == [c \in Selected |-> record(c)]
           b == build_capability_evidence_bundle(now.plan, now.revision, all)
<1>1. /\ run = NoRun /\ bundles' = bundles \cup {b}
      /\ UNCHANGED <<now, run, durable, delivered, online>>
  BY DEF materialize
<1>2. /\ b.bundle_hash = b.body /\ b.body.plan = now.plan
      /\ b.body.entries = {bundle_entry(c, all[c], "preflight") : c \in Selected}
  BY SealedFields DEF build_capability_evidence_bundle
<1>3. ASSUME NEW c \in Selected PROVE GoodEntry(bundle_entry(c, all[c], "preflight"))
  <2>1. all[c] = NoStage \/ all[c] = stages[c]
    OBVIOUS
  <2>2. stages[c].payload \in Seq(STRING)
    BY ContextAssumption
  <2>3. all[c].payload \in Seq(STRING) \/ all[c] = NoStage
    BY <2>1, <2>2
  <2> HIDE DEF all
  <2> QED
    BY <2>3, EntryGood
<1>4. now.plan # ""
  BY ContextAssumption DEF ContextInv
<1> HIDE DEF all, b
<1>5. PICK new : new = b
  OBVIOUS
<1>6. GoodBundle(new)
  BY <1>2, <1>3, <1>4, <1>5 DEF GoodBundle
<1> QED
  BY <1>1, <1>5, <1>6, NewBundle

\* The runtime seals a bundle again with the postflight outcomes.
LEMMA ResealKeeps ==
  ASSUME ContextInv, NEW stages \in Stages, NEW b \in bundles, reseal(b, stages)
  PROVE  ContextInv'
<1> DEFINE s == seal_postflight_capability_evidence(b, stages, Postflight)
           kept == {e \in b.body.entries : e.name \notin Postflight}
           more == {bundle_entry(c, stages[c], "postflight") : c \in Postflight}
<1>1. /\ run = NoRun /\ bundles' = bundles \cup {s}
      /\ UNCHANGED <<now, run, durable, delivered, online>>
  BY DEF reseal
<1>2. s.bundle_hash = s.body /\ s.body.plan = b.body.plan /\ s.body.entries = kept \cup more
  BY SealedFields DEF seal_postflight_capability_evidence
<1>3. GoodBundle(b)
  BY DEF ContextInv, GoodBundles
<1>4. ASSUME NEW c \in Postflight PROVE GoodEntry(bundle_entry(c, stages[c], "postflight"))
  <2>1. stages[c].payload \in Seq(STRING)
    BY BundleAssumption, ContextAssumption
  <2> QED
    BY <2>1, EntryGood
<1>5. \A e \in kept \cup more : GoodEntry(e)
  BY <1>3, <1>4 DEF GoodBundle
<1>6. PICK new : new = s
  OBVIOUS
<1> HIDE DEF s, kept, more
<1>7. GoodBundle(new)
  BY <1>2, <1>3, <1>5, <1>6 DEF GoodBundle
<1> QED
  BY <1>1, <1>6, <1>7, NewBundle

\* Another plan comes into force.
LEMMA ReplanKeeps ==
  ASSUME ContextInv, replan
  PROVE  ContextInv'
BY DEF replan, ContextInv

\* What is offered is none, or has a digest the runtime gave out.
LEMMA OfferedCarried ==
  ASSUME ContextInv, NEW b \in offered
  PROVE  Carried(b, bundles)
<1>1. \A c \in bundles : c.bundle_hash = c.body
  BY DEF ContextInv, GoodBundles, GoodBundle
<1>2. \A c \in bundles : touched(c).bundle_hash = c.bundle_hash
  BY DEF touched
<1> QED
  BY <1>1, <1>2 DEF offered, Carried

\* The state of one attempt changes and it runs, or ends.
LEMMA OneAttempt ==
  ASSUME ContextInv, NEW a \in Tries, NEW d, AttemptOk(d, bundles, delivered),
         durable' = [durable EXCEPT ![a] = d],
         TrackerOk(run', bundles, delivered), Running(run', durable'),
         UNCHANGED <<now, bundles, delivered, online>>
  PROVE  ContextInv'
<1>1. AttemptsOk(durable', bundles, delivered)
  BY DEF ContextInv, AttemptsOk
<1> QED
  BY <1>1 DEF ContextInv

\* Only the tracker changes.
LEMMA OnlyTracker ==
  ASSUME ContextInv, TrackerOk(run', bundles, delivered), Running(run', durable),
         UNCHANGED <<now, bundles, durable, delivered, online>>
  PROVE  ContextInv'
BY DEF ContextInv

\* submit records the request of an attempt.
LEMMA SubmitKeeps ==
  ASSUME ContextInv, NEW a \in Tries, NEW b \in offered, NEW asked \in Asks, submit(a, b, asked)
  PROVE  ContextInv'
<1> DEFINE seen == IF asked.policy.kind = "valid" THEN shown ELSE {}
           asking == [attempt |-> a, plan |-> now.plan, revision |-> now.revision, bundle |-> b,
                       policy |-> [kind |-> asked.policy.kind, hide_hints |-> asked.policy.hide_hints,
                                   max_segments |-> asked.policy.max_segments, seen |-> seen],
                       query |-> asked.query, authorized |-> asked.authorized, provider |-> asked.provider]
           new == attempt_state("WORKER_RUNNING", asking, durable[a].report, durable[a].receipt)
<1>1. /\ durable' = [durable EXCEPT ![a] = new]
      /\ run' = [pc |-> "prompt", attempt |-> a]
      /\ UNCHANGED <<now, bundles, delivered, online>>
  BY DEF submit
<1>2. asking.bundle = b /\ asking.policy.seen = seen
  OBVIOUS
<1> HIDE DEF asking
<1>3. /\ new.status = "WORKER_RUNNING" /\ new.request = asking
      /\ new.report = durable[a].report /\ new.receipt = durable[a].receipt
  BY DEF attempt_state
<1>4. RequestOk(asking, bundles, ShownIn(delivered))
  BY <1>2, OfferedCarried, ShownIsIn DEF RequestOk
<1>5. AttemptOk(durable[a], bundles, delivered) /\ DOMAIN durable = Tries
  BY DEF ContextInv, AttemptsOk
<1> HIDE DEF new
<1>6. AttemptOk(new, bundles, delivered)
  BY <1>3, <1>4, <1>5 DEF AttemptOk
<1>7. TrackerOk(run', bundles, delivered)
  BY <1>1 DEF TrackerOk
<1>8. Running(run', durable')
  BY <1>1, <1>3, <1>5 DEF Running
<1> QED
  BY <1>1, <1>6, <1>7, <1>8, OneAttempt

\* An attempt found running after a crash is executed again.
LEMMA RelaunchKeeps ==
  ASSUME ContextInv, NEW a \in Tries, relaunch(a)
  PROVE  ContextInv'
<1>1. /\ run' = [pc |-> "prompt", attempt |-> a] /\ durable[a].status = "WORKER_RUNNING"
      /\ UNCHANGED <<now, bundles, durable, delivered, online>>
  BY DEF relaunch
<1>2. TrackerOk(run', bundles, delivered) /\ Running(run', durable)
  BY <1>1 DEF TrackerOk, Running
<1> QED
  BY <1>1, <1>2, OnlyTracker

\* A crash loses the tracker and nothing on disk.
LEMMA CrashKeeps ==
  ASSUME ContextInv, crash
  PROVE  ContextInv'
<1>1. run' = NoRun /\ UNCHANGED <<now, bundles, durable, delivered, online>>
  BY DEF crash
<1>2. TrackerOk(run', bundles, delivered) /\ Running(run', durable)
  BY <1>1 DEF TrackerOk, Running, NoRun
<1> QED
  BY <1>1, <1>2, OnlyTracker

---------------------------------------------------------------------------
(* ModelContext: the coordinator's ports and the online wrapper.           *)

\* An attempt whose run fails is recorded as failed.
LEMMA AbandonKeeps ==
  ASSUME ContextInv, run.attempt \in Tries, abandon(run.attempt),
         UNCHANGED <<now, bundles, delivered, online>>
  PROVE  ContextInv'
<1> DEFINE a == run.attempt
           new == attempt_state("FAILED", NoRequest, durable[a].report, durable[a].receipt)
<1>1. durable' = [durable EXCEPT ![a] = new] /\ run' = NoRun
  BY DEF abandon
<1>2. /\ new.status = "FAILED" /\ new.report = durable[a].report /\ new.receipt = durable[a].receipt
  BY DEF attempt_state
<1>3. AttemptOk(durable[a], bundles, delivered)
  BY DEF ContextInv, AttemptsOk
<1> HIDE DEF new
<1>4. AttemptOk(new, bundles, delivered)
  BY <1>2, <1>3 DEF AttemptOk
<1>5. TrackerOk(run', bundles, delivered) /\ Running(run', durable')
  BY <1>1 DEF TrackerOk, Running, NoRun
<1> QED
  BY <1>1, <1>4, <1>5, OneAttempt

\* The worker's prompt is built and the attempt's tracker holds its package.
LEMMA PromptKeeps ==
  ASSUME ContextInv, NEW smaller \in BOOLEAN, prompt(smaller)
  PROVE  ContextInv'
<1> DEFINE r == durable[run.attempt].request
           package == build_worker_context_package(r, trusted_repository_identity(r.authorized, r.revision), smaller)
           report == admission_receipts(r.bundle, r.policy, smaller)
           passes == /\ r.bundle # NoBundle => evidence_admissible(r.bundle, r.plan, r.revision)
                     /\ assembly_passes(package)
<1>1. run.pc = "prompt" /\ UNCHANGED <<now, bundles, delivered, online>>
  BY DEF prompt
<1>2. run.attempt \in Tries /\ durable[run.attempt].status = "WORKER_RUNNING"
  BY <1>1 DEF ContextInv, Running
<1>3. CASE ~passes
  <2>1. abandon(run.attempt)
    BY <1>3 DEF prompt
  <2> QED
    BY <1>1, <1>2, <2>1, AbandonKeeps
<1>4. CASE passes
  <2>1. run' = [pc |-> "invoke", attempt |-> run.attempt, package |-> package, report |-> report]
        /\ UNCHANGED durable
    BY <1>4 DEF prompt
  <2>2. RequestOk(r, bundles, ShownIn(delivered))
    BY <1>2 DEF ContextInv, AttemptsOk, AttemptOk
  <2>3. PICK rq, B : rq = r /\ B = bundles
    OBVIOUS
  <2>4. GoodBundles(B) /\ Carried(rq.bundle, B)
    BY <2>2, <2>3 DEF ContextInv, RequestOk
  <2>5. rq.bundle # NoBundle => evidence_admissible(rq.bundle, rq.plan, rq.revision)
    BY <1>4, <2>3
  <2>6. PICK pk, rep :
          /\ pk = build_worker_context_package(rq, trusted_repository_identity(rq.authorized, rq.revision), smaller)
          /\ rep = admission_receipts(rq.bundle, rq.policy, smaller)
    OBVIOUS
  <2>7. Backed(pk, B) /\ Hiding(pk, rq.policy.seen) /\ Saved(pk, rep) /\ ReportWhole(rep)
    BY <2>4, <2>5, <2>6, WorkerPackage
  <2>8. pk = package /\ rep = report
    BY <2>3, <2>6
  <2> HIDE DEF package, report, r, passes
  <2>9. Hiding(pk, ShownIn(delivered))
    BY <2>2, <2>3, <2>7 DEF RequestOk, Hiding
  <2>10. run'.pc = "invoke" /\ run'.attempt = run.attempt /\ run'.package = pk /\ run'.report = rep
    BY <2>1, <2>8
  <2>11. TrackerOk(run', bundles, delivered)
    BY <2>3, <2>7, <2>9, <2>10 DEF TrackerOk
  <2>12. Running(run', durable)
    BY <1>2, <2>10 DEF Running
  <2> QED
    BY <1>1, <2>1, <2>11, <2>12, OnlyTracker
<1> QED
  BY <1>3, <1>4

\* The worker port refuses a provider, or the adapter calls one or none.
LEMMA InvokeKeeps ==
  ASSUME ContextInv, NEW provider \in Providers, NEW called \in Providers \cup {"none"},
         invoke(provider, called)
  PROVE  ContextInv'
<1>1. run.pc = "invoke" /\ UNCHANGED <<now, bundles, online>>
  BY DEF invoke
<1>2. run.attempt \in Tries
  BY <1>1 DEF ContextInv, Running
<1>3. CASE provider # run.package.provider
  <2>1. abandon(run.attempt) /\ UNCHANGED delivered
    BY <1>3 DEF invoke
  <2> QED
    BY <1>1, <1>2, <2>1, AbandonKeeps
<1>4. CASE provider = run.package.provider
  <2>1. PICK pk, rep, B, D, d : pk = run.package /\ rep = run.report /\ B = bundles /\ D = delivered /\ d = durable
    OBVIOUS
  <2>2. PICK E : E = delivered'
    OBVIOUS
  <2>3. /\ E = IF called = "none" THEN D ELSE Append(D, final_input(called, pk))
        /\ run' = [pc |-> "returned", attempt |-> run.attempt, package |-> pk, report |-> rep, called |-> called]
        /\ durable' = d
    BY <1>4, <2>1, <2>2 DEF invoke
  <2>4. /\ Backed(pk, B) /\ Hiding(pk, ShownIn(D)) /\ Saved(pk, rep) /\ ReportWhole(rep)
        /\ DeliveredOk(D, B) /\ AttemptsOk(d, B, D) /\ GoodBundles(B) /\ now \in Plans /\ Received(online, D)
    BY <1>1, <2>1 DEF ContextInv, TrackerOk
  <2>5. DeliveredOk(E, B) /\ Later(D, E, B, B)
        /\ (called # "none" => \E k \in DOMAIN E : E[k] = final_input(called, pk))
    <3>1. CASE called = "none"
      BY <2>3, <2>4, <3>1 DEF Later
    <3>2. CASE called # "none"
      <4>1. PICK x : x = final_input(called, pk)
        OBVIOUS
      <4>2. x.package = pk
        BY <4>1 DEF final_input
      <4>3. /\ DeliveredOk(Append(D, x), B) /\ Later(D, Append(D, x), B, B)
            /\ \E k \in DOMAIN Append(D, x) : Append(D, x)[k] = x
        BY <2>4, <4>2, OneMore
      <4>4. E = Append(D, x)
        BY <2>3, <3>2, <4>1
      <4> QED
        BY <4>1, <4>3, <4>4
    <3> QED
      BY <3>1, <3>2
  <2>6. PICK rec : rec = online
    OBVIOUS
  <2>7. AttemptsOk(d, B, E) /\ Received(rec, E) /\ ShownIn(D) \subseteq ShownIn(E)
    BY <2>4, <2>5, <2>6, LaterAll, LaterReceived, LaterShown
  <2>8. run'.pc = "returned" /\ run'.attempt = run.attempt /\ run'.package = pk /\ run'.report = rep
        /\ run'.called = called
    BY <2>3
  <2>9. Hiding(pk, ShownIn(E))
    BY <2>4, <2>7 DEF Hiding
  <2>10. TrackerOk(run', B, E)
    BY <2>4, <2>5, <2>8, <2>9 DEF TrackerOk
  <2>11. Running(run', d)
    BY <1>2, <2>8 DEF Running
  <2>12. bundles' = B /\ delivered' = E /\ durable' = d /\ online' = rec /\ now' = now
    BY <1>1, <2>1, <2>2, <2>3, <2>6
  <2> QED
    BY <2>4, <2>5, <2>7, <2>10, <2>11, <2>12 DEF ContextInv
<1> QED
  BY <1>3, <1>4

\* Arithmetic the receipt's count needs.
LEMMA ZeroIsLess == ~(0 >= 1)
OBVIOUS

\* The worker returns and the receipt is computed.
LEMMA ReturnedKeeps ==
  ASSUME ContextInv, NEW named \in Providers \cup {"", "none"}, returned(named)
  PROVE  ContextInv'
<1>0. PICK count, answer :
        /\ count = IF run.called = "none" THEN 0 ELSE 1
        /\ answer = IF named = "none" THEN "" ELSE named
  OBVIOUS
<1> DEFINE executed == [calls |-> count, provider |-> answer]
<1>1. PICK pk, rep, called, D : pk = run.package /\ rep = run.report /\ called = run.called /\ D = delivered
  OBVIOUS
<1>2. PICK receipt : receipt = build_worker_consumption_receipt(pk, executed)
  OBVIOUS
<1>3. /\ run.pc = "returned"
      /\ named \in {called} \cup (IF called = pk.provider THEN {""} ELSE {})
      /\ run' = [pc |-> "complete", attempt |-> run.attempt, report |-> rep, receipt |-> receipt]
      /\ UNCHANGED <<now, bundles, durable, delivered, online>>
  BY <1>0, <1>1, <1>2, Zenon DEF returned
<1>4. /\ Saved(pk, rep) /\ ReportWhole(rep) /\ run.attempt \in Tries
      /\ called \in Providers \cup {"none"}
      /\ called # "none" => \E k \in DOMAIN D : D[k] = final_input(called, pk)
  BY <1>1, <1>3 DEF ContextInv, TrackerOk, Running
<1>5. receipt.package = pk /\ (receipt.proven => count >= 1 /\ answer \in {"", pk.provider})
  BY <1>2 DEF build_worker_consumption_receipt
<1>6. ASSUME receipt.proven PROVE called # "none" /\ called = pk.provider
  <2>1. called # "none" /\ answer \in {"", pk.provider}
    <3>1. count >= 1 /\ answer \in {"", pk.provider}
      BY <1>5, <1>6
    <3>2. count = IF called = "none" THEN 0 ELSE 1
      BY <1>0, <1>1, Zenon
    <3> QED
      BY <3>1, <3>2, ZeroIsLess, Zenon
  <2>2. CASE called # pk.provider
    <3>1. answer = called
      BY <1>0, <1>3, <2>1, <2>2
    <3>2. called = ""
      BY <2>1, <2>2, <3>1
    <3> QED
      BY <1>4, <2>1, <3>2, ContextAssumption
  <2> QED
    BY <2>1, <2>2
<1>7. Received(receipt, D)
  BY <1>4, <1>5, <1>6 DEF Received
<1>8. run'.pc = "complete" /\ run'.attempt = run.attempt /\ run'.report = rep /\ run'.receipt = receipt
  BY <1>3
<1>9. TrackerOk(run', bundles, delivered)
  BY <1>1, <1>4, <1>5, <1>7, <1>8 DEF TrackerOk
<1>10. Running(run', durable)
  BY <1>4, <1>8 DEF Running
<1> QED
  BY <1>3, <1>9, <1>10, OnlyTracker

\* The receipt and the report are saved with the attempt.
LEMMA WorkerCheckpointKeeps ==
  ASSUME ContextInv, checkpoint
  PROVE  ContextInv'
<1> DEFINE a == run.attempt
           new == attempt_state("WORKER_COMPLETED", NoRequest, run.report, run.receipt)
<1>1. /\ durable' = [durable EXCEPT ![a] = new] /\ run' = NoRun /\ run.pc = "complete"
      /\ UNCHANGED <<now, bundles, delivered, online>>
  BY DEF checkpoint
<1>2. new.status = "WORKER_COMPLETED" /\ new.report = run.report /\ new.receipt = run.receipt
  BY DEF attempt_state
<1>3. /\ a \in Tries /\ Saved(run.receipt.package, run.report) /\ Received(run.receipt, delivered)
      /\ ReportWhole(run.report)
  BY <1>1 DEF ContextInv, TrackerOk, Running
<1> HIDE DEF new
<1>4. AttemptOk(new, bundles, delivered)
  BY <1>2, <1>3 DEF AttemptOk
<1>5. TrackerOk(run', bundles, delivered) /\ Running(run', durable')
  BY <1>1 DEF TrackerOk, Running, NoRun
<1> QED
  BY <1>1, <1>3, <1>4, <1>5, OneAttempt

\* A hidden segment is recalled from the saved report.
LEMMA RecallKeeps ==
  ASSUME ContextInv, NEW a \in Tries, NEW wanted \in 1..MaxBlocks, recall(a, wanted)
  PROVE  ContextInv'
<1>1. PICK r \in durable[a].report :
        /\ wanted \in DOMAIN r.receipt.hidden
        /\ durable' = [durable EXCEPT ![a] = attempt_state(durable[a].status, durable[a].request,
             (durable[a].report \ {r}) \cup {[capability |-> r.capability, source |-> r.source,
                receipt |-> restore_visible_text(r.receipt, {wanted})]}, durable[a].receipt)]
  BY DEF recall
<1> DEFINE back == restore_visible_text(r.receipt, {wanted})
           k == [capability |-> r.capability, source |-> r.source, receipt |-> back]
           report == (durable[a].report \ {r}) \cup {k}
           new == attempt_state(durable[a].status, durable[a].request, report, durable[a].receipt)
<1>2. /\ durable' = [durable EXCEPT ![a] = new] /\ run' = run /\ durable[a].status = "WORKER_COMPLETED"
      /\ UNCHANGED <<now, bundles, delivered, online>>
  BY <1>1 DEF recall
<1>3. k.capability = r.capability /\ k.source = r.source /\ k.receipt = back /\ back.hidden = r.receipt.hidden
  BY DEF restore_visible_text
<1>4. /\ new.status = "WORKER_COMPLETED" /\ new.report = report /\ new.receipt = durable[a].receipt
  BY <1>2 DEF attempt_state
<1>5. AttemptOk(durable[a], bundles, delivered) /\ DOMAIN durable = Tries
  BY DEF ContextInv, AttemptsOk
<1>6. Payload(r.source) /\ Whole(back, r.source)
  <2>1. Payload(r.source) /\ Whole(r.receipt, r.source)
    BY <1>5 DEF AttemptOk, ReportWhole
  <2> QED
    BY <1>1, <2>1, RecallWhole
<1> HIDE DEF back, k, new
<1>7. ReportWhole(report)
  BY <1>3, <1>5, <1>6 DEF AttemptOk, ReportWhole
<1>8. Saved(durable[a].receipt.package, report)
  <2> SUFFICES ASSUME NEW p \in durable[a].receipt.package.payloads, NEW i \in p.hidden
               PROVE  \E x \in report : /\ x.capability = p.capability /\ i \in DOMAIN x.receipt.hidden
                                        /\ x.receipt.hidden[i] = p.source[i]
    BY DEF Saved
  <2>1. PICK x \in durable[a].report : /\ x.capability = p.capability /\ i \in DOMAIN x.receipt.hidden
                                       /\ x.receipt.hidden[i] = p.source[i]
    BY <1>5 DEF AttemptOk, Saved
  <2>2. CASE x = r
    BY <1>3, <2>1, <2>2
  <2>3. CASE x # r
    BY <2>1, <2>3
  <2> QED
    BY <2>2, <2>3
<1> HIDE DEF report
<1>9. AttemptOk(new, bundles, delivered)
  BY <1>4, <1>5, <1>7, <1>8 DEF AttemptOk
<1>10. TrackerOk(run', bundles, delivered)
  BY <1>2 DEF ContextInv
<1>11. Running(run', durable')
  <2>1. \A x \in Tries : durable[x].status = "WORKER_RUNNING" => durable'[x] = durable[x]
    BY <1>2, <1>5
  <2> QED
    BY <1>2, <2>1 DEF ContextInv, Running
<1> QED
  BY <1>2, <1>9, <1>10, <1>11, OneAttempt

\* An online call delivers its package; the evidence may be of an earlier call.
LEMMA CallOnlineKeeps ==
  ASSUME ContextInv, NEW a \in Tries, NEW b \in offered, NEW appended \in BOOLEAN,
         NEW replayed \in 0..Len(delivered), call_online(a, b, appended, replayed)
  PROVE  ContextInv'
<1>1. PICK B, D, d, plan, revision :
        B = bundles /\ D = delivered /\ d = durable /\ plan = now.plan /\ revision = now.revision
  OBVIOUS
<1>2. PICK pk : pk = build_online_context_package(b, plan, a, Online)
  OBVIOUS
<1>3. PICK physical : physical = [provider |-> Online, package |-> pk, appended |-> appended]
  OBVIOUS
<1>4. PICK reported : reported = IF replayed = 0 THEN physical ELSE D[replayed]
  OBVIOUS
<1> DEFINE evidence == [calls |-> 1, provider |-> reported.provider,
                        attempt |-> reported.package.attempt, input |-> reported]
<1>5. PICK receipt : receipt = build_online_consumption_receipt(pk, final_input(Online, pk), evidence)
  OBVIOUS
<1>6. PICK E : E = delivered'
  OBVIOUS
<1>7. /\ run = NoRun /\ run' = NoRun /\ UNCHANGED <<now, bundles, durable>>
      /\ b # NoBundle => evidence_admissible(b, plan, revision)
      /\ E = IF replayed = 0 THEN Append(D, physical) ELSE D
      /\ online' = receipt
  BY <1>1, <1>2, <1>3, <1>4, <1>5, <1>6 DEF call_online
<1>8. /\ DeliveredOk(D, B) /\ AttemptsOk(d, B, D) /\ GoodBundles(B) /\ now \in Plans /\ Carried(b, B)
  BY <1>1, OfferedCarried DEF ContextInv
<1>9. Backed(pk, B) /\ Hiding(pk, ShownIn(D)) /\ pk.provider = Online
  <2>1. Admitted(b, B, plan, revision)
    BY <1>7, <1>8 DEF Admitted
  <2> QED
    BY <1>2, <1>8, <2>1, OnlinePackage
<1>10. physical.package = pk
  BY <1>3
<1>11. /\ DeliveredOk(E, B) /\ Later(D, E, B, B)
       /\ replayed = 0 => \E k \in DOMAIN E : E[k] = physical
  <2>1. CASE replayed = 0
    <3>1. /\ DeliveredOk(Append(D, physical), B) /\ Later(D, Append(D, physical), B, B)
          /\ \E k \in DOMAIN Append(D, physical) : Append(D, physical)[k] = physical
      BY <1>8, <1>9, <1>10, OneMore
    <3> QED
      BY <1>7, <2>1, <3>1
  <2>2. CASE replayed # 0
    BY <1>7, <1>8, <2>2 DEF Later
  <2> QED
    BY <2>1, <2>2
<1>12. AttemptsOk(d, B, E)
  BY <1>8, <1>11, LaterAll
<1>13. receipt.package = pk /\ (receipt.proven => reported = final_input(Online, pk))
  BY <1>5 DEF build_online_consumption_receipt
<1>14. Received(receipt, E)
  <2> SUFFICES ASSUME receipt.proven PROVE \E k \in DOMAIN E : E[k] = final_input(Online, pk)
    BY <1>9, <1>13 DEF Received
  <2>1. reported = final_input(Online, pk)
    BY <1>13
  <2>2. CASE replayed = 0
    BY <1>4, <1>11, <2>1, <2>2
  <2>3. CASE replayed # 0
    <3>1. Len(D) \in Nat /\ DOMAIN D = 1..Len(D)
      BY <1>8, SequenceFacts DEF DeliveredOk
    <3>2. replayed \in DOMAIN D
      BY <1>1, <2>3, <3>1
    <3> QED
      BY <1>4, <1>7, <2>1, <2>3, <3>2
  <2> QED
    BY <2>2, <2>3
<1>15. TrackerOk(NoRun, B, E) /\ Running(NoRun, d)
  BY DEF TrackerOk, Running, NoRun
<1>16. bundles' = B /\ delivered' = E /\ durable' = d /\ online' = receipt /\ now' = now /\ run' = NoRun
  BY <1>1, <1>6, <1>7
<1> QED
  BY <1>8, <1>11, <1>12, <1>14, <1>15, <1>16 DEF ContextInv

\* ContextInv is an invariant of the coordinator.
LEMMA ContextInvHolds == ContextSpec => []ContextInv
<1>1. ContextInit => ContextInv
  <2> SUFFICES ASSUME ContextInit PROVE ContextInv
    OBVIOUS
  <2>1. now \in Plans /\ bundles = {} /\ run = NoRun /\ delivered = <<>> /\ online = NoReceipt
    BY Zenon DEF ContextInit
  <2>2. durable = [a \in Tries |-> attempt_state("NONE", NoRequest, {}, NoReceipt)]
    BY Zenon DEF ContextInit
  <2>3. NoReceipt.proven = FALSE /\ NoReceipt.package = NoPackage
    BY DEF NoReceipt
  <2>4. NoPackage.payloads = {}
    BY Zenon DEF NoPackage, build_planner_consumer_context_package, build_context_assembly_contract
  <2>5. PICK d : d = attempt_state("NONE", NoRequest, {}, NoReceipt)
    OBVIOUS
  <2>6. d.status = "NONE" /\ d.report = {} /\ d.receipt = NoReceipt
    BY <2>5 DEF attempt_state
  <2>7. Received(NoReceipt, <<>>)
    BY <2>3 DEF Received
  <2>8. AttemptOk(d, {}, <<>>)
    BY <2>3, <2>4, <2>6, <2>7 DEF AttemptOk, Saved, ReportWhole
  <2>9. AttemptsOk(durable, {}, <<>>)
    BY <2>2, <2>5, <2>8 DEF AttemptsOk
  <2>10. DeliveredOk(<<>>, {}) /\ GoodBundles({})
    <3>1. <<>> \in Seq({}) /\ DOMAIN <<>> = {}
      OBVIOUS
    <3> QED
      BY <3>1 DEF DeliveredOk, GoodBundles, Sequence
  <2>11. TrackerOk(NoRun, {}, <<>>) /\ Running(NoRun, durable)
    BY DEF TrackerOk, Running, NoRun
  <2> QED
    BY <2>1, <2>7, <2>9, <2>10, <2>11 DEF ContextInv
<1>2. ContextInv /\ [ContextNext]_context_vars => ContextInv'
  <2> SUFFICES ASSUME ContextInv, [ContextNext]_context_vars PROVE ContextInv'
    OBVIOUS
  <2>1. CASE replan
    BY <2>1, ReplanKeeps
  <2>2. ASSUME NEW stages \in Stages, materialize(stages) PROVE ContextInv'
    BY <2>2, MaterializeKeeps
  <2>3. ASSUME NEW stages \in Stages, NEW b \in bundles, reseal(b, stages) PROVE ContextInv'
    BY <2>3, ResealKeeps
  <2>4. ASSUME NEW a \in Tries, NEW b \in offered, NEW asked \in Asks, submit(a, b, asked) PROVE ContextInv'
    BY <2>4, SubmitKeeps
  <2>5. ASSUME NEW a \in Tries, relaunch(a) PROVE ContextInv'
    BY <2>5, RelaunchKeeps
  <2>6. ASSUME NEW smaller \in BOOLEAN, prompt(smaller) PROVE ContextInv'
    BY <2>6, PromptKeeps
  <2>7. ASSUME NEW provider \in Providers, NEW called \in Providers \cup {"none"}, invoke(provider, called)
        PROVE ContextInv'
    BY <2>7, InvokeKeeps
  <2>8. ASSUME NEW named \in Providers \cup {"", "none"}, returned(named) PROVE ContextInv'
    BY <2>8, ReturnedKeeps
  <2>9. CASE checkpoint
    BY <2>9, WorkerCheckpointKeeps
  <2>10. CASE crash
    BY <2>10, CrashKeeps
  <2>11. ASSUME NEW a \in Tries, NEW wanted \in 1..MaxBlocks, recall(a, wanted) PROVE ContextInv'
    BY <2>11, RecallKeeps
  <2>12. ASSUME NEW a \in Tries, NEW b \in offered, NEW appended \in BOOLEAN,
                NEW replayed \in 0..Len(delivered), call_online(a, b, appended, replayed)
         PROVE ContextInv'
    BY <2>12, CallOnlineKeeps
  <2>13. CASE UNCHANGED context_vars
    BY <2>13 DEF context_vars, ContextInv
  <2> QED
    BY <2>1, <2>2, <2>3, <2>4, <2>5, <2>6, <2>7, <2>8, <2>9, <2>10, <2>11, <2>12, <2>13 DEF ContextNext
<1> QED
  BY <1>1, <1>2, PTL DEF ContextSpec

\* A package with a proven receipt was physically received as it is, whatever
\* provider the adapter names, whatever it adds to the input or replays, and
\* wherever the process is lost (build_online_consumption_receipt and the
\* coordinator's checkpoint).
THEOREM ProvenIsConsumed == ContextSpec => []ProvenConsumed
<1>1. ContextInv => ProvenConsumed
  <2> SUFFICES ASSUME ContextInv, NEW r \in {online} \cup {durable[a].receipt : a \in Tries}, r.proven
               PROVE  \E k \in DOMAIN delivered : delivered[k] = final_input(r.package.provider, r.package)
    BY DEF ProvenConsumed
  <2>1. Received(r, delivered)
    BY DEF ContextInv, AttemptsOk, AttemptOk
  <2> QED
    BY <2>1 DEF Received
<1> QED
  BY <1>1, ContextInvHolds, PTL

\* A block is left out of a package only if nothing protects it and an earlier
\* package showed it, and the report saved with the attempt gives each of them
\* back once (decide_visibility, build_admission_receipt, restore_visible_text).
THEOREM HiddenIsRecoverable == ContextSpec => []HiddenRecoverable
<1>1. ContextInv => HiddenRecoverable
  <2> SUFFICES ASSUME ContextInv PROVE HiddenRecoverable
    OBVIOUS
  <2>1. ASSUME NEW k \in DOMAIN delivered PROVE HidesShown(delivered, k)
    BY DEF ContextInv, DeliveredOk
  <2>2. ASSUME NEW a \in Tries PROVE Saved(durable[a].receipt.package, durable[a].report)
    BY DEF ContextInv, AttemptsOk, AttemptOk
  <2>3. ASSUME NEW a \in Tries, NEW r \in durable[a].report
        PROVE  /\ Len(r.receipt.visible) + tokens_saved_now(r.receipt) = Len(r.source)
               /\ ToSet(r.receipt.visible) \cup (DOMAIN r.receipt.hidden \ r.receipt.recalled) = DOMAIN r.source
    <3>1. Payload(r.source) /\ Whole(r.receipt, r.source)
      BY DEF ContextInv, AttemptsOk, AttemptOk, ReportWhole
    <3>2. DOMAIN r.source = 1..Len(r.source)
      BY <3>1, SequenceFacts DEF Payload
    <3> QED
      BY <3>1, <3>2 DEF Whole, tokens_saved_now
  <2> QED
    BY <2>1, <2>2, <2>3 DEF HiddenRecoverable, HidesShown, Saved
<1> QED
  BY <1>1, ContextInvHolds, PTL

\* The same bundle with another outcome of a receipt-only capability shows the same.
LEMMA OutcomeUnseen ==
  ASSUME NEW b, GoodBundle(b), NEW c \in ReceiptOnly, NEW st
  PROVE  build_online_context_package(b, b.body.plan, "", Online)
           = build_online_context_package(with_outcome(b, c, st), with_outcome(b, c, st).body.plan, "", Online)
<1>1. PICK w : w = with_outcome(b, c, st)
  OBVIOUS
<1> DEFINE new(e) == IF e.name = c THEN bundle_entry(c, st, e.phase) ELSE e
<1>2. /\ w.body.plan = b.body.plan /\ w.body.revision = b.body.revision
      /\ w.body.selected = b.body.selected
      /\ w.body.entries = {new(e) : e \in b.body.entries}
  BY <1>1 DEF with_outcome, sealed
<1>3. b # NoBundle /\ w # NoBundle
  BY <1>2, NoBundlePlan DEF GoodBundle
<1>4. ASSUME NEW e \in b.body.entries
      PROVE  new(e).name = e.name /\ (e.visible <=> new(e).visible) /\ (e.visible => new(e) = e)
  <2>1. CASE e.name # c
    BY <2>1
  <2>2. CASE e.name = c
    <3>1. ~e.visible
      BY <2>2 DEF GoodBundle, GoodEntry
    <3>2. new(e).name = c /\ ~new(e).visible
      BY <2>2 DEF bundle_entry
    <3> QED
      BY <2>2, <3>1, <3>2
  <2> QED
    BY <2>1, <2>2
<1> HIDE DEF new
<1>5. prompt_visible_entries(w.body) = prompt_visible_entries(b.body)
  BY <1>2, <1>4 DEF prompt_visible_entries, entry_prompt_visible
<1>6. {e.name : e \in w.body.entries \ prompt_visible_entries(w.body)}
        = {e.name : e \in b.body.entries \ prompt_visible_entries(b.body)}
  <2>1. \A e \in w.body.entries \ prompt_visible_entries(w.body) :
          \E x \in b.body.entries \ prompt_visible_entries(b.body) : x.name = e.name
    BY <1>2, <1>4 DEF prompt_visible_entries, entry_prompt_visible
  <2>2. \A x \in b.body.entries \ prompt_visible_entries(b.body) :
          \E e \in w.body.entries \ prompt_visible_entries(w.body) : e.name = x.name
    BY <1>2, <1>4 DEF prompt_visible_entries, entry_prompt_visible
  <2> QED
    BY <2>1, <2>2
<1>7. compute_visible_bundle_hash(w.body) = compute_visible_bundle_hash(b.body)
  BY <1>2, <1>5, <1>6, Zenon DEF compute_visible_bundle_hash
<1>8. projected_entries(w) = projected_entries(b)
  BY <1>3, <1>5, Zenon DEF projected_entries
<1>9. with_payload(w) = with_payload(b)
  BY <1>8, Zenon DEF with_payload
<1>10. build_online_context_package(w, w.body.plan, "", Online) = build_online_context_package(b, b.body.plan, "", Online)
  BY <1>2, <1>3, <1>7, <1>8, <1>9, Zenon
     DEF build_online_context_package, build_planner_consumer_context_package
<1> QED
  BY <1>1, <1>10, Zenon

\* What a provider is shown was produced by real work for the plan of its
\* package, also when a host changed the bundle on the way, and the package is
\* the same whatever a receipt-only capability reported (_evidence_projection,
\* entry_prompt_visible, compute_visible_bundle_hash).
THEOREM EvidenceIsGenuine == ContextSpec => []EvidenceGenuine
<1>1. ContextInv => EvidenceGenuine
  <2> SUFFICES ASSUME ContextInv PROVE EvidenceGenuine
    OBVIOUS
  <2>1. ASSUME NEW k \in DOMAIN delivered PROVE Backed(delivered[k].package, bundles)
    BY DEF ContextInv, DeliveredOk
  <2>2. ASSUME NEW b \in bundles, NEW c \in ReceiptOnly, NEW stages \in Stages
        PROVE  build_online_context_package(b, b.body.plan, "", Online)
                 = build_online_context_package(with_outcome(b, c, stages[c]),
                     with_outcome(b, c, stages[c]).body.plan, "", Online)
    BY OutcomeUnseen DEF ContextInv, GoodBundles
  <2> QED
    BY <2>1, <2>2, Zenon DEF EvidenceGenuine, Backed
<1> QED
  BY <1>1, ContextInvHolds, PTL

===========================================================================
