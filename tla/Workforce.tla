----------------------------- MODULE Workforce -----------------------------
(***************************************************************************)
(* The model workforce policy: which policy files                          *)
(* planning/services/model_workforce_policy.py accepts, how it resolves a  *)
(* route and admits a request, how planning/services/                      *)
(* runtime_workforce_admission.py turns demands and bindings into          *)
(* admission records, and what kernel/admission.py makes of them.  All     *)
(* operators are pure; ModelCalls holds the file and the loader's cache.   *)
(***************************************************************************)
EXTENDS Naturals, FiniteSets, Sequences

CONSTANTS NoWorker   \* where the code has None or an empty string

\* A worker: who it is, whether it may be used, and for what.
\* ceiling, autonomy: the rank of an autonomy level.  context: the size of
\* the context, 1 tightly bounded, 2 bounded, 3 full.
Worker ==
  [provider : STRING, model : STRING,
   state : {"ADMITTED", "EXPERIMENT_ONLY", "DISABLED"}, available : BOOLEAN,
   roles : SUBSET STRING, ceiling : Nat, context : 1..3, requires : SUBSET STRING,
   read_only : BOOLEAN, regressed : BOOLEAN, default_route : BOOLEAN,
   successor : {"no", "undisposed", "disposed"}]

\* A policy file that parses: workers by id; online routes by role (qualified:
\* the target is written worker_when_condition); route_defaults and the role's
\* _fallback key; the overrides; headers: schema, status, authority, date,
\* declared states and flags are as required.
Policy ==
  [headers : BOOLEAN, workers : [STRING -> Worker], online : [STRING -> STRING],
   qualified : SUBSET STRING, defaults : [STRING -> [current : STRING, fallback : STRING]],
   fallbacks : [STRING -> STRING], campaign : [STRING -> STRING],
   consumer : [STRING -> STRING], local_first : [STRING -> STRING]]

---------------------------------------------------------------------------
(* WorkforcePolicyLoader.load                                              *)

in_service(w) == w.state # "DISABLED" /\ w.available

unique_identities(p) ==
  \A v, w \in DOMAIN p.workers :
    /\ p.workers[v].provider = p.workers[w].provider
    /\ p.workers[v].model = p.workers[w].model
    => v = w

\* An override or a default: a worker in service that advertises the role.
serves(p, id, role) ==
  id \in DOMAIN p.workers /\ in_service(p.workers[id]) /\ role \in p.workers[id].roles

\* A direct route only has to advertise its role if the role has a default.
routes_valid(p) ==
  \A role \in DOMAIN p.online :
    /\ p.online[role] \in DOMAIN p.workers
    /\ in_service(p.workers[p.online[role]])
    /\ role \in DOMAIN p.defaults => role \in p.workers[p.online[role]].roles

\* The default is the role's direct route and the only worker that claims to
\* be it; the fallback is on file twice, possibly as null, and is another.
defaults_valid(p) ==
  \A role \in DOMAIN p.defaults :
    LET d == p.defaults[role] IN
    /\ role \in DOMAIN p.online /\ p.online[role] = d.current /\ role \notin p.qualified
    /\ role \in DOMAIN p.fallbacks /\ p.fallbacks[role] = d.fallback
    /\ d.current # d.fallback
    /\ serves(p, d.current, role)
    /\ d.fallback # NoWorker => serves(p, d.fallback, role)
    /\ {id \in DOMAIN p.workers : role \in p.workers[id].roles /\ p.workers[id].default_route}
         = {d.current}

overrides_valid(p) ==
  \A scope \in {p.campaign, p.consumer} : \A role \in DOMAIN scope : serves(p, scope[role], role)

successors_valid(p) == \A id \in DOMAIN p.workers : p.workers[id].successor # "undisposed"

\* _validate_route_targets and the checks before it.
valid(p) ==
  /\ p.headers
  /\ DOMAIN p.workers # {}
  /\ unique_identities(p)
  /\ routes_valid(p) /\ defaults_valid(p) /\ successors_valid(p) /\ overrides_valid(p)

\* resolve_route: the campaign's worker, else the consumer's, else the global
\* one; a qualified target is returned as it is written, which names nobody.
resolve_route(p, role, campaign, consumer) ==
  CASE campaign /\ role \in DOMAIN p.campaign -> p.campaign[role]
    [] ~(campaign /\ role \in DOMAIN p.campaign) /\ consumer /\ role \in DOMAIN p.consumer
         -> p.consumer[role]
    [] OTHER -> IF role \in DOMAIN p.online \ p.qualified THEN p.online[role] ELSE NoWorker

---------------------------------------------------------------------------
(* WorkforcePolicyLoader.admit                                             *)

\* A request names a worker by id, by provider and model, or by model alone;
\* an id that does not carry the provider or the model named beside it is
\* blocked, and so is a match that is not unique.
matches(p, q) ==
  {id \in DOMAIN p.workers :
     /\ q.worker # NoWorker => q.worker = id
     /\ q.provider # NoWorker => q.provider = p.workers[id].provider
     /\ q.model # NoWorker => q.model = p.workers[id].model}

resolvable(p, q) ==
  /\ q.worker # NoWorker \/ q.model # NoWorker
  /\ Cardinality(matches(p, q)) = 1

resolved(p, q) == CHOOSE id \in matches(p, q) : TRUE

blocked(p, q) ==
  \/ ~q.authorized
  \/ ~resolvable(p, q)
  \/ LET w == p.workers[resolved(p, q)] IN
       \/ ~in_service(w)
       \/ w.state = "EXPERIMENT_ONLY" /\ ~q.experiment
       \/ ~(w.requires \subseteq q.controls)

\* More than the worker is trusted with: its role, its autonomy, its context
\* (never full for a local model), or a change of files it may not make.
escalated(p, q) ==
  LET w == p.workers[resolved(p, q)] IN
  \/ q.role \notin w.roles
  \/ q.autonomy > w.ceiling
  \/ q.context > w.context
  \/ q.context = 3 /\ (w.provider = "ollama" \/ w.regressed)
  \/ q.mutates /\ w.read_only

admit(p, q) ==
  CASE blocked(p, q) -> "BLOCK"
    [] ~blocked(p, q) /\ escalated(p, q) -> "ESCALATE"
    [] OTHER -> "ALLOW"

---------------------------------------------------------------------------
(* evaluate_runtime_workforce_admission                                    *)

\* A demand of the planner, and the binding the route has for its channel.
Demand ==
  [channel : STRING, role : STRING, autonomy : Nat, context : 1..3, mutates : BOOLEAN,
   authorized : BOOLEAN]
Binding ==
  [sound : BOOLEAN, worker : STRING \cup {NoWorker}, provider : STRING \cup {NoWorker},
   model : STRING \cup {NoWorker}, controls : SUBSET STRING, experiment : BOOLEAN]

request_for(d, b) ==
  [worker |-> b.worker, provider |-> b.provider, model |-> b.model, role |-> d.role,
   autonomy |-> d.autonomy, context |-> d.context, mutates |-> d.mutates,
   experiment |-> b.experiment, authorized |-> d.authorized, controls |-> b.controls]

\* _synthetic_decision, for demand number i.
refused(i, d) ==
  [demand |-> i, channel |-> d.channel, mutates |-> d.mutates, decision |-> "BLOCK",
   id |-> NoWorker, provider |-> NoWorker, model |-> NoWorker]

names_somebody(b) == {b.worker, b.provider, b.model} # {NoWorker}

\* One demand's record against the snapshot p; bindings is keyed by channel.
admission_record(p, i, d, bindings) ==
  IF d.channel \notin DOMAIN bindings THEN refused(i, d)
  ELSE LET b == bindings[d.channel]
           q == request_for(d, b)
       IN CASE ~b.sound \/ ~names_somebody(b) -> refused(i, d)
            [] b.sound /\ names_somebody(b) /\ ~resolvable(p, q) ->
                 [refused(i, d) EXCEPT !.decision = admit(p, q)]
            [] OTHER ->
                 [refused(i, d) EXCEPT !.decision = admit(p, q), !.id = resolved(p, q),
                                       !.provider = p.workers[resolved(p, q)].provider,
                                       !.model = p.workers[resolved(p, q)].model]

overall_decision(records) ==
  LET decisions == {r.decision : r \in records} IN
  CASE "BLOCK" \in decisions -> "BLOCK"
    [] "BLOCK" \notin decisions /\ "ESCALATE" \in decisions -> "ESCALATE"
    [] OTHER -> "ALLOW"

\* No demands, or none that parse: BLOCK without a record.  A policy that
\* does not load: every demand is refused.
evaluate(loaded, p, demands, bindings) ==
  LET records == {IF loaded THEN admission_record(p, i, demands[i], bindings)
                            ELSE refused(i, demands[i]) : i \in DOMAIN demands}
  IN [records |-> records,
      decision |-> IF demands = <<>> THEN "BLOCK" ELSE overall_decision(records)]

---------------------------------------------------------------------------
(* kernel/admission.py                                                     *)

of_channel(result, channel) == {r \in result.records : r.channel = channel}

\* The records are hashed as they were made, so an authority is built from
\* the one record of its channel, or not at all.
channel_record(result, channel) == CHOOSE r \in of_channel(result, channel) : TRUE

\* _build_local_model_invocation_authority
local_authority(result) ==
  /\ Cardinality(of_channel(result, "local")) = 1
  /\ channel_record(result, "local").decision = "ALLOW"
  /\ result.decision = "ALLOW"

\* _build_gateway_invocation_authority: the providers the route, its
\* transport and the invoker name, and the model, are the admitted ones.
\* (A workforce dispatcher names no provider and takes the admitted one.)
gateway_authority(result, r) ==
  /\ result.decision = "ALLOW"
  /\ Cardinality(of_channel(result, "online")) = 1
  /\ LET record == channel_record(result, "online") IN
       /\ record.decision = "ALLOW"
       /\ {r.provider, r.transport, r.invoker} \subseteq {record.provider, NoWorker}
       /\ r.invoker # NoWorker \/ r.dispatcher
       /\ r.model \in {record.model, NoWorker}

---------------------------------------------------------------------------
(* model_default_resolution.py                                             *)

\* The default local model of a role.
default_model(p, role, provider) ==
  LET id == IF role \in DOMAIN p.local_first THEN p.local_first[role] ELSE NoWorker IN
  IF id # NoWorker /\ serves(p, id, role) /\ p.workers[id].provider = provider
    THEN p.workers[id].model ELSE NoWorker
====
