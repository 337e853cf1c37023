---------------------------- MODULE ModelCalls ----------------------------
(***************************************************************************)
(* One task's model calls: the workforce policy file with the loader that  *)
(* caches it, the workspace's online policy file, the admission of the     *)
(* call, the Local answer it builds on, and the provider process with its  *)
(* group, which may hang and may ignore a signal.                          *)
(*                                                                         *)
(* Both files are edited while calls run.  A call reads the policy file    *)
(* once, when it is evaluated, and the workspace file once or twice, when  *)
(* the Online decision is resolved.                                        *)
(***************************************************************************)
EXTENDS OnlineCalls, RuntimeStages

CONSTANTS
  Policies,      \* the contents the workforce policy file may have, by name
  Workspaces,    \* the contents the workspace's policy file may have
  Requests,      \* the calls that are made
  LocalAnswers,  \* what the Local service may answer
  Exits,         \* how a provider process may end
  MaxEdits, MaxCalls

ASSUME NoWorkerAssumption == NoWorker \notin STRING \cup Registered
ASSUME FilesAssumption == Workspaces \subseteq WorkspaceFile
ASSUME LocalAssumption == LocalAnswers \subseteq LocalAnswer
ASSUME PoliciesAssumption ==
  \A p \in DOMAIN Policies : \A id \in DOMAIN Policies[p].workers : Policies[p].workers[id] \in Worker
ASSUME RequestsAssumption ==
  \A r \in Requests :
    /\ \A i \in DOMAIN r.demands : r.demands[i] \in Demand
    /\ \A ch \in DOMAIN r.bindings : r.bindings[ch] \in Binding
    /\ r.mutates \in BOOLEAN

\* The processes of a provider: the one that was started and its worker.
Group == {"leader", "worker"}
NoCall == [pc |-> "idle"]
NoProcess == [provider |-> NoWorker, forwarded |-> FALSE, model |-> NoWorker]

VARIABLES
  policy,     \* the workforce policy file, by name
  cache,      \* WorkforcePolicyLoader._cached_snapshot, or NoWorker
  route,      \* the worker a caller resolved last, or NoWorker
  workspace,  \* the workspace's online policy file
  call,       \* the call in progress, or the last one
  group,      \* the provider's processes that are alive
  edits, calls

vars == <<policy, cache, route, workspace, call, group, edits, calls>>

Init ==
  /\ policy \in DOMAIN Policies
  /\ cache = NoWorker
  /\ route = NoWorker
  /\ workspace \in Workspaces
  /\ call = NoCall
  /\ group = {}
  /\ edits = 0 /\ calls = 0

Over == call.pc \in {"idle", "done"}
req == call.req
file_policy == Policies[policy]
step(c) == call' = c
end(c, answer) == step([c EXCEPT !.pc = "done", !.answer = answer])

edit_policy(p) ==
  /\ edits < MaxEdits /\ edits' = edits + 1
  /\ policy' = p
  /\ UNCHANGED <<cache, route, workspace, call, group, calls>>

edit_workspace(f) ==
  /\ edits < MaxEdits /\ edits' = edits + 1
  /\ workspace' = f
  /\ UNCHANGED <<policy, cache, route, call, group, calls>>

---------------------------------------------------------------------------
(* Routing and admission.                                                  *)

\* The end of WorkforcePolicyLoader.load: a rejected file leaves the cache.
cached(p) == IF valid(Policies[p]) THEN p ELSE cache

\* resolve_route: from the cache, which only load refreshes.
resolve(role, campaign, consumer) ==
  LET p == IF cache # NoWorker THEN Policies[cache] ELSE file_policy IN
  /\ Over /\ calls < MaxCalls
  /\ cache # NoWorker \/ valid(file_policy)
  /\ cache' = IF cache # NoWorker THEN cache ELSE cached(policy)
  /\ route' = resolve_route(p, role, campaign, consumer)
  /\ UNCHANGED <<policy, workspace, call, group, edits, calls>>

\* A caller makes a call; a routed one binds Online to the resolved worker.
request(r) ==
  /\ Over /\ calls < MaxCalls /\ calls' = calls + 1
  /\ step([pc |-> "evaluate", req |-> r, routed |-> route,
           snapshot |-> NoWorker, authority |-> NoWorker, admitted |-> {}, local |-> not_requested,
           advisory |-> "none", packet |-> "none", sound |-> TRUE, read |-> <<>>,
           decision |-> decision("none", FALSE, FALSE), started |-> NoProcess,
           answer |-> not_invoked, how |-> "none"])
  /\ UNCHANGED <<policy, cache, route, workspace, group, edits>>

bindings ==
  [ch \in DOMAIN req.bindings |->
     IF req.routed /\ ch = "online" THEN [req.bindings[ch] EXCEPT !.worker = call.routed]
                                    ELSE req.bindings[ch]]

\* evaluate_runtime_workforce_admission: loads the file afresh.  The run goes
\* on if everything is allowed, with the authority of each channel.
evaluate_admission ==
  LET result == evaluate(valid(file_policy), file_policy, req.demands, bindings)
      gateway == gateway_authority(result, [req.invoker EXCEPT !.model = req.model])
  IN
  /\ call.pc = "evaluate"
  /\ cache' = cached(policy)
  /\ IF result.decision # "ALLOW"
       THEN end([call EXCEPT !.snapshot = policy], not_invoked)
       ELSE step([call EXCEPT !.pc = "local", !.snapshot = policy,
                              !.admitted = IF local_authority(result) THEN {"local"} ELSE {},
                              !.authority = IF gateway THEN channel_record(result, "online")
                                                       ELSE NoWorker])
  /\ UNCHANGED <<policy, route, workspace, group, edits, calls>>

---------------------------------------------------------------------------
(* Local.                                                                  *)

\* What an answer has to be before its text may be shown to another model:
\* for this task, delivered, not failed by its own verifier, and the work of
\* what was admitted, an executor that ran in isolation or an advisor that
\* ran none.
sound(a, mutates) ==
  /\ a.task # "other" /\ a.delivered /\ a.verifier # "fail"
  /\ IF mutates THEN a.executor /\ a.isolated ELSE ~a.executor

run_local ==
  /\ call.pc = "local"
  /\ \/ /\ ~req.local
        /\ step([call EXCEPT !.pc = "decide"])
     \/ /\ req.local /\ "local" \notin call.admitted
        /\ step([call EXCEPT !.pc = "decide", !.local = stage("FAILED", FALSE, TRUE, FALSE)])
     \/ /\ req.local /\ "local" \in call.admitted
        /\ \E a \in LocalAnswers :
             step([call EXCEPT !.pc = "decide", !.advisory = a.advisory,
                               !.local = local_stage(a, req.closable,
                                                     IF req.mutates THEN "mutating" ELSE "advising"),
                               !.packet = a.packet, !.sound = sound(a, req.mutates)])
  /\ UNCHANGED <<policy, cache, route, workspace, group, edits, calls>>

---------------------------------------------------------------------------
(* Online.                                                                 *)

\* Resolves the decision from a task policy and the file as it is now.
resolve_with(task, injected) ==
  resolve_online_execution_decision(task, workspace, TRUE, injected, req.invoker.provider,
                                    req.env)

\* The decision of _run_once: resolved, perhaps again, and narrowed.
decide ==
  LET first == resolve_with(req.task, injected_flag(req.task, req.invoker, req.hint))
      seen == [call EXCEPT !.read = <<workspace>>]
  IN
  /\ call.pc = "decide"
  /\ IF implicit_auto(req.task, req.invoker, first)
       THEN step([seen EXCEPT !.pc = "decide_again"])
       ELSE step([seen EXCEPT !.pc = "online", !.decision = narrow(first, req.hint)])
  /\ UNCHANGED <<policy, cache, route, workspace, group, edits, calls>>

decide_again ==
  /\ call.pc = "decide_again"
  /\ step([call EXCEPT !.pc = "online", !.read = Append(@, workspace),
                       !.decision = narrow(resolve_with("auto", FALSE), req.hint)])
  /\ UNCHANGED <<policy, cache, route, workspace, group, edits, calls>>

\* _run_online: the gates before the invoker.
open ==
  /\ call.authority # NoWorker
  /\ online_gates(call.local, call.advisory, req.closable, call.decision.authorized)

\* build_registered_online_invoker and build_subprocess_online_invoker, up to
\* the start of the process.  The command and, for ollama, the default model
\* are resolved here, after the authorization.
model_name == IF req.invoker.model # NoWorker THEN req.invoker.model
                                                   ELSE call.authority.model
command == resolve_command(req.invoker, req.env)
default_name == IF valid(file_policy) THEN default_model(file_policy, "compact_diagnosis", "ollama") ELSE NoWorker
startable ==
  /\ ~model_binding_failure(req.invoker.provider, model_name, call.authority)
  /\ physical_online_authorized(call.decision)
  /\ command # NoWorker
  /\ ~command_refused(req.invoker.provider, command, model_name, call.authority, req.prompt)
  /\ req.package = "valid"

\* The process starts, or the operating system refuses it.
run_online ==
  LET provider == req.invoker.provider
      shown == online_view(call.local)
  IN
  /\ call.pc = "online"
  /\ \/ ~open /\ end(call, not_invoked) /\ UNCHANGED group
     \/ /\ open /\ ~req.invoker.physical      \* an in-process fixture
        /\ \E x \in Exits : end(call, exit_answer("fixture", x))
        /\ UNCHANGED group
     \/ /\ open /\ req.invoker.physical /\ ~startable
        /\ end(call, not_invoked) /\ UNCHANGED group
     \/ /\ open /\ req.invoker.physical /\ startable
        /\ \/ end([call EXCEPT !.how = "oserror"], not_invoked) /\ UNCHANGED group
           \/ /\ group' = Group
              /\ step([call EXCEPT !.pc = "running",
                         !.started = [provider |-> provider, forwarded |-> shown.output,
                                      model |-> argv_model(provider, command, model_name, default_name)]])
  /\ UNCHANGED <<policy, cache, route, workspace, edits, calls>>

---------------------------------------------------------------------------
(* _run_provider_process_group                                             *)

\* The provider ends by itself: the leader is gone and nobody holds its output,
\* but a worker that let go of it may live on.
exit ==
  /\ call.pc = "running"
  /\ group' \in {{}, {"worker"}}
  /\ \E x \in Exits : end([call EXCEPT !.how = "exit"], exit_answer(call.started.provider, x))
  /\ UNCHANGED <<policy, cache, route, workspace, edits, calls>>

\* The timeout: SIGTERM to the group; each process obeys or does not.
timeout ==
  /\ call.pc = "running"
  /\ \E survivors \in SUBSET group : group' = survivors
  /\ step([call EXCEPT !.pc = "grace", !.how = "timeout"])
  /\ UNCHANGED <<policy, cache, route, workspace, edits, calls>>

\* SIGKILL reaches whoever is left of the group, whether the leader obeyed
\* the first signal or the grace ran out.
kill == {}

\* Mutant of terminate: the wait after SIGTERM has no timeout.
mutant_terminate ==
  /\ call.pc = "grace" /\ "leader" \notin group
  /\ group' = kill
  /\ end(call, timed_out)
  /\ UNCHANGED <<policy, cache, route, workspace, edits, calls>>

terminate ==
  /\ call.pc = "grace"
  /\ group' = kill
  /\ end(call, timed_out)
  /\ UNCHANGED <<policy, cache, route, workspace, edits, calls>>

---------------------------------------------------------------------------
Call == evaluate_admission \/ run_local \/ decide \/ decide_again \/ run_online \/ timeout \/ terminate

Next ==
  \/ \E p \in DOMAIN Policies : edit_policy(p)
  \/ \E f \in Workspaces : edit_workspace(f)
  \/ \E role \in DOMAIN file_policy.online, campaign, consumer \in BOOLEAN : resolve(role, campaign, consumer)
  \/ \E r \in Requests : request(r)
  \/ Call
  \/ exit

Spec == Init /\ [][Next]_vars

\* The calling thread keeps running, and so does the clock it waits on.
FairSpec == Spec /\ WF_vars(timeout \/ terminate)

---------------------------------------------------------------------------
(* Properties.                                                             *)

started == call # NoCall /\ call.started.provider # NoWorker

\* A provider process is started with a provider and a model that the policy
\* file, as it was when the call was evaluated, admits for what the call asks:
\* whatever route was cached, whatever the request, the invoker and the
\* command line named.
CalledAsAdmitted ==
  started => \E id \in DOMAIN Policies[call.snapshot].workers, i \in DOMAIN req.demands :
    LET w == Policies[call.snapshot].workers[id]
        d == req.demands[i]
    IN /\ d.channel = "online" /\ d.authorized
       /\ w.provider = call.started.provider /\ w.model = call.started.model
       /\ in_service(w)
       /\ w.state = "EXPERIMENT_ONLY" => req.bindings["online"].experiment
       /\ d.role \in w.roles /\ d.autonomy <= w.ceiling
       /\ d.mutates => ~w.read_only

\* A provider process needs a signal of somebody's: never against the task's
\* deny, for a fixture, or over what the route gave away; and without a task
\* policy, the workspace file the call read first either allows it or is not
\* there to be read.
PhysicalOnlyIfAuthorized ==
  started =>
    /\ req.task # "deny"
    /\ req.invoker.physical
    /\ req.hint \notin {"injected", "deny"}
    /\ req.task = "" =>
         LET f == Head(call.read) IN f.state # "file" \/ f.policy \in {"auto", "require"}
    /\ LET f == call.read[Len(call.read)] IN
         f.state = "file" => f.transfer /\ (f.approved = {} \/ call.started.provider \in f.approved)

\* The provider is shown Local's output only if Local's answer was sound, and
\* is not started over Local's refusal: a closed or unusable advisory, or a
\* verified-assist packet that is missing or not the one the runtime built.
LocalRespected ==
  started =>
    /\ call.advisory \in {"none", "open"}
    /\ call.started.forwarded => call.sound /\ call.packet \in {"none", "same"}

\* A call that is over left nothing open: after a timeout nobody of the
\* provider's process group is alive, and the answer says invoked exactly if a
\* process was started, also if it timed out or failed, so that whoever retries
\* knows which of the two happened.
DoneMeansOver ==
  call.pc = "done" =>
    /\ call.how = "timeout" => group = {}
    /\ call.answer.invoked <=> started \/ (~req.invoker.physical /\ open)

\* A provider that hangs and ignores SIGTERM still ends the call.
CallEnds == call.pc = "running" ~> call.pc = "done"
====
