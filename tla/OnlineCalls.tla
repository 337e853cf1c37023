---------------------------- MODULE OnlineCalls ----------------------------
(***************************************************************************)
(* Whether an Online call may start a provider process, and with which     *)
(* command: support/services/online_execution_policy.py, the resolution of *)
(* the decision in kernel/unified_runtime.py, and kernel/transport.py.     *)
(* All operators are pure; ModelCalls runs them.                           *)
(***************************************************************************)
EXTENDS Workforce

---------------------------------------------------------------------------
(* kernel/constants.py: the registered command line providers.             *)

Registered == {"gemini", "agy", "grok", "codex", "openai", "opencode", "cline", "mimo", "ollama"}
\* Their command line takes the model; grok and openai are refused under an
\* authority because theirs does not.
ModelBinding == {"agy", "codex", "opencode", "cline", "mimo", "ollama"}
BindingUnsupported == {"grok", "openai"}
PrintFlag == {"gemini", "agy", "grok", "codex"}

---------------------------------------------------------------------------
(* online_execution_policy.py                                              *)

OnlinePolicies == {"deny", "auto", "require"}
DefaultApproved == {"gemini", "agy", "grok", "codex", "openai", "opencode"}

\* The workspace's policy file: its policy may be a word that is none.
WorkspaceFile ==
  [state : {"absent", "unreadable", "file"}, policy : OnlinePolicies \cup {"unknown"},
   approved : SUBSET Registered, transfer : BOOLEAN]

\* load_workspace_online_policy: a file that cannot be read counts as none.
load_workspace_online_policy(file) ==
  IF file.state # "file"
    THEN [policy |-> "deny", approved |-> DefaultApproved, transfer |-> TRUE, present |-> FALSE]
    ELSE [policy |-> file.policy, transfer |-> file.transfer, present |-> TRUE,
          approved |-> IF file.approved = {} THEN DefaultApproved ELSE file.approved]

\* A resolved decision: who decided, the call is authorized, and a real
\* provider process may be started for it.
decision(source, authorized, physical) ==
  [source |-> source, authorized |-> authorized, physical |-> physical]

\* The policy and its source, below a task's deny and an injected transport.
policy_of(task, ws, override) ==
  CASE task \in {"auto", "require"} -> [policy |-> task, source |-> "task"]
    [] task \notin {"auto", "require"} /\ ws.present ->
         [policy |-> IF ws.policy \in OnlinePolicies THEN ws.policy ELSE "deny",
          source |-> "workspace"]
    [] OTHER -> IF override THEN [policy |-> "auto", source |-> "environment"]
                            ELSE [policy |-> "deny", source |-> "default"]

\* The credentials of a required provider, or the binary it logs in with;
\* the operator's override waives them.
unauthenticated(chosen, provider, env) ==
  /\ provider \in DefaultApproved
  /\ chosen.policy = "require" /\ chosen.source # "environment"
  /\ ~env.credentials /\ ~env.binary

\* resolve_online_execution_decision.  (Its provider call budget is not here:
\* no caller passes a count.)
resolve_online_execution_decision(task, file, needed, injected, provider, env) ==
  LET ws == load_workspace_online_policy(file)
      chosen == policy_of(task, ws, env.override)
      ready ==
        /\ chosen.policy = "require" \/ (chosen.policy = "auto" /\ needed)
        /\ ws.transfer
        /\ chosen.policy = "require" => provider # NoWorker
        /\ provider \in ws.approved \cup {NoWorker, "injected", "gateway", "fixture"}
        /\ ~unauthenticated(chosen, provider, env)
  IN CASE task = "deny" -> decision("task", FALSE, FALSE)
       [] task # "deny" /\ injected -> decision("injected", TRUE, FALSE)
       [] OTHER -> decision(chosen.source, ready, ready)

\* _run_once before Online.  An in-process invoker that starts no process and
\* has no product policy to obey is a fixture; a physical one without a task
\* policy is taken for "auto" if nobody decided (a second resolution, of the
\* file as it is then).
fixture_transport(invoker) == ~invoker.physical
injected_flag(task, invoker, hint) ==
  fixture_transport(invoker) /\ (task \notin OnlinePolicies \/ hint = "injected")
implicit_auto(task, invoker, first) == task = "" /\ invoker.physical /\ first.source = "default"

\* Mutant of narrow: a hint of the route sets the physical permission.
mutant_narrow(d, hint) ==
  CASE hint = "deny" -> [d EXCEPT !.physical = FALSE]
    [] hint = "allow" -> [d EXCEPT !.authorized = TRUE, !.physical = TRUE]
    [] OTHER -> d

\* _narrow_online_decision: what the route says of itself only takes away.
narrow(d, hint) == IF hint \in {"injected", "deny"} THEN [d EXCEPT !.physical = FALSE] ELSE d

\* physical_online_authorized
physical_online_authorized(d) == d.authorized /\ d.physical

---------------------------------------------------------------------------
(* transport.py: the registered command line adapter.                      *)

\* Mutant of model_binding_failure: the model is not compared.
mutant_model_binding_failure(provider, model, authority) ==
  authority # NoWorker /\ (provider # authority.provider \/ model = NoWorker)

\* _registered_cli_model_binding_failure: authority is the admission record
\* the runtime built, or NoWorker where there is none.
model_binding_failure(provider, model, authority) ==
  /\ authority # NoWorker
  /\ \/ provider # authority.provider
     \/ provider \in BindingUnsupported
     \/ model = NoWorker
     \/ model # authority.model

\* A command: the bare executable, one that binds a model where the adapter
\* would, one with other arguments, one that waives permissions.
Command == [shape : {"bare", "bound", "other", "bypass"}, model : STRING]

\* resolve_registered_online_cli_spec: for a registered provider, the caller's
\* command, else the environment's, else the executable on the path, if any.
resolve_command(invoker, env) ==
  IF invoker.provider \notin Registered THEN NoWorker
  ELSE CASE invoker.command # NoWorker -> invoker.command
         [] invoker.command = NoWorker /\ env.command # NoWorker -> env.command
         [] OTHER -> IF env.binary THEN [shape |-> "bare", model |-> NoWorker] ELSE NoWorker

\* _agy_preflight_failure and agy_permission_mode: agy runs in plan mode, with
\* the runtime's arguments and no others.
agy_refuses(command, model) == command.shape # "bare" \/ model = NoWorker

\* cline_permission_bypass: the runtime owns every option, and a prompt that
\* could be read as one is refused.
cline_refuses(command, prompt) == command.shape # "bare" \/ prompt = "dashed"

\* A command that must carry the admitted model has to bind it where the
\* adapter would.
command_refused(provider, command, model, authority, prompt) ==
  \/ provider = "agy" /\ agy_refuses(command, model)
  \/ provider = "cline" /\ cline_refuses(command, prompt)
  \/ /\ authority # NoWorker /\ model # NoWorker /\ provider \in ModelBinding
     /\ command.shape # "bare"
     /\ ~(command.shape = "bound" /\ command.model = model)

\* The model the provider process is told to run; NoWorker: it is not told.
argv_model(provider, command, model, default) ==
  CASE command.shape # "bare" -> command.model
    [] command.shape = "bare" /\ provider \in PrintFlag ->
         IF provider \in ModelBinding THEN model ELSE NoWorker
    [] command.shape = "bare" /\ provider \in {"opencode", "cline", "mimo", "ollama"} ->
         IF model # NoWorker THEN model ELSE default
    [] OTHER -> NoWorker

\* What the provider's exit is turned into.  denied: it reports a refused
\* tool; identity: the model it logs is the admitted one (agy); finished: it
\* reports a clean finish (cline).
Exit == [code : {0, 1}, text : BOOLEAN, denied : BOOLEAN, identity : BOOLEAN, finished : BOOLEAN]

\* cline_delivery_failure: no clean finish.
cline_delivered(x) == x.finished /\ x.code = 0

\* agy_model_identity_verdict: the model that agy's own log names.
agy_delivered(x) == x.identity

exit_answer(provider, x) ==
  LET delivered == /\ x.text /\ ~x.denied
                   /\ provider = "agy" => agy_delivered(x)
                   /\ provider = "cline" => cline_delivered(x)
  IN [invoked |-> TRUE, delivered |-> delivered, gate |-> delivered /\ x.code = 0]

not_invoked == [invoked |-> FALSE, delivered |-> FALSE, gate |-> FALSE]

\* Mutant of timed_out: a call that timed out counts as not made.
mutant_timed_out == not_invoked

timed_out == [invoked |-> TRUE, delivered |-> FALSE, gate |-> FALSE]

====
