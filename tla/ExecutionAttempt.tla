-------------------------- MODULE ExecutionAttempt --------------------------
(***************************************************************************)
(* One execution attempt of one task (execution_coordination/              *)
(* coordinator.py) over the durable state of execution_state/store.py.     *)
(*                                                                         *)
(* launch() starts an operating-system process that runs the attempt in    *)
(* run_owned_attempt() / execute_attempt(); the process may die at any     *)
(* point and launch() may be called again, so every step between two       *)
(* writes of the durable state is an action.  The state store makes each   *)
(* write atomic (lock, temporary file, replace).  The process works on a   *)
(* snapshot of the state (doc) that it refreshes where the code does.      *)
(*                                                                         *)
(* Exceptions are one action, fail: the code raises where it refuses to go *)
(* on and the ports of the host may raise anywhere; both end in            *)
(* finalize_failure.  A refusal is a missing alternative here.             *)
(***************************************************************************)
EXTENDS Integers, Sequences, FiniteSets, SequencesExt

CONSTANTS
  Procs,            \* process ids, each started at most once: bounds launches
  Launchers,        \* concurrent callers of launch()
  InitialOrder,     \* contract.provider_order
  EscalationOrder,  \* contract.escalation_order
  MaxCalls,         \* contract.maximum_provider_calls
  MaxTries,         \* contract.maximum_attempts_per_task
  Gate              \* a model_call_gate is configured

ASSUME BudgetAssumption == MaxCalls \in Nat \ {0} /\ MaxTries \in Nat \ {0}
ASSUME GateAssumption == Gate \in BOOLEAN
ASSUME OrderAssumption == InitialOrder # <<>>
ASSUME ProcsAssumption == Procs \cap {"none", "idle", "cleared"} = {}

None == "none"
Providers == Range(InitialOrder) \cup Range(EscalationOrder)
\* What a receipt says of its worker: EXECUTION_COMPLETED with complete evidence,
\* a transient failure, or one that is deterministic; a worker that mutated the
\* repository (commit, merge, push) may have completed or failed.
Succeeded == {"completed", "completed_mutated"}
Mutated == {"completed_mutated", "failed_mutated"}
Outcomes == {"incomplete", "deterministic"} \cup Succeeded \cup Mutated
NoReceipt == [provider |-> None]
Receipts == [provider : Providers, outcome : Outcomes, calls : Nat, tries : Nat]

\* Statuses an attempt passes through, and those that end it.
Ended == {"PENDING_HUMAN_APPROVAL", "FINAL_BLOCK"}
Statuses == {"SUBMITTED", "TARGET_LEASED", "WORKER_RUNNING", "WORKER_COMPLETED",
             "WORKER_ESCALATING", "VERIFIED"} \cup Ended

\* The durable document of the task; fast_lane is fast_lane_eligible of its contract.
Documents ==
  [fast_lane : BOOLEAN, status : Statuses, worker_pid : Procs \cup {None}, executions : Seq(Receipts),
   active_provider : Providers \cup {None}, next_provider : Providers \cup {None},
   effect_authorization : BOOLEAN, tool_projections : SUBSET Providers,
   host_preparation : BOOLEAN,
   calls_required : Nat, calls_invoked : Nat, calls_avoided : Nat]

\* Where a process stands.
Before == {"none", "started"}
Inside == {"owning", "entered", "authorized", "leasing", "leased", "running", "prepared",
           "projected", "required", "invoking", "returned", "completed", "replacing",
           "finalizing", "finalized"}
After == {"gone", "declined"}

Runs == [at : Before \cup Inside \cup After, doc : Documents, fresh : BOOLEAN,
         may_create : BOOLEAN, provider : Providers \cup {None},
         attempts : Seq(Receipts), receipt : Receipts \cup {NoReceipt},
         recovered : BOOLEAN, used : Nat]

VARIABLES
  state,        \* the durable document
  proc,         \* proc[p]: the run of process p
  launcher,     \* launcher[l]: "idle", "cleared", or the process l has started
  expired,      \* the wall-clock deadline of the contract has passed
  leased,       \* the host has leased a target for the attempt
  invokers      \* processes that have called worker.invoke

world == <<leased, invokers>>
vars == <<state, proc, launcher, expired, world>>

NewDocument ==
  [fast_lane |-> FALSE, status |-> "SUBMITTED", worker_pid |-> None, executions |-> <<>>,
   active_provider |-> None, next_provider |-> None,
   effect_authorization |-> FALSE, tool_projections |-> {}, host_preparation |-> FALSE,
   calls_required |-> 0, calls_invoked |-> 0, calls_avoided |-> 0]

NewRun ==
  [at |-> "none", doc |-> NewDocument, fresh |-> FALSE, may_create |-> FALSE,
   provider |-> None, attempts |-> <<>>, receipt |-> NoReceipt, recovered |-> FALSE,
   used |-> 0]

TypeOK ==
  /\ state \in Documents
  /\ proc \in [Procs -> Runs]
  /\ launcher \in [Launchers -> Procs \cup {"idle", "cleared"}]
  /\ expired \in BOOLEAN
  /\ invokers \subseteq Procs
  /\ leased \in BOOLEAN

Init ==
  /\ state \in {[NewDocument EXCEPT !.fast_lane = f] : f \in BOOLEAN}
  /\ proc = [p \in Procs |-> NewRun]
  /\ launcher = [l \in Launchers |-> "idle"]
  /\ expired = FALSE
  /\ leased = FALSE /\ invokers = {}

FastLane == state.fast_lane

alive(p) == p \in Procs /\ proc[p].at \in {"started"} \cup Inside

---------------------------------------------------------------------------
(* launch: look at worker_pid, start a process, then record its pid.       *)

\* Mutant of launch_check: a recorded worker is not looked at.
mutant_launch_check(l) ==
  /\ launcher[l] = "idle"
  /\ state.status \notin Ended
  /\ launcher' = [launcher EXCEPT ![l] = "cleared"]
  /\ UNCHANGED <<state, proc, expired, world>>

\* A live recorded worker suppresses the launch.  The host launches what is
\* not finished.
launch_check(l) ==
  /\ launcher[l] = "idle"
  /\ state.status \notin Ended
  /\ ~alive(state.worker_pid)
  /\ launcher' = [launcher EXCEPT ![l] = "cleared"]
  /\ UNCHANGED <<state, proc, expired, world>>

launch_start(l, p) ==
  /\ launcher[l] = "cleared"
  /\ proc[p].at = "none"
  /\ proc' = [proc EXCEPT ![p].at = "started"]
  /\ launcher' = [launcher EXCEPT ![l] = p]
  /\ UNCHANGED <<state, expired, world>>

launch_record(l) ==
  /\ launcher[l] \in Procs
  /\ state' = [state EXCEPT !.worker_pid = launcher[l]]
  /\ launcher' = [launcher EXCEPT ![l] = "idle"]
  /\ UNCHANGED <<proc, expired, world>>

---------------------------------------------------------------------------
(* The start of an attempt.                                                *)

goto(p, at) == proc' = [proc EXCEPT ![p].at = at]

\* The process is over and its memory with it.
exit(p, at) == proc' = [proc EXCEPT ![p] = [NewRun EXCEPT !.at = at]]

\* The process writes the durable document and reads it back.
write(p, at, doc) ==
  /\ state' = doc
  /\ proc' = [proc EXCEPT ![p].at = at, ![p].doc = doc]

\* run_owned_attempt: an attempt recorded for another process is not touched.
own(p) ==
  /\ proc[p].at = "started"
  /\ \/ state.worker_pid \in {None, p} /\ goto(p, "owning")
     \/ state.worker_pid \notin {None, p} /\ exit(p, "declined")
  /\ UNCHANGED <<state, launcher, expired, world>>

\* Mutant of fresh_envelope: a run that finds no receipt starts an envelope.
mutant_fresh_envelope(doc) == doc.executions = <<>>

\* effect_envelope_create_allowed
fresh_envelope(doc) == doc.status = "SUBMITTED" /\ doc.executions = <<>>

\* execute_attempt reads the document and the receipts it retains.
enter(p) ==
  /\ proc[p].at = "owning"
  /\ ~expired
  /\ proc' = [proc EXCEPT ![p].at = "entered", ![p].doc = state,
                          ![p].fresh = state.status = "SUBMITTED",
                          ![p].may_create = fresh_envelope(state),
                          ![p].attempts = state.executions]
  /\ UNCHANGED <<state, launcher, expired, world>>

\* _ensure_effect_authorization: a missing durable authorization is minted by
\* a fresh run only.
ensure_effect_authorization(p) ==
  /\ proc[p].at = "entered"
  /\ \/ /\ proc[p].doc.effect_authorization
        /\ goto(p, "authorized")
        /\ UNCHANGED state
     \/ /\ ~proc[p].doc.effect_authorization
        /\ proc[p].may_create
        /\ write(p, "authorized", [state EXCEPT !.effect_authorization = TRUE])
  /\ UNCHANGED <<launcher, expired, world>>

\* SUBMITTED: the first provider whose preflight is ready, and a new target.
select_initial_provider(p, q) ==
  /\ proc[p].at = "authorized"
  /\ proc[p].doc.status = "SUBMITTED"
  /\ proc' = [proc EXCEPT ![p].at = "leasing", ![p].provider = q]
  /\ leased' = TRUE
  /\ UNCHANGED <<state, launcher, expired, invokers>>

\* WORKER_ESCALATING: go on with the provider the lost run had chosen.
resume_escalation(p) ==
  /\ proc[p].at = "authorized"
  /\ proc[p].doc.status = "WORKER_ESCALATING"
  /\ ~FastLane
  /\ proc[p].doc.next_provider # None
  /\ proc' = [proc EXCEPT ![p].at = "replacing", ![p].provider = proc[p].doc.next_provider]
  /\ UNCHANGED <<state, launcher, expired, world>>

\* Any other status but TARGET_LEASED, which is refused: go on from there.
resume(p) ==
  /\ proc[p].at = "authorized"
  /\ \/ proc[p].doc.status = "WORKER_RUNNING" /\ goto(p, "running")
     \/ /\ proc[p].doc.status = "WORKER_COMPLETED"
        /\ proc' = [proc EXCEPT ![p].at = "completed", ![p].recovered = TRUE]
     \/ proc[p].doc.status = "VERIFIED" /\ goto(p, "finalizing")
  /\ UNCHANGED <<state, launcher, expired, world>>

\* The target is recorded, then the worker is declared running.
checkpoint_leased(p) ==
  /\ proc[p].at = "leasing"
  /\ state' = [state EXCEPT !.status = "TARGET_LEASED", !.next_provider = None,
                            !.active_provider = proc[p].provider]
  /\ goto(p, "leased")
  /\ UNCHANGED <<launcher, expired, world>>

checkpoint_running(p) ==
  /\ proc[p].at = "leased"
  /\ write(p, "running", [state EXCEPT !.status = "WORKER_RUNNING",
                                       !.active_provider = proc[p].provider])
  /\ UNCHANGED <<launcher, expired, world>>

---------------------------------------------------------------------------
(* One round of the loop: budgets, envelope, the worker, its receipt.      *)

total(numbers) ==
  LET sum[i \in 0..Len(numbers)] == IF i = 0 THEN 0 ELSE sum[i - 1] + numbers[i]
  IN sum[Len(numbers)]

consumed_calls(attempts) == total([i \in DOMAIN attempts |-> attempts[i].calls])
consumed_tries(attempts) == total([i \in DOMAIN attempts |-> attempts[i].tries])

configured_budget == IF FastLane THEN 1 ELSE MaxCalls

remaining_calls(p) == configured_budget - consumed_calls(proc[p].attempts)
remaining_tries(p) == MaxTries - consumed_tries(proc[p].attempts)

\* The budgets, then _ensure_host_prepared: a missing preparation is made by
\* a fresh run without receipts only.
ensure_host_prepared(p) ==
  LET doc == proc[p].doc
      prepared == [state EXCEPT !.host_preparation = TRUE] IN
  /\ proc[p].at = "running"
  /\ ~expired
  /\ remaining_calls(p) > 0 /\ remaining_tries(p) > 0
  /\ \/ /\ doc.host_preparation
        /\ proc' = [proc EXCEPT ![p].at = "prepared", ![p].provider = doc.active_provider]
        /\ UNCHANGED state
     \/ /\ ~doc.host_preparation
        /\ proc[p].fresh /\ proc[p].attempts = <<>> /\ doc.executions = <<>>
        /\ state' = prepared
        /\ proc' = [proc EXCEPT ![p].at = "prepared", ![p].provider = doc.active_provider,
                                ![p].doc = prepared]
  /\ UNCHANGED <<launcher, expired, world>>

\* _ensure_tool_projection: the map of projections is read, extended and
\* written back as a whole, by a run that started fresh only.
ensure_tool_projection(p) ==
  LET q == proc[p].provider
      known == proc[p].doc.tool_projections IN
  /\ proc[p].at = "prepared"
  /\ ~expired
  /\ \/ /\ q \in known
        /\ goto(p, "projected")
        /\ UNCHANGED state
     \/ /\ q \notin known
        /\ proc[p].may_create
        /\ write(p, "projected", [state EXCEPT !.tool_projections = known \cup {q}])
  /\ UNCHANGED <<launcher, expired, world>>

\* _consume_model_call_verdict: the model is needed, and this is on record
\* before the worker is called.
model_required(p) ==
  /\ Gate
  /\ proc[p].at = "projected"
  /\ write(p, "required", [state EXCEPT !.calls_required = @ + 1])
  /\ UNCHANGED <<launcher, expired, world>>

\* A deterministic receipt stands in for the worker: completed, no calls.
model_avoided(p) ==
  LET doc == [state EXCEPT !.calls_avoided = @ + 1] IN
  /\ Gate
  /\ proc[p].at = "projected"
  /\ state' = doc
  /\ proc' = [proc EXCEPT ![p].at = "returned", ![p].doc = doc,
                ![p].receipt = [provider |-> proc[p].provider, outcome |-> "completed",
                                calls |-> 0, tries |-> 0]]
  /\ UNCHANGED <<launcher, expired, world>>

\* worker.invoke is called with what is left of the budget.
invoke(p) ==
  /\ proc[p].at = IF Gate THEN "required" ELSE "projected"
  /\ proc' = [proc EXCEPT ![p].at = "invoking", ![p].used = 0]
  /\ invokers' = invokers \cup {p}
  /\ UNCHANGED <<state, launcher, expired, leased>>

\* The worker calls its provider, within the budget it was given.
provider_call(p) ==
  /\ proc[p].at = "invoking"
  /\ proc[p].used < remaining_calls(p)
  /\ proc' = [proc EXCEPT ![p].used = @ + 1]
  /\ UNCHANGED <<state, launcher, expired, leased, invokers>>

\* The worker hands back a receipt; with a gate the invocation is recorded.
worker_returns(p, outcome, tries) ==
  LET doc == IF Gate THEN [state EXCEPT !.calls_invoked = @ + 1] ELSE state IN
  /\ proc[p].at = "invoking"
  /\ state' = doc
  /\ proc' = [proc EXCEPT ![p].at = "returned", ![p].doc = doc,
                ![p].receipt = [provider |-> proc[p].provider, outcome |-> outcome,
                                calls |-> proc[p].used, tries |-> tries]]
  /\ UNCHANGED <<launcher, expired, world>>

\* The receipts of the attempt with the new one.
retained(p) == Append(proc[p].attempts, proc[p].receipt)

\* The receipt is retained, unless it exceeds a budget or the deadline has
\* passed meanwhile.
checkpoint_completed(p) ==
  LET doc == [state EXCEPT !.status = "WORKER_COMPLETED", !.executions = retained(p),
                           !.active_provider = proc[p].provider] IN
  /\ proc[p].at = "returned"
  /\ ~expired
  /\ proc[p].receipt.calls <= remaining_calls(p)
  /\ proc[p].receipt.tries <= remaining_tries(p)
  /\ state' = doc
  /\ proc' = [proc EXCEPT ![p].at = "completed", ![p].doc = doc,
                          ![p].attempts = retained(p), ![p].receipt = NoReceipt, ![p].used = 0]
  /\ UNCHANGED <<launcher, expired, world>>

---------------------------------------------------------------------------
(* What follows a receipt.                                                 *)

attempted(p) == {r.provider : r \in Range(proc[p].attempts)}

\* Mutant of candidates: only the provider of the latest receipt is excluded.
mutant_candidates(p) == Range(EscalationOrder) \ {Last(proc[p].attempts).provider}

\* Providers _next_ready_provider may choose from.
candidates(p) == Range(EscalationOrder) \ attempted(p)

\* WorkerEscalationPolicy.decide on the receipts so far.
decide(p) ==
  LET latest == Last(proc[p].attempts) IN
  CASE latest.outcome = "completed" -> "VERIFY"
    [] latest.outcome = "incomplete" /\ candidates(p) # {} -> "ESCALATE"
    [] OTHER -> "BLOCK"

\* A completed execution goes to finalization, without asking the policy; a
\* recovered one only if its host preparation is durable.
accept(p) ==
  /\ proc[p].at = "completed"
  /\ proc[p].attempts # <<>>
  /\ Last(proc[p].attempts).outcome \in Succeeded
  /\ proc[p].recovered => proc[p].doc.host_preparation
  /\ goto(p, "finalizing")
  /\ UNCHANGED <<state, launcher, expired, world>>

\* A transient failure moves on to a ready provider that was not tried.
escalate(p, q) ==
  /\ proc[p].at = "completed"
  /\ proc[p].attempts # <<>>
  /\ ~FastLane
  /\ decide(p) = "ESCALATE"
  /\ q \in candidates(p)
  /\ state' = [state EXCEPT !.status = "WORKER_ESCALATING", !.next_provider = q,
                            !.executions = proc[p].attempts]
  /\ proc' = [proc EXCEPT ![p].at = "replacing", ![p].provider = q]
  /\ UNCHANGED <<launcher, expired, world>>

\* replace_failed_lease and a last preflight.
replace_failed_lease(p) ==
  /\ proc[p].at = "replacing"
  /\ goto(p, "leasing")
  /\ leased' = TRUE
  /\ UNCHANGED <<state, launcher, expired, invokers>>

\* finalize_completed: the host captures and verifies the candidate.
finalize_completed(p) ==
  /\ proc[p].at = "finalizing"
  /\ write(p, "finalized", [state EXCEPT !.status = "VERIFIED"])
  /\ UNCHANGED <<launcher, expired, world>>

\* The end of run_owned_attempt, unless the attempt has ended otherwise.  The
\* host chooses between approval and CANDIDATE_COMMITTED; both end it.
submit_for_approval(p) ==
  /\ proc[p].at = "finalized"
  /\ state' = IF state.status \in Ended THEN state
              ELSE [state EXCEPT !.status = "PENDING_HUMAN_APPROVAL"]
  /\ exit(p, "gone")
  /\ UNCHANGED <<launcher, expired, world>>

\* Mutant of fail: an attempt found in a status it cannot go on from is left
\* waiting.
mutant_fail(p) ==
  /\ proc[p].at \in Inside \ {"authorized"}
  /\ state' = [state EXCEPT !.status = "FINAL_BLOCK"]
  /\ exit(p, "gone")
  /\ UNCHANGED <<launcher, expired, world>>

\* The except branch of run_owned_attempt: finalize_failure.
fail(p) ==
  /\ proc[p].at \in Inside
  /\ state' = [state EXCEPT !.status = "FINAL_BLOCK"]
  /\ exit(p, "gone")
  /\ UNCHANGED <<launcher, expired, world>>

---------------------------------------------------------------------------
(* The environment.                                                        *)

crash(p) ==
  /\ alive(p)
  /\ exit(p, "gone")
  /\ UNCHANGED <<state, launcher, expired, world>>

expire ==
  /\ ~expired
  /\ expired' = TRUE
  /\ UNCHANGED <<state, proc, launcher, world>>

---------------------------------------------------------------------------
Run(p) ==
  \/ own(p) \/ enter(p) \/ ensure_effect_authorization(p)
  \/ \E q \in Range(InitialOrder) : select_initial_provider(p, q)
  \/ resume_escalation(p) \/ resume(p)
  \/ checkpoint_leased(p) \/ checkpoint_running(p)
  \/ ensure_host_prepared(p) \/ ensure_tool_projection(p)
  \/ model_required(p) \/ model_avoided(p) \/ invoke(p) \/ provider_call(p)
  \/ \E outcome \in Outcomes, tries \in 0..MaxTries : worker_returns(p, outcome, tries)
  \/ checkpoint_completed(p)
  \/ accept(p) \/ \E q \in Providers : escalate(p, q)
  \/ replace_failed_lease(p) \/ finalize_completed(p) \/ submit_for_approval(p)
  \/ fail(p)

Launch(l) ==
  \/ launch_check(l)
  \/ \E p \in Procs : launch_start(l, p)
  \/ launch_record(l)

Next ==
  \/ \E l \in Launchers : Launch(l)
  \/ \E p \in Procs : Run(p) \/ crash(p)
  \/ expire

\* A live process goes on; worker.invoke returns within its timeout.
Fairness == \A p \in Procs : WF_vars(Run(p))

Spec == Init /\ [][Next]_vars
FairSpec == Spec /\ Fairness

---------------------------------------------------------------------------
(* Properties.                                                             *)

\* run_owned_attempt is the owner of its attempt: no two live processes are
\* past the ownership check.
OneOwner ==
  \A p, q \in Procs : proc[p].at \in Inside /\ proc[q].at \in Inside => p = q

\* What the contract allows in all.
CallBudget == IF FastLane THEN 1 ELSE MaxCalls

\* Each provider leaves at most one receipt, and only the last receipt can be
\* one that ends the escalation; the fast lane has one receipt at most; and
\* together, over relaunches and escalations, they stay within the aggregate
\* budgets of the contract.
EscalationDisciplined ==
  LET e == state.executions IN
  /\ consumed_calls(e) <= CallBudget
  /\ consumed_tries(e) <= MaxTries
  /\ \A i, j \in 1..Len(e) : e[i].provider = e[j].provider => i = j
  /\ \A i \in 1..Len(e) - 1 : e[i].outcome = "incomplete"
  /\ FastLane => Len(e) <= 1

\* Once a worker may have run, a relaunched process never mints a part of
\* the envelope: what is missing stays missing.
envelope == <<state.effect_authorization, state.host_preparation, state.tool_projections>>
NoLateMint == [][envelope' # envelope => \A p \in invokers : alive(p)]_vars

\* Every started process comes to an end: escalation does not go on forever.
RunsEnd == \A p \in Procs : proc[p].at = "started" ~> proc[p].at \in After
====
