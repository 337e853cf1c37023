-------------------------- MODULE UnifiedRuntime --------------------------
(***************************************************************************)
(* UnifiedRuntime.run, run_replan and finalize_receipt                     *)
(* (kernel/unified_runtime.py) for one task, with the workforce gate       *)
(* (kernel/admission.py), the evidence of the preflight capabilities       *)
(* (kernel/capabilities.py) and the receipt file (kernel/receipts.py).     *)
(*                                                                         *)
(* Callers run, rerun, replan and finalize the same task concurrently and  *)
(* may die at any stage.  They share the task's effect journal and one     *)
(* receipt file, and they keep the receipts they were given: a receipt     *)
(* passed to run_replan or finalize_receipt may be stale.  A receipt is    *)
(* sealed by its own hash, so it is passed on as it was returned.          *)
(*                                                                         *)
(* EffectJournal.execute holds the store lock from its read to its last    *)
(* write, so for the runtime it is one step with the outcomes EffectOnce   *)
(* allows.  The identity of an effect is its action, attempt and request   *)
(* digest; the digest covers the context the callable is given, so the     *)
(* context itself stands for it.                                           *)
(***************************************************************************)
EXTENDS RuntimeStages, Sequences, FiniteSets

CONSTANTS
  Callers,            \* concurrent callers of the runtime
  Requests,           \* the requests they make for the task
  Preflight,          \* selected capabilities that run before Local, in order
  Postflight,         \* selected capabilities that run after the verifier
  Required,           \* the ones the planner requires
  Effectful,          \* the ones that are journaled
  RepairLoop,         \* whether repair_loop, which Local performs, is selected
  CapabilityAnswers, LocalAnswers, OnlineAnswers, CallbackAnswers,
  MaxCalls            \* bound on the calls of run, run_replan, finalize_receipt

ASSUME RequestsAssumption ==
  Requests \subseteq
    [local : BOOLEAN, online : BOOLEAN, admission : {"off", "ALLOW", "BLOCK", "ESCALATE"},
     rebound : BOOLEAN, gateway : BOOLEAN, authority : BOOLEAN, authorized : BOOLEAN,
     closable : BOOLEAN, full : BOOLEAN, mutates : BOOLEAN, fit : {"yes", "blocked", "absent"}]
ASSUME RouteAssumption == \A req \in Requests : req.local \/ req.online
ASSUME AnswersAssumption ==
  /\ CapabilityAnswers \subseteq CapabilityAnswer
  /\ LocalAnswers \subseteq LocalAnswer
  /\ OnlineAnswers \subseteq OnlineAnswer
  /\ CallbackAnswers \subseteq CallbackAnswer \cup CallbackFailure
\* The action of a capability's effect is "capability:" and its name.
ASSUME ActionsAssumption == Effectful \cap {"local", "online"} = {}

Idle == [pc |-> "idle"]
NoReceipt == [terminal |-> "none"]
nothing == [x \in {} |-> x]

\* What the journal has on an effect: nothing, a record without an outcome, or
\* the result.
Absent == [state |-> "none"]
Open == [state |-> "open"]
Result(answer) == [state |-> "settled", answer |-> answer]
put(f, x, v) == [y \in DOMAIN f \cup {x} |-> IF y = x THEN v ELSE f[y]]

VARIABLES
  journal,   \* the records of the task's effects: Open or a Result
  attests,   \* attests[e]: how many runs vouched for the execution of e
  run,       \* run[p]: the _run_once p is inside of, or Idle
  file,      \* the receipt file, or NoReceipt
  held,      \* the receipts that were returned to callers
  calls      \* calls made so far

vars == <<journal, attests, run, file, held, calls>>

Init ==
  /\ journal = nothing
  /\ attests = nothing
  /\ run = [p \in Callers |-> Idle]
  /\ file = NoReceipt
  /\ held = {}
  /\ calls = 0

settled(e) == e \in DOMAIN journal /\ journal[e] # Open

---------------------------------------------------------------------------
(* EffectJournal.execute, as the runtime sees it.                          *)

outcome(answer, failed, ran, state) ==
  [answer |-> answer, failed |-> failed, ran |-> ran, state |-> state]

\* A fresh effect is dispatched and answers or raises; a settled one is
\* replayed; an open one is read back or stays open and yields None.  Any
\* call may be refused before it touches the journal (lock, generation).
execute(e, answers, none) ==
  LET known == e \in DOMAIN journal
      state == IF known THEN journal[e] ELSE Absent
  IN UNION {
       {outcome(none, TRUE, FALSE, state)},
       IF known THEN {} ELSE {outcome(a, FALSE, TRUE, Result(a)) : a \in answers}
                               \cup {outcome(none, TRUE, TRUE, Open)},
       IF settled(e) THEN {outcome(journal[e].answer, FALSE, FALSE, journal[e])} ELSE {},
       IF known /\ ~settled(e) THEN {outcome(a, FALSE, FALSE, Result(a)) : a \in answers}
                                      \cup {outcome(none, FALSE, FALSE, Open)} ELSE {}}

\* A capability that is not effectful, or any call without a journal.
call_directly(answers, none) ==
  {outcome(a, FALSE, TRUE, Absent) : a \in answers} \cup {outcome(none, TRUE, TRUE, Absent)}

record(e, o) == IF o.state = Absent THEN journal ELSE put(journal, e, o.state)

ran(e, o) == IF o.ran THEN {e} ELSE {}

\* shown: the Local, Online and verifier stages the callable is given.
effect(r, action, shown) ==
  [action |-> action, attempt |-> r.attempt, request |-> r.req, caps |-> r.caps,
   shown |-> shown]

no_stages == <<not_run, not_run, not_run>>
local_effect(r) == effect(r, "local", no_stages)
online_effect(r) == effect(r, "online", <<online_view(r.local), not_run, not_run>>)
proof_stages(r) == <<r.local, r.online, r.verifier>>

---------------------------------------------------------------------------
(* Receipts.                                                               *)

\* The stages that must be complete, beside the planner's: the capabilities
\* that left a record, are required and were not skipped, and the routes.
capabilities_complete(caps) ==
  \A c \in DOMAIN caps \cap Required : caps[c].status = "SKIPPED" \/ stage_complete(caps[c])

\* Mutant of bindings_settled: a receipt does not look at its bindings.
mutant_bindings_settled(bindings) == TRUE

bindings_settled(bindings) ==
  \A e \in DOMAIN bindings : bindings[e] \notin {Absent, Open}

\* What a receipt keeps of the run that wrote it.  ran is not in the file: it
\* is the effects the run itself started, for the properties.
receipt(r, terminal, complete) ==
  [attempt |-> r.attempt, req |-> r.req, caps |-> capabilities_complete(r.caps),
   closure |-> r.caps # nothing /\ \A c \in DOMAIN r.caps : closed_stage(r.caps[c]),
   local |-> r.local, online |-> r.online, verifier |-> r.verifier,
   foreign |-> r.foreign, learning |-> r.learning, bindings |-> r.bindings,
   sealed |-> r.sealed, ran |-> r.ran, terminal |-> terminal, complete |-> complete]

\* _write_receipt_atomic and the return of the call.
deliver(p, rec) ==
  /\ file' = rec
  /\ held' = held \cup {rec}
  /\ run' = [run EXCEPT ![p] = Idle]

\* required_stages of _run_once.
routes_complete(r) ==
  /\ r.req.local => stage_complete(r.local)
  /\ r.req.online => stage_complete(r.online)

---------------------------------------------------------------------------
(* Entry.                                                                  *)

begin(p, attempt, req, before, admitted) ==
  /\ run[p] = Idle
  /\ calls < MaxCalls
  /\ calls' = calls + 1
  /\ run' = [run EXCEPT ![p] =
       [pc |-> "admit", attempt |-> attempt, req |-> req, before |-> before,
        admitted |-> admitted, caps |-> nothing, local |-> not_requested,
        advisory |-> "none", online |-> not_requested, verifier |-> not_run,
        foreign |-> FALSE, learning |-> not_run, bindings |-> nothing,
        sealed |-> TRUE, ran |-> {}]]
  /\ UNCHANGED <<journal, attests, file, held>>

\* run
run_first(p, req) == begin(p, 1, req, {}, FALSE)

\* Mutant of unresolved_for_subject: the journal is not consulted.
mutant_unresolved_for_subject == {}

\* EffectJournal.unresolved_for_subject(task_id)
unresolved_for_subject == {e \in DOMAIN journal : ~settled(e)}

\* The checks of run_replan on the receipt it is given: incomplete, its
\* effects settled as the journal has them, no other effect of the task
\* open, the same as the durable copy, a trusted failure that may go deeper,
\* and the first attempt.
replannable(rec, req) ==
  /\ ~rec.complete
  /\ rec.terminal = "INCOMPLETE"
  /\ bindings_settled(rec.bindings)
  /\ \A e \in DOMAIN rec.bindings : settled(e) /\ journal[e] = rec.bindings[e]
  /\ unresolved_for_subject = {}
  /\ file # NoReceipt => file = rec
  /\ replan_required(replan_trigger(rec.verifier, rec.foreign, rec.req.full))
  /\ rec.req.admission # "off" => req.admission # "off"
  /\ rec.attempt < 2

\* run_replan
run_replan(p, rec, req) ==
  /\ rec.req.local = req.local /\ rec.req.online = req.online
  /\ replannable(rec, req)
  /\ begin(p, 2, req, DOMAIN journal, rec.req.admission # "off")

---------------------------------------------------------------------------
(* _run_once.                                                              *)

at(p, pc) == run[p].pc = pc

\* Mutant of after: the evidence is sealed once Local has used it.
mutant_after(pc) ==
  CASE pc = "admit" -> "preflight"
    [] pc = "preflight" -> "local"
    [] pc = "local" -> "seal"
    [] pc = "seal" -> "online"
    [] pc = "online" -> "verify"
    [] OTHER -> "learn"

\* The order of the stages in _run_once.
after(pc) ==
  CASE pc = "admit" -> "preflight"
    [] pc = "preflight" -> "seal"
    [] pc = "seal" -> "local"
    [] pc = "local" -> "online"
    [] pc = "online" -> "verify"
    [] pc = "verify" -> "postflight"
    [] pc = "postflight" -> "learn"

next(r) == [r EXCEPT !.pc = after(r.pc)]
step(p, r) == run' = [run EXCEPT ![p] = r] /\ UNCHANGED <<file, held, calls>>

authority_failure == stage("FAILED", FALSE, TRUE, FALSE)

\* A rebinding of the workforce between the two attempts that the request
\* does not authorize.
blocked_rebind(r) == r.attempt = 2 /\ r.admitted /\ r.req.rebound

\* The receipt of a refused run: its requested routes are authority failures.
refusal_receipt(r) ==
  receipt([r EXCEPT !.local = IF r.req.local THEN authority_failure ELSE not_requested,
                    !.online = IF r.req.online THEN authority_failure ELSE not_requested,
                    !.verifier = not_requested, !.learning = not_requested],
          IF r.req.admission = "ESCALATE" /\ ~blocked_rebind(r) THEN "INCOMPLETE" ELSE "BLOCKED",
          FALSE)

\* Workforce admission: BLOCK, ESCALATE and an unauthorized rebinding end the
\* run.
admit(p) ==
  LET r == run[p]
      stop == \/ r.req.admission \in {"BLOCK", "ESCALATE"}
              \/ r.req.admission # "off" /\ blocked_rebind(r)
  IN
  /\ at(p, "admit")
  /\ \/ ~stop /\ step(p, next(r))
     \/ stop /\ deliver(p, refusal_receipt(r)) /\ UNCHANGED calls
  /\ UNCHANGED <<journal, attests>>

\* The binding is appended before the call and completed from the journal
\* after it: an exception leaves it without a state.
capability_binding(o) == IF o.failed THEN Absent ELSE o.state

\* _guarded_capability_invoker, _invoke_capability and the loop of
\* materialize_selected_capability_evidence for capability c.  A record says
\* if the runtime vouches for it; that is part of what later stages are given.
invoke_capability(p, c, shown) ==
  LET r == run[p]
      e == effect(r, c, shown)
      journaled == c \in Effectful
  IN
  \E o \in IF journaled THEN execute(e, CapabilityAnswers, capability_none)
                        ELSE call_directly(CapabilityAnswers, capability_none) :
    LET answer == IF o.failed THEN capability_exception ELSE o.answer
        vouched == ~o.failed /\ attested(answer, o.ran)
        rec == [capability_stage(answer) EXCEPT !.vouched = vouched]
    IN
    /\ journal' = record(e, o)
    /\ attests' = IF vouched /\ journaled
                    THEN put(attests, e, IF e \in DOMAIN attests THEN attests[e] + 1 ELSE 1)
                    ELSE attests
    /\ step(p, [r EXCEPT !.caps = put(@, c, rec),
                         !.ran = @ \cup (IF journaled THEN ran(e, o) ELSE {}),
                         !.bindings = IF journaled THEN put(@, e, capability_binding(o)) ELSE @])

left(selected, r) == SelectSeq(selected, LAMBDA c : c \notin DOMAIN r.caps)

\* The preflight capabilities, in order, then the sealing of their evidence.
preflight(p) ==
  LET todo == left(Preflight, run[p]) IN
  /\ at(p, "preflight")
  /\ \/ todo # <<>> /\ invoke_capability(p, Head(todo), no_stages)
     \/ todo = <<>> /\ step(p, next(run[p])) /\ UNCHANGED <<journal, attests>>

\* The receipt of a run whose evidence was not sealed.  It carries no effect
\* bindings.
blocked_receipt(r, caps) ==
  receipt([r EXCEPT !.caps = caps, !.sealed = FALSE, !.bindings = nothing,
                    !.local = IF r.req.local /\ r.req.admission # "off" THEN authority_failure
                                                                       ELSE not_requested,
                    !.verifier = not_requested, !.learning = not_requested],
          "BLOCKED", FALSE)

\* The sealed bundle verifies and the run goes on; or it does not, or could
\* not be built at all (then no record is kept), and the run ends BLOCKED
\* before Local, Online, the verifier and learning.
seal(p) ==
  LET r == run[p] IN
  /\ at(p, "seal")
  /\ \/ step(p, next(r))
     \/ (\E caps \in {r.caps, nothing} : deliver(p, blocked_receipt(r, caps))) /\ UNCHANGED calls
  /\ UNCHANGED <<journal, attests>>

admission_on(r) == r.req.admission # "off"
mode(r) == CASE ~admission_on(r) -> "off"
             [] admission_on(r) /\ r.req.mutates -> "mutating"
             [] OTHER -> "advising"

\* Nobody to call, or a request that is not for this task or not selected.
unfit(r) == IF r.req.fit = "absent" THEN not_run ELSE stage("BLOCKED", FALSE, FALSE, FALSE)

\* A selected repair_loop leaves the record Local's answer earns it.
after_local(r, local, answer) ==
  [next(r) EXCEPT !.local = local,
                  !.caps = IF RepairLoop THEN put(@, "repair_loop", repair_stage(answer, local))
                                         ELSE @]

\* The binding of a Local call is completed even if the call raised, unless
\* the journal refuses that read too.
local_bindings(o) == IF o.failed /\ ~o.ran THEN {Absent, o.state} ELSE {o.state}

\* _run_local: not requested, refused by the authority, or journaled.  The
\* planner snapshot in the Local request carries the sealed evidence.
run_local(p) ==
  LET r == run[p]
      e == local_effect(r)
      authority == admission_on(r) => r.req.authority
  IN
  /\ at(p, "local")
  /\ \/ /\ ~r.req.local
        /\ step(p, after_local(r, not_requested, local_none))
        /\ UNCHANGED journal
     \/ /\ r.req.local /\ ~authority
        /\ step(p, after_local(r, authority_failure, local_none))
        /\ UNCHANGED journal
     \/ /\ r.req.local /\ authority /\ r.req.fit # "yes"
        /\ step(p, after_local(r, unfit(r), local_none))
        /\ UNCHANGED journal
     \/ /\ r.req.local /\ authority /\ r.req.fit = "yes"
        /\ \E o \in execute(e, LocalAnswers, local_none) : \E b \in local_bindings(o) :
             LET answer == IF o.failed THEN local_none ELSE o.answer
                 local == IF o.failed THEN raised ELSE local_stage(answer, r.req.closable, mode(r))
             IN /\ journal' = record(e, o)
                /\ step(p, [after_local(r, local, answer) EXCEPT
                              !.advisory = answer.advisory,
                              !.bindings = put(@, e, b),
                              !.ran = @ \cup ran(e, o)])
  /\ UNCHANGED attests

\* _run_online and the journaled invoker: the provider is given the view of
\* the Local stage, and the digest covers that view.
run_online(p) ==
  LET r == run[p]
      e == online_effect(r)
      admitted == admission_on(r) => r.req.gateway
      open == admitted /\ r.req.fit # "absent" /\ online_gates(r.local, r.advisory, r.req.closable, r.req.authorized)
  IN
  /\ at(p, "online")
  /\ \/ /\ ~r.req.online
        /\ step(p, next(r))
        /\ UNCHANGED journal
     \/ /\ r.req.online /\ ~open
        /\ step(p, [next(r) EXCEPT !.online = IF admitted /\ r.req.fit = "absent"
                                                THEN not_run ELSE authority_failure])
        /\ UNCHANGED journal
     \/ /\ r.req.online /\ open
        /\ \E o \in execute(e, OnlineAnswers, online_none) :
             /\ journal' = record(e, o)
             /\ step(p, [next(r) EXCEPT
                           !.online = IF o.failed THEN raised
                                      ELSE online_stage(o.answer, admission_on(r)),
                           !.bindings = put(@, e, capability_binding(o)),
                           !.ran = @ \cup ran(e, o)])
  /\ UNCHANGED attests

\* The verifier callback, which is not journaled.
verify(p) ==
  /\ at(p, "verify")
  /\ \E a \in CallbackAnswers :
       step(p, [next(run[p]) EXCEPT !.verifier = callback_stage(a), !.foreign = ~shared(a)])
  /\ UNCHANGED <<journal, attests>>

\* The postflight capabilities see the proof stages.
postflight(p) ==
  LET r == run[p]
      todo == left(Postflight, r)
  IN
  /\ at(p, "postflight")
  /\ \/ todo # <<>> /\ invoke_capability(p, Head(todo), proof_stages(r))
     \/ todo = <<>> /\ step(p, next(r)) /\ UNCHANGED <<journal, attests>>

\* Learning, the final gate and the receipt.
learn(p) ==
  /\ at(p, "learn")
  /\ \E a \in CallbackAnswers :
       LET r == [run[p] EXCEPT !.learning = callback_stage(a)]
           complete == /\ capabilities_complete(r.caps)
                       /\ routes_complete(r)
                       /\ stage_complete(r.verifier) /\ stage_complete(r.learning)
                       /\ bindings_settled(r.bindings)
       IN deliver(p, receipt(r, IF complete THEN "SUCCEEDED" ELSE "INCOMPLETE", complete))
  /\ UNCHANGED <<journal, attests, calls>>

\* The caller dies: between two stages, or inside execute() on an effect the
\* journal does not have yet, which leaves it reserved and perhaps started.
pending(r) ==
  LET first(selected) == {c \in Effectful : left(selected, r) # <<>> /\ c = Head(left(selected, r))}
  IN CASE r.pc = "preflight" -> {effect(r, c, no_stages) : c \in first(Preflight)}
       [] r.pc = "local" /\ r.req.local -> {local_effect(r)}
       [] r.pc = "online" /\ r.req.online -> {online_effect(r)}
       [] r.pc = "postflight" ->
            {effect(r, c, proof_stages(r)) : c \in first(Postflight)}
       [] OTHER -> {}

crash(p) ==
  LET r == run[p] IN
  /\ r # Idle
  /\ run' = [run EXCEPT ![p] = Idle]
  /\ \/ UNCHANGED journal
     \/ \E e \in pending(r) : e \notin DOMAIN journal /\ journal' = put(journal, e, Open)
  /\ UNCHANGED <<attests, file, held, calls>>

---------------------------------------------------------------------------
(* finalize_receipt: the caller brings the verifier's and the learning     *)
(* payload and a receipt, and the receipt is closed or not.                *)

\* A route counts as required if its stage says it was requested.
requested_complete(rec) ==
  \A s \in {rec.local, rec.online} : s.status # "NOT_REQUESTED" => stage_complete(s)

\* The bindings must be the journal's own records.
finalize_bindings(rec, with_journal) ==
  rec.bindings # nothing =>
    /\ with_journal
    /\ bindings_settled(rec.bindings)
    /\ \A e \in DOMAIN rec.bindings : settled(e) /\ journal[e] = rec.bindings[e]

finalize_receipt(rec, v, l, with_journal) ==
  LET verifier == callback_stage(v)
      learning == callback_stage(l)
      complete == /\ rec.caps
                  /\ requested_complete(rec)
                  /\ stage_complete(verifier) /\ stage_complete(learning)
                  /\ finalize_bindings(rec, with_journal)
      final == [rec EXCEPT !.verifier = verifier, !.foreign = ~shared(v), !.learning = learning,
                           !.complete = complete,
                           !.terminal = IF complete THEN "SUCCEEDED" ELSE "INCOMPLETE"]
  IN
  /\ calls < MaxCalls
  /\ calls' = calls + 1
  /\ file' = final
  /\ held' = held \cup {final}
  /\ UNCHANGED <<journal, attests, run>>

\* Someone reads an open effect back and reports it (EffectJournal.reconcile).
reconcile(e) ==
  /\ e \in unresolved_for_subject
  /\ \E a \in CASE e.action = "local" -> LocalAnswers
                [] e.action = "online" -> OnlineAnswers
                [] OTHER -> CapabilityAnswers :
       journal' = put(journal, e, Result(a))
  /\ UNCHANGED <<attests, run, file, held, calls>>

---------------------------------------------------------------------------
Stage(p) == admit(p) \/ preflight(p) \/ seal(p) \/ run_local(p) \/ run_online(p)
              \/ verify(p) \/ postflight(p) \/ learn(p)

Next ==
  \/ \E p \in Callers :
       \/ \E req \in Requests : run_first(p, req)
       \/ \E rec \in held, req \in Requests : run_replan(p, rec, req)
       \/ Stage(p)
       \/ crash(p)
  \/ \E rec \in held, v, l \in CallbackAnswers \cap CallbackAnswer, j \in BOOLEAN : finalize_receipt(rec, v, l, j)
  \/ \E e \in DOMAIN journal : reconcile(e)

Spec == Init /\ [][Next]_vars

---------------------------------------------------------------------------
(* Properties.                                                             *)

Receipts == held \cup ({file} \ {NoReceipt})

TypeOK ==
  /\ \A e \in DOMAIN journal : journal[e] \in {Open} \cup
       {Result(a) : a \in CapabilityAnswers \cup LocalAnswers \cup OnlineAnswers}
  /\ \A p \in Callers : run[p] = Idle \/ run[p].pc \in
       {"admit", "preflight", "seal", "local", "online", "verify", "postflight", "learn"}
  /\ file = NoReceipt \/ file \in held
  /\ calls \in 0..MaxCalls

\* A receipt that says complete is about settled effects: whatever was rerun,
\* replayed, reconciled or finalized, from a stale receipt or a fresh one,
\* every effect its run started has one durable outcome.  (Receipts of runs
\* that ended at the evidence seal carry no bindings; see RoutesAccounted.)
CompleteMeansSettled ==
  \A rec \in Receipts : rec.complete /\ rec.sealed => \A e \in rec.ran : settled(e)

\* A second attempt never starts over an effect whose outcome is unknown:
\* everything on record when it was authorized stays settled under it.
NoBlindReplan ==
  \A p \in Callers : run[p] # Idle /\ run[p].attempt = 2 =>
    \A e \in run[p].before : settled(e)

\* The runtime vouches for the execution of an effect once: a run that was
\* given a replayed or reconciled result never claims to have executed it.
AttestedOnce == \A e \in DOMAIN attests : attests[e] <= 1

\* A run that ended BLOCKED called no model: neither Local nor Online.
BlockedCallsNoModel ==
  \A rec \in Receipts : rec.terminal = "BLOCKED" =>
    \A e \in rec.ran : e.action \notin {"local", "online"}

\* finalize_receipt says of itself that it never infers success from a missing
\* stage: a complete receipt would have a complete stage for each route that
\* was requested.
RoutesAccounted ==
  \A rec \in Receipts : rec.complete =>
    /\ rec.req.local => stage_complete(rec.local)
    /\ rec.req.online => stage_complete(rec.online)
====
