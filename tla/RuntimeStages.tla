--------------------------- MODULE RuntimeStages ---------------------------
(***************************************************************************)
(* How the unified runtime turns what a capability, the Local service, the *)
(* Online provider, the verifier or the learning callback answered into a  *)
(* stage of the receipt (kernel/capabilities.py, kernel/local_stage.py,    *)
(* kernel/replan.py and the stage builders of kernel/unified_runtime.py).  *)
(* Every operator is a pure function of the answer.                        *)
(*                                                                         *)
(* An answer is a record of the fields the code reads.  task says which    *)
(* task the answer names: "same", "absent" or "other".                     *)
(***************************************************************************)
EXTENDS Naturals

TaskNames == {"same", "absent", "other"}

\* What a capability executor returns.
CapabilityAnswer ==
  [task : TaskNames, invoked : BOOLEAN, skipped : BOOLEAN, gate : BOOLEAN,
   evidence : BOOLEAN, stub : BOOLEAN, named : BOOLEAN]

\* What the verifier or the learning callback returns; it may not have been
\* supplied, or raise.
CallbackAnswer ==
  [task : TaskNames, invoked : BOOLEAN, gate : BOOLEAN, evidence : BOOLEAN]
callback_failure(how) == [task |-> how, invoked |-> FALSE, gate |-> FALSE, evidence |-> FALSE]
CallbackFailure == {callback_failure("unsupplied"), callback_failure("raises")}

\* What the Local service returns.  callable and executor: what ran, by name
\* and by flag; claim: what its claim boundary says of the executor; clean: no
\* fallback reason, the right schema and a receipt path; isolated: its
\* candidate is, and hashes to what was applied; verifier: its own verifier's
\* status; disk: the receipt at that path is complete and names the candidate;
\* advisory: its hybrid route advisory (unbuildable: an advisor's answer none
\* can be made from); packet: the verified-assist packet it declares.
LocalAnswer ==
  {a \in [task : TaskNames, invoked : BOOLEAN, delivered : BOOLEAN, evidence : BOOLEAN,
          action : {"advisor", "candidate", "verified-subtask"},
          callable : {"executor", "provider"}, executor : BOOLEAN,
          claim : {"none", "executor", "denied"}, clean : BOOLEAN, isolated : BOOLEAN,
          verifier : {"none", "pass", "ok", "fail"}, disk : BOOLEAN,
          advisory : {"none", "open", "closed", "invalid", "unbuildable"},
          packet : {"none", "missing", "same", "substituted"}] :
     a.advisory = "unbuildable" => a.action = "advisor"}

\* What the Online provider returns.  provider: it names the admitted one;
\* error: the text is an authentication or tier error, not an answer.
OnlineAnswer ==
  [task : TaskNames, invoked : BOOLEAN, delivered : BOOLEAN, gate : BOOLEAN,
   provider : BOOLEAN, error : BOOLEAN, evidence : BOOLEAN]

shared(answer) == answer.task # "other"

---------------------------------------------------------------------------
(* _stage and its use by every builder.                                    *)

stage(status, invoked, evidence, gate) ==
  [status |-> status, invoked |-> invoked, evidence |-> evidence, gate |-> gate,
   stub |-> FALSE, vouched |-> FALSE, output |-> FALSE, refused |-> FALSE,
   packet |-> "none"]

not_requested == stage("NOT_REQUESTED", FALSE, FALSE, FALSE)
not_run == stage("NOT_RUN", FALSE, FALSE, FALSE)
raised == stage("FAILED", FALSE, FALSE, FALSE)

\* _stage_complete, the same conjunction in _run_once and finalize_receipt.
stage_complete(s) ==
  /\ ~s.stub
  /\ s.status \notin {"SELECTED_NOT_EXECUTED", "STUB_INVOKED"}
  /\ s.invoked /\ s.evidence /\ s.gate

---------------------------------------------------------------------------
(* Capabilities.                                                           *)

\* What the runtime substitutes for an executor that raised, and for one
\* that is not callable.
capability_exception ==
  [task |-> "same", invoked |-> TRUE, skipped |-> FALSE, gate |-> FALSE,
   evidence |-> TRUE, stub |-> FALSE, named |-> FALSE]

\* A journaled effect whose readback is unavailable returns None: {}.
capability_none ==
  [task |-> "absent", invoked |-> FALSE, skipped |-> FALSE, gate |-> FALSE,
   evidence |-> FALSE, stub |-> FALSE, named |-> FALSE]

\* _capability_stage
capability_stage(a) ==
  LET invoked == a.invoked /\ ~a.skipped
      status == CASE a.skipped /\ shared(a) /\ a.evidence -> "SKIPPED"
                  [] ~a.skipped /\ shared(a) /\ invoked /\ a.evidence /\ a.gate -> "SUCCEEDED"
                  [] OTHER -> "FAILED"
  IN [stage(status, invoked, a.evidence, shared(a) /\ a.gate) EXCEPT !.stub = a.stub]

\* Mutant of attested: a replayed result is attested as well.
mutant_attested(a, executed) ==
  /\ a.invoked /\ ~a.skipped /\ ~a.stub /\ a.named
  /\ a.task = "same"

\* runtime_invocation_evidence_ids: the runtime vouches for a stage whose
\* callable ran in this run and named this task itself.
attested(a, executed) ==
  /\ a.invoked /\ ~a.skipped /\ ~a.stub /\ a.named
  /\ a.task = "same"
  /\ executed

\* One capability's part of capability_closure_complete.
closed_stage(s) == s.status \notin {"SKIPPED", "FAILED", "BLOCKED"} /\ stage_complete(s)

---------------------------------------------------------------------------
(* Verifier and learning: _run_callback and final_stage.                   *)

callback_stage(a) ==
  IF a = callback_failure("unsupplied") THEN not_run ELSE
  stage(IF shared(a) /\ a.invoked /\ a.gate THEN "SUCCEEDED" ELSE "FAILED",
        a.invoked, a.evidence, shared(a) /\ a.gate)

\* The trigger of build_execution_replan_request.
replan_trigger(verifier, named_other, full) ==
  CASE ~verifier.invoked -> "verifier_not_observed"
    [] verifier.invoked /\ named_other -> "verifier_identity_mismatch"
    [] verifier.invoked /\ ~named_other /\ verifier.gate -> "verifier_passed"
    [] verifier.invoked /\ ~named_other /\ ~verifier.gate /\ ~verifier.evidence
         -> "verifier_evidence_untrusted"
    [] OTHER -> IF full THEN "verifier_failed_at_full_depth" ELSE "verifier_failed"

\* The one trigger run_replan accepts: a trusted failure that may go deeper.
replan_required(trigger) == trigger = "verifier_failed"

---------------------------------------------------------------------------
(* Local.                                                                  *)

\* The advisory as _run_local and, again, _run_online read it: a closed one
\* stands only if the planner enabled it, an unreadable or foreign one never.
advisory_blocks(advisory) == advisory = "closed"
advisory_invalid(advisory, enabled) ==
  advisory = "invalid" \/ (advisory = "closed" /\ ~enabled)

\* An exception of the service, or a journaled call without a readback.
local_none ==
  [task |-> "absent", invoked |-> FALSE, delivered |-> FALSE, evidence |-> FALSE,
   action |-> "none", callable |-> "none", executor |-> FALSE, claim |-> "none",
   clean |-> FALSE, isolated |-> FALSE, verifier |-> "none", disk |-> FALSE,
   advisory |-> "none", packet |-> "none"]

executor_bound(a) ==
  a.action \in {"candidate", "verified-subtask"} /\ a.callable = "executor" /\ a.executor

\* _formal_local_runtime_lineage: an admitted executor proves that it ran.
runtime_lineage(a) ==
  /\ a.clean /\ executor_bound(a)
  /\ a.invoked /\ a.delivered /\ a.isolated
  /\ a.action = "verified-subtask" => a.verifier \in {"pass", "ok"}
  /\ a.claim # "denied"

\* _formal_local_advisor_lineage: an admitted advisor must not have run one.
advisor_lineage(a) ==
  /\ a.clean /\ a.action = "advisor" /\ a.callable = "provider" /\ ~a.executor
  /\ a.invoked /\ a.delivered
  /\ a.claim # "executor"

\* mode: no admission, or one for a demand that may or may not mutate.
Modes == {"off", "mutating", "advising"}
lineage_passed(a, mode) ==
  CASE mode = "off" -> TRUE
    [] mode = "advising" -> advisor_lineage(a)
    [] mode = "mutating" -> runtime_lineage(a)

\* The tail of _run_local: from the answer to the stage.  A stage keeps the
\* raw output even when it fails; refused marks the reasons that _run_online
\* looks for.  The packet is rebuilt from an answer that was delivered; a
\* declared one that is missing or differs from it is an integrity failure.
local_stage(a, enabled, mode) ==
  LET failed == [stage("FAILED", a.invoked, TRUE, FALSE) EXCEPT !.output = TRUE]
      invalid == advisory_invalid(a.advisory, enabled)
      unproven == ~lineage_passed(a, mode)
      accepted == a.verifier \in {"none", "pass"}
      delivered == a.delivered /\ (a.action = "verified-subtask" => accepted)
      done == shared(a) /\ a.invoked /\ delivered
      packet == IF done /\ a.packet \in {"none", "same"} THEN "bound" ELSE a.packet
  IN CASE a.advisory = "unbuildable" -> [failed EXCEPT !.refused = TRUE]
       [] a.advisory # "unbuildable" /\ unproven -> [failed EXCEPT !.invoked = FALSE]
       [] a.advisory # "unbuildable" /\ ~unproven /\ invalid -> [failed EXCEPT !.refused = TRUE]
       [] ~unproven /\ ~invalid /\ advisory_blocks(a.advisory) -> failed
       [] OTHER ->
            [stage(IF done THEN "SUCCEEDED" ELSE "FAILED", a.invoked,
                   a.evidence \/ packet = "bound", done /\ accepted)
               EXCEPT !.output = TRUE, !.packet = packet]

\* _repair_loop_result_from_local_stage, as the capability it is recorded as.
repair_stage(a, local) ==
  LET proven == local.invoked /\ executor_bound(a)
      success == /\ proven /\ a.delivered /\ a.isolated /\ a.evidence /\ a.disk
                 /\ a.verifier \in {"pass", "ok"}
  IN stage(IF success THEN "SUCCEEDED" ELSE "FAILED", local.invoked, a.evidence, success)

\* Mutant of forwardable: a success status is enough.
mutant_forwardable(s) == s.status = "SUCCEEDED"

\* _local_stage_forwardable
forwardable(s) == s.status = "SUCCEEDED" /\ s.gate

\* _online_local_context_view: what an Online invoker is shown of Local.
online_view(s) ==
  IF forwardable(s) THEN s
  ELSE [s EXCEPT !.output = FALSE, !.invoked = FALSE, !.packet = "none"]

---------------------------------------------------------------------------
(* Online.                                                                 *)

\* The gates of _run_online before the provider: Local's advisory, the
\* binding of the verified-assist packet of a forwardable stage, and the
\* resolved online decision.
online_gates(local, advisory, enabled, authorized) ==
  /\ ~local.refused
  /\ ~advisory_invalid(advisory, enabled)
  /\ ~advisory_blocks(advisory)
  /\ forwardable(local) => local.packet \in {"none", "bound"}
  /\ authorized

online_none ==
  [task |-> "same", invoked |-> TRUE, delivered |-> FALSE, gate |-> FALSE,
   provider |-> FALSE, error |-> FALSE, evidence |-> FALSE]

\* The tail of _run_online: from the answer to the stage.
online_stage(a, admitted) ==
  LET wrong == admitted /\ ~a.provider
      delivered == a.delivered /\ ~wrong /\ ~a.error
      gate == a.gate /\ ~wrong /\ ~a.error
  IN stage(IF shared(a) /\ ~wrong /\ a.invoked /\ delivered THEN "SUCCEEDED" ELSE "FAILED",
           a.invoked, a.evidence \/ wrong \/ a.error, shared(a) /\ delivered /\ gate)
====
