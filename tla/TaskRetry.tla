----------------------------- MODULE TaskRetry -----------------------------
(***************************************************************************)
(* Whether a task may be tried again: RetryService.retry_task              *)
(* (task_retry/retry_service.py) and evaluate_bounded_reconciliation       *)
(* (task_retry/bounded_reconciliation.py), as operators on the snapshot of *)
(* a task that the state port returns:                                     *)
(*   status      of its latest attempt                                     *)
(*   attempts    their number                                              *)
(*   cleaned     the disposition of the previous target                    *)
(*   acceptance  what the acceptance decided                               *)
(*   residual    the verifier's residual packet: "bound" to this attempt,  *)
(*               its candidate and its verifier; "foreign"; "other_class"  *)
(*               when it is no semantic reject; or "invalid"               *)
(*   settled     no unresolved external effect, no active one              *)
(*   round       repair_round of the request the attempt was made from     *)
(***************************************************************************)
EXTENDS Naturals

MAX_REPAIR_ROUNDS_V1 == 1

RETRYABLE_TASK_STATUSES == {"FINAL_BLOCK", "CANCELLED"}
\* RETAINED_FOR_REVIEW, failed integrations, absorbing statuses and attempts at
\* work each have a refusal of their own.
Statuses == RETRYABLE_TASK_STATUSES \cup
  {"RETAINED_FOR_REVIEW", "INTEGRATION_FAILED", "DIRECT_COMPLETED", "RUNNING"}
Residuals == {"bound", "foreign", "other_class", "invalid"}

current_repair_round(t) == t.round

\* evaluate_bounded_reconciliation finds the repair eligible.
repairable(t) ==
  /\ current_repair_round(t) < MAX_REPAIR_ROUNDS_V1
  /\ t.residual = "bound"
  /\ t.status = "FINAL_BLOCK" /\ t.acceptance = "REPAIRABLE"
  /\ t.settled

\* retry_task goes on to submit.  dispatch: the answer of the dispatch port, of
\* the envelopes and of the rebinding to a fresh attempt.
resubmits(t, maximum, dispatch) ==
  /\ t.attempts < maximum
  /\ t.status \in RETRYABLE_TASK_STATUSES
  /\ t.cleaned
  /\ dispatch
  /\ t.acceptance = "REPAIRABLE" => repairable(t)

\* build_repair_request_metadata; a retry that is no repair keeps the request.
round_of_retry(t) ==
  IF t.acceptance = "REPAIRABLE" THEN current_repair_round(t) + 1 ELSE t.round
====
