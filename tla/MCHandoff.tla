----------------------------- MODULE MCHandoff -----------------------------
(***************************************************************************)
(* Handoff for TLC: two sessions, a budget of two attempts.                *)
(***************************************************************************)
EXTENDS Handoff, TLC

CONSTANTS w1, w2, e1

MCSessions == {w1, w2}
MCEffects == {e1}
MCClaims == {[unknown |-> FALSE, disposition |-> "SAFE", keys |-> {}]}
MCMoves == {[status |-> "COMPLETED", blocked |-> FALSE]}
\* A repairable reject.
MCOutcomes ==
  {[status |-> "FINAL_BLOCK", cleaned |-> TRUE, acceptance |-> "REPAIRABLE",
    residual |-> "bound", settled |-> TRUE]}

Symmetry == Permutations(MCSessions)
====
