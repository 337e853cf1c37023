------------------------- MODULE MCExecutionAttempt -------------------------
(* TLC instances of ExecutionAttempt.                                      *)
EXTENDS ExecutionAttempt

CONSTANTS p1, p2, l1, codex, opencode, cline

TwoProcs == {p1, p2}
OneLauncher == {l1}
TwoProviders == <<codex, opencode>>
ThreeProviders == <<codex, opencode, cline>>
====
