------------------------- MODULE MCUnifiedRuntime -------------------------
(* TLC instances of UnifiedRuntime.                                        *)
EXTENDS UnifiedRuntime, TLC

CONSTANTS p1, p2

OneCaller == {p1}
TwoCallers == {p1, p2}
Symmetry == Permutations(Callers)

\* One preflight capability, one postflight gate.
MCPreflight == <<"memory">>
Nothing == <<>>
MCPostflight == <<"claim_gate">>

request(local, online, admission) ==
  [local |-> local, online |-> online, admission |-> admission, rebound |-> FALSE,
   gateway |-> TRUE, authority |-> TRUE, authorized |-> TRUE, closable |-> FALSE,
   full |-> FALSE, mutates |-> TRUE, fit |-> "yes"]

\* A Local and an Online request, for the races.
Races == {request(TRUE, FALSE, "off"), request(FALSE, TRUE, "ALLOW")}

\* Every way a request can be admitted, refused or rebound.
Admissions ==
  {request(TRUE, FALSE, "ALLOW"),
   [request(TRUE, FALSE, "ALLOW") EXCEPT !.rebound = TRUE],
   [request(TRUE, FALSE, "ALLOW") EXCEPT !.authority = FALSE],
   [request(FALSE, TRUE, "ALLOW") EXCEPT !.gateway = FALSE],
   [request(TRUE, FALSE, "ALLOW") EXCEPT !.fit = "blocked"],
   request(TRUE, FALSE, "BLOCK"), request(TRUE, FALSE, "ESCALATE")}

capability(gate) ==
  [task |-> "same", invoked |-> TRUE, skipped |-> FALSE, gate |-> gate,
   evidence |-> TRUE, stub |-> FALSE, named |-> TRUE]
callback(gate, evidence) ==
  [task |-> "same", invoked |-> TRUE, gate |-> gate, evidence |-> evidence]
local(verifier) ==
  [task |-> "same", invoked |-> TRUE, delivered |-> TRUE, evidence |-> TRUE,
   action |-> "candidate", callable |-> "executor", executor |-> TRUE, claim |-> "executor",
   clean |-> TRUE, isolated |-> TRUE, verifier |-> verifier, disk |-> TRUE,
   advisory |-> "none", packet |-> "none"]
online(gate) ==
  [task |-> "same", invoked |-> TRUE, delivered |-> TRUE, gate |-> gate,
   provider |-> TRUE, error |-> FALSE, evidence |-> TRUE]

OneCapabilityAnswer == {capability(TRUE)}
OneLocalAnswer == {local("pass")}
OneOnlineAnswer == {online(TRUE)}
Failing == {callback(FALSE, TRUE), callback_failure("unsupplied")}
Passing == {callback(TRUE, TRUE), callback_failure("raises")}
====
