CONSTANTS
  p1 = p1
  p2 = p2
  Callers <- TwoCallers
  Requests <- Races
  Preflight <- MCPreflight
  Postflight <- MCPostflight
  Required = {"claim_gate"}
  Effectful = {"memory"}
  RepairLoop = TRUE
  CapabilityAnswers <- OneCapabilityAnswer
  LocalAnswers <- OneLocalAnswer
  OnlineAnswers <- OneOnlineAnswer
  CallbackAnswers <- Passing
  MaxCalls = 2
SYMMETRY Symmetry
SPECIFICATION Spec
INVARIANTS CompleteMeansSettled AttestedOnce
CHECK_DEADLOCK FALSE
