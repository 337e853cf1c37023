CONSTANTS
  p1 = p1
  p2 = p2
  Callers <- OneCaller
  Requests <- Admissions
  Preflight <- Nothing
  Postflight <- Nothing
  Required = {}
  Effectful = {}
  RepairLoop = FALSE
  CapabilityAnswers <- OneCapabilityAnswer
  LocalAnswers <- OneLocalAnswer
  OnlineAnswers <- OneOnlineAnswer
  CallbackAnswers <- Failing
  MaxCalls = 3
SPECIFICATION Spec
INVARIANTS  BlockedCallsNoModel
CHECK_DEADLOCK FALSE
