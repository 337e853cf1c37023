CONSTANTS
  NoWorker = NoWorker
  Policies <- MCPolicies
  Workspaces <- MCWorkspaces
  Requests <- MCRequests
  LocalAnswers <- MCLocalAnswers
  Exits <- MCExits
  MaxEdits = 2
  MaxCalls = 1
SPECIFICATION FairSpec
INVARIANTS   LocalRespected 
PROPERTY CallEnds
CHECK_DEADLOCK FALSE
