CONSTANTS
  p1 = p1
  p2 = p2
  l1 = l1
  codex = codex
  opencode = opencode
  cline = cline
  Procs <- TwoProcs
  Launchers <- OneLauncher
  InitialOrder <- TwoProviders
  EscalationOrder <- ThreeProviders
  MaxCalls = 2
  MaxTries = 1
  Gate = TRUE

SPECIFICATION FairSpec
  
PROPERTIES RunsEnd NoLateMint
CHECK_DEADLOCK FALSE
