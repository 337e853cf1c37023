SPECIFICATION Spec
CONSTANTS
  Procs = {p1, p2}
  Attempts = {at}
  Decisions <- MCDecisions
  NoAttempt = none
  MaxEvents = 2
  MaxGeneration = 1
  MAX_RECORDS = 2
SYMMETRY Symmetry
 
INVARIANT ToldOnce
PROPERTY SilentWhenDrained
PROPERTY LostOperationStops
CHECK_DEADLOCK FALSE
