SPECIFICATION Spec
CONSTANTS
  w1 = w1
  w2 = w2
  e1 = e1
  Sessions <- MCSessions
  MaxAttempts = 2
  Effects <- MCEffects
  Moves <- MCMoves
  Claims <- MCClaims
  Outcomes <- MCOutcomes
  MaxRevision = 2
SYMMETRY Symmetry
INVARIANTS
  
  ReadsBack
PROPERTY
  EffectsKept
CHECK_DEADLOCK FALSE
