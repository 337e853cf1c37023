CONSTANTS
  p1 = p1
  p2 = p2
  p3 = p3
  r1 = r1
  r2 = r2
  o1 = o1
  o2 = o2
  Procs <- TwoProcs
  Roots <- TwoRoots
  Ops <- TwoOps
  Vectors <- CrossedVectors
SYMMETRY Symmetry
SPECIFICATION Spec
INVARIANTS Quiescent
PROPERTIES HoldsStand 
CHECK_DEADLOCK FALSE
