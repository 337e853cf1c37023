CONSTANTS
  p1 = p1
  p2 = p2
  p3 = p3
  r1 = r1
  r2 = r2
  o1 = o1
  o2 = o2
  Procs <- ThreeProcs
  Roots <- OneRoot
  Ops <- OneOp
  Vectors <- OneVector
SYMMETRY Symmetry
SPECIFICATION Spec
INVARIANT OneHolder
CHECK_DEADLOCK FALSE
