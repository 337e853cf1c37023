CONSTANTS
  p1 = p1
  p2 = p2
  t1 = t1
  t2 = t2
  j = j
  x1 = x1
  x2 = x2
  Procs <- MCProcs
  Tasks <- MCTasks
  Journal = j
  Txs <- MCTxs
  Selections <- Mixed
  MaxGen = 3
  MaxVersion = 2
  MaxJournal = 3
SYMMETRY Symmetry
SPECIFICATION Spec
INVARIANTS UncommittedDeclared RestoreExact
PROPERTIES FencedForGood InterruptedStays
CHECK_DEADLOCK FALSE
