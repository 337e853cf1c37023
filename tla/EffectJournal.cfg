CONSTANTS
  p1 = p1
  p2 = p2
  e1 = e1
  e2 = e2
  r1 = r1
  r2 = r2
  Procs <- MCProcs
  Effects <- MCEffects
  Results <- MCResults
  MaxGen = 3
SPECIFICATION FairSpec
INVARIANTS AtMostOnce AnswersDurable JournalReadable
PROPERTIES WritesFenced  ImplementsEffectOnce
