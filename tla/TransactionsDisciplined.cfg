\* The same, with at most one call on a transaction at a time.
CONSTANTS
  t1 = t1
  t2 = t2
  Threads = {t1, t2}
  x1 = x1
  x2 = x2
  x3 = x3
  Txns = {x1, x2, x3}
  a1 = a1
  a2 = a2
  Addresses = {a1, a2}
  Null = Null
  Build = "release"
  MaxQueries = 1
SPECIFICATION DisciplinedSpec
SYMMETRY Symmetry
CHECK_DEADLOCK FALSE
INVARIANTS CompletedIsEmpty RightTransaction NoUseAfterFree
PROPERTY LifeCycle
