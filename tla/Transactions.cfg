\* Three threads use two transactions at will over two addresses, in a debug
\* build, up to the first undefined behaviour.
CONSTANTS
  t1 = t1
  t2 = t2
  t3 = t3
  Threads = {t1, t2, t3}
  x1 = x1
  x2 = x2
  Txns = {x1, x2}
  a1 = a1
  a2 = a2
  Addresses = {a1, a2}
  Null = Null
  Build = "debug"
  MaxQueries = 1
SPECIFICATION Spec
SYMMETRY Symmetry
CHECK_DEADLOCK FALSE
INVARIANTS TypeOK OpenIsNotLost
PROPERTY CompletedForGood
