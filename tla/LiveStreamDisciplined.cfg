\* Three threads that keep the discipline, in a release build.  No symmetry:
\* two of the properties are temporal.
CONSTANTS
  t1 = t1
  t2 = t2
  t3 = t3
  Threads = {t1, t2, t3}
  NoThread = NoThread
  Build = "release"
  MaxNotifications = 2
SPECIFICATION FairDisciplinedSpec
CHECK_DEADLOCK FALSE
INVARIANTS NoUseAfterFree ClosedNextReturnsEmpty
PROPERTIES CloseUnblocksNext WaiterIsServed
