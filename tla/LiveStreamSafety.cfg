CONSTANTS
  t1 = t1
  t2 = t2
  t3 = t3
  Threads = {t1, t2, t3}
  NoThread = NoThread
  Build = "debug"
  MaxNotifications = 3
SPECIFICATION Spec
SYMMETRY ThreadSymmetry
CHECK_DEADLOCK FALSE
INVARIANTS TypeOK RecvIsProtected TeardownFollowsForwarder LockOrder InOrder ClosedMeansReleased CloseIsNotStuck
PROPERTIES EmptyMeansDrained QueueSpec
