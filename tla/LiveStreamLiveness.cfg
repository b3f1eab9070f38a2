\* Any use by three threads, under the fairness of FairSpec.
CONSTANTS
  t1 = t1
  t2 = t2
  t3 = t3
  Threads = {t1, t2, t3}
  NoThread = NoThread
  Build = "release"
  MaxNotifications = 1
SPECIFICATION FairSpec
CHECK_DEADLOCK FALSE
PROPERTIES SomeCloseReturns
