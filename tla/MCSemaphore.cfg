CONSTANTS
  t1 = t1
  t2 = t2
  t3 = t3
  t4 = t4
  None = None
  Threads = {t1, t2, t3, t4}
  Triers = {t1, t2, t3, t4}
  Initial = 1
  MaxCount = 2
SPECIFICATION FairSpec
CHECK_DEADLOCK FALSE
INVARIANT NoLostWakeup
PROPERTIES
  IsCountingSemaphore
  LetsWaitersThrough
