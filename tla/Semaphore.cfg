CONSTANTS
  t1 = t1  t2 = t2  t3 = t3  sem = sem
  NULL = NULL  Idle = Idle
  Tasks = {t1, t2}
  Reasons = {sem}
  semaphore = sem
  Initial = 1
  MaxTokens = 2
SPECIFICATION FairSpec
INVARIANTS IInv NoStandoff
PROPERTIES IsCountingSemaphore ServedOrDrained
CHECK_DEADLOCK FALSE
