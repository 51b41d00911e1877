CONSTANTS
  Tasks = {t1, t2, t3}
  Idle = Idle
  Reasons = {r1, r2}
  NULL = NULL
  Priority <- TwoPriorities
  Bucket <- OneBucket
  Buckets = 1
  TableCapacity = 3
  MaxNodes = 3
  MaxTaskTime = 1
  Modulus = 8
  Durations = {2, 4}
  LastTick = 6
  Exiting = {t1, t2, t3}
  Readded = {}
  Wanted = t2
SPECIFICATION Spec
INVARIANTS TypeOK InOnePlace ExitVanishes DispatchesRunnable
CHECK_DEADLOCK FALSE
