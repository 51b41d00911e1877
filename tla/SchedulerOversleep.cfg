CONSTANTS
  Tasks = {t1, t2, t3}
  Idle = Idle
  Reasons = {}
  NULL = NULL
  Priority <- OnePriority
  Bucket <- OneBucket
  Buckets = 1
  TableCapacity = 3
  MaxNodes = 3
  MaxTaskTime = 1
  Modulus = 10
  Durations = {3}
  LastTick = 8
  Exiting = {}
  Readded = {}
  Wanted = t2
SPECIFICATION Spec
SYMMETRY Symmetry
INVARIANT NobodyOversleeps
CHECK_DEADLOCK FALSE
