CONSTANTS
  Tasks = {t1, t2, t3}
  Idle = Idle
  Reasons = {}
  NULL = NULL
  Priority <- OnePriority
  Bucket <- TwoBuckets
  Buckets = 2
  TableCapacity = 3
  MaxNodes = 3
  MaxTaskTime = 1
  Modulus = 3
  Durations = {2}
  LastTick = 3
  Exiting = {}
  Readded = {t2}
  Wanted = t2
SPECIFICATION FairSpec
INVARIANTS NeverEarly OnlyReaddedDoubled
PROPERTIES SchedulerReturns WantedRuns
