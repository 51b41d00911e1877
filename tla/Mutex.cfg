CONSTANTS
  t1 = t1  t2 = t2  t3 = t3
  m1 = m1  m2 = m2  m3 = m3
  NULL = NULL  Idle = Idle
  Tasks = {t1, t2}
  Reasons = {m1, m2}
  Priority <- PriorityOf
  Rank <- Ordered
  MaxDepth = 2
SPECIFICATION FairSpec
INVARIANTS IInv MutualExclusion NoLostWakeup HeapKeyIsUrgency
PROPERTY LockProgress
