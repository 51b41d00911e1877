CONSTANTS
  t1 = t1  t2 = t2  t3 = t3
  m1 = m1  m2 = m2  m3 = m3
  NULL = NULL  Idle = Idle
  Tasks = {t1, t2, t3}
  Reasons = {m1, m2}
  Priority <- PriorityOf
  Rank <- Ordered
  MaxDepth = 1
SPECIFICATION Spec
INVARIANT InheritanceEnds
