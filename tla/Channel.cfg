CONSTANTS
  Tasks = {t1, t2, t3}
  NULL = NULL
  a = a  Zero = Zero
  Words = {a, Zero}
  Capacity = 2
SPECIFICATION FairSpec
INVARIANTS IInv TokenKeepsPromise
PROPERTIES IsFIFO BothSidesMove
CHECK_DEADLOCK FALSE
