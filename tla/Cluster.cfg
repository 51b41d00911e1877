CONSTANTS
  NULL = NULL
  t1 = t1  t2 = t2  t3 = t3
  BlockSize <- OneAndTwo
  MemorySize = 19
  Tasks = {t1, t2, t3}
  Callers = {t1, t2, t3}
  StackOf <- StacksOfT2T3
  MaxHeld = 1
SPECIFICATION Spec
INVARIANTS IInv WordsApart EveryBlockKnown
PROPERTY InterferesOnlyIf
CHECK_DEADLOCK FALSE
