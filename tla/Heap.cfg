CONSTANTS
  Elements = {t1, t2, t3, t4, t5, t6}
  Values <- FewValues
  MaxNodes = 6
  Indexing = TRUE
SPECIFICATION Spec
SYMMETRY Symmetry
INVARIANTS TypeOK HeapProperty IndexFinds
PROPERTY IsPriorityQueue
