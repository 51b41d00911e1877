CONSTANTS
  Tasks = {t1, t2}
  NULL = NULL
  Channels = {c1, c2, c3}
  Beyond = Beyond
  IDs = {i1, i2, i3, i4}
  MaxCapacity = 2
  MaxCalls = 2
SPECIFICATION Spec
INVARIANTS IInv Rendezvous NoChannelLost InUseWhileConnected
PROPERTY CapacityStands
SYMMETRY Symmetry
