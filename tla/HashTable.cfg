CONSTANTS
  k1 = k1  k2 = k2  k3 = k3  v = v
  Keys = {k1, k2, k3}
  ZeroKey = k1
  Nothing = Nothing
  Values = {v, Nothing}
  Hash <- TwoCollide
  numberOfBuckets = 2
  maximumCapacity = 3
SPECIFICATION TableSpec
INVARIANTS TableIInv EachCellOnce
PROPERTY IsMultimap
