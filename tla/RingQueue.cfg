CONSTANTS
  a = a  b = b  Zero = Zero
  Words = {a, b, Zero}
  Capacity = 3
SPECIFICATION RingSpec
INVARIANTS RingTypeOK PeekIsFuture
PROPERTY IsFIFO
