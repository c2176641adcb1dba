SPECIFICATION Spec
CONSTANTS
  Keys = {k1, k2}
  Samples = {0, 3}
  Capacity = 2
  Block = 2
  MaxChunk = 3
  FullScale = 3
  Ceiling = 2
  Threshold = 1
  Hold = 1
  Release = 62
  None = None
  k1 = k1
  k2 = k2
INVARIANT NeverAboveCeiling
CHECK_DEADLOCK FALSE
