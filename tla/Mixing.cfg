SPECIFICATION Spec
CONSTANTS
  Keys = {k1}
  Samples = {0, 1, 3}
  Capacity = 3
  Block = 2
  MaxChunk = 4
  FullScale = 3
  Ceiling = 2
  Threshold = 1
  Hold = 1
  Release = 62
  None = None
  k1 = k1
INVARIANT HeldFits
PROPERTY SourcesAreQueues
CHECK_DEADLOCK FALSE
