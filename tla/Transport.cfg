SPECIFICATION Spec
CONSTANTS
  Clients = {s1}
  Accepted = {a1}
  Own <- MCOwn
  None = None
  Streams <- MCStreams
  MaxSends = 2
  s1 = s1
  a1 = a1
INVARIANTS TypeOK FramingIsExact OutIsRead NothingLeaks
PROPERTY SendsEnd
CHECK_DEADLOCK FALSE
