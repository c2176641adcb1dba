SPECIFICATION Spec
CONSTANTS
  Inbound = {i1}
  Dialouts = {d1}
  Kinds = {"ring"}
  People = {p1}
  NoCall = NoCall
  NoRoom = NoRoom
  Default = Default
  Unseeded = Unseeded
  MaxMoves = 0
  MaxInbox = 1
  MaxLosses = 0
  d1 = d1
  i1 = i1
  p1 = p1
INVARIANTS TypeOK NothingLeftInTheRoom RecordedRingIsStopped DialoutIsReported
CHECK_DEADLOCK FALSE
