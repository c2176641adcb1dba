SPECIFICATION Spec
CONSTANTS
  Inbound = {i1}
  Dialouts = {}
  Kinds = {"ring"}
  People = {p1}
  NoCall = NoCall
  NoRoom = NoRoom
  Default = Default
  Unseeded = Unseeded
  MaxMoves = 0
  MaxInbox = 1
  MaxLosses = 0
  i1 = i1
  p1 = p1
PROPERTY OnlyAPersonAccepts
CHECK_DEADLOCK FALSE
