SPECIFICATION FairSpec
CONSTANTS
  Inbound = {i1}
  Dialouts = {}
  Kinds = {"ring", "auto", "conference", "direct"}
  People = {p1}
  NoCall = NoCall
  NoRoom = NoRoom
  Default = Default
  Unseeded = Unseeded
  MaxMoves = 2
  MaxInbox = 2
  MaxLosses = 1
  i1 = i1
  p1 = p1
PROPERTIES ConnectedIsHeard AnswerIsNoticed EveryEndSettles
CHECK_DEADLOCK FALSE
