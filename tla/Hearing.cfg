SPECIFICATION FairSpec
CONSTANTS
  MaxAttempts = 2
  MaxJoins = 1
  MaxSids = 2
  Reader = Reader
  Publish = Publish
  Tasks = {w1}
  w1 = w1
INVARIANTS TypeOK AskingIsWatched OneStrayAtMost
PROPERTIES AudioSpared NegotiationSettles
CHECK_DEADLOCK FALSE
