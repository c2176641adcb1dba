SPECIFICATION Spec
CONSTANTS
  Inbound = {}
  Outbound = {o1}
  Clients = {t1}
  NoCall = NoCall
  MaxCseq = 1
  MaxInbox = 1
  o1 = o1
  t1 = t1
INVARIANT ConnectedMeansAnswered
CHECK_DEADLOCK FALSE
