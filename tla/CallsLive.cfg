SPECIFICATION FairSpec
CONSTANTS
  Inbound = {i1}
  Outbound = {o1}
  Clients = {t1}
  NoCall = NoCall
  MaxCseq = 1
  MaxInbox = 1
  i1 = i1
  o1 = o1
  t1 = t1
PROPERTIES SafetyNet OutcomeIsTold InboundEndIsTold
CHECK_DEADLOCK FALSE
