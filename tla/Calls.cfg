SPECIFICATION Spec
CONSTANTS
  Inbound = {i1}
  Outbound = {o1}
  Clients = {t1, t2}
  NoCall = NoCall
  MaxCseq = 3
  MaxInbox = 1
  i1 = i1
  o1 = o1
  t1 = t1
  t2 = t2
SYMMETRY Symmetry
INVARIANTS IInv InboundPortIsOwned OneVerdict ConnectedHasAudio RetryOnlyAfterChallenge ByeNamesADialog
CONSTRAINT RetriesAlone
PROPERTIES LineContract OneCallsBusiness
CHECK_DEADLOCK FALSE
