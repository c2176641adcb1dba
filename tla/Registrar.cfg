SPECIFICATION FairSpec
CONSTANTS
  Switches = {a, b}
  Main = Main
  Keepers = {k1, k2}
  NoOne = NoOne
  MaxDowns = 2
  a = a
  b = b
  k1 = k1
  k2 = k2
INVARIANTS TypeOK OneKeeper MarkerRemembersSwitch
PROPERTIES NeverBoundUnwanted ComesBack ResumesAfterDown
