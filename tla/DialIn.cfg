SPECIFICATION Spec
CONSTANTS
  Digits = {d1}
  Hash = hash
  Star = star
  NoKey = none
  Gateways <- MCGateways
  Window = 6
  Lead = 1
  Lag = 4
  MinBlocks = 2
  MaxGap = 1
  MaxDigits = 2
  Attempts = 2
  MaxPresses = 3
  d1 = d1
INVARIANTS TypeOK EveryPressIsOne NothingKeyedIsLost HangupIsNoticed
CHECK_DEADLOCK FALSE
