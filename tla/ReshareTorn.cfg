SPECIFICATION Spec
CONSTANTS
  Terminal = {t1}
  MaxVoters = 2
  Thresholds <- MCThresholds
  NoFile = NoFile
  PairCounts = {1, 2, 3}
  MaxDraws = 3
  MaxCrashes = 1
INVARIANT ThresholdOfTheShares
CHECK_DEADLOCK FALSE
