SPECIFICATION Spec
CONSTANTS
  Terminal = {t1}
  MaxVoters = 3
  Thresholds <- MCThresholds
  NoFile = NoFile
  PairCounts = {1, 2, 3}
  MaxDraws = 4
  MaxCrashes = 2
INVARIANT TypeOK
INVARIANT RowsAreBacked
INVARIANT NoncesRecoverable
INVARIANT StrandedByCrash
INVARIANT AuditedPairsAreSpent
PROPERTY FinalizedIsFrozen
CHECK_DEADLOCK FALSE
