SPECIFICATION ActivityFairSpec
CONSTANTS
  Loads = {l1, l2}
  NoLoader = NoLoader
  Limit = 1
  BatchSize = 2
  MaxPages = 2
  SignatureCap = 3
  MaxSignature = 4
  MaxBehind = 1
  MaxFailures = 1
  Histories <- HistoriesTried
  Options <- Ways
INVARIANTS
  ActivityTypeOK
  ShownOnce
PROPERTIES
  NothingAfterClose
  NothingMissed
