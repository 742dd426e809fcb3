SPECIFICATION FairSpec
CONSTANTS
  d1 = d1
  d2 = d2
  Devices = {d1, d2}
  MaxSeed = 4
  UsedSeeds = 1
  Nonces = {1}
  MaxAmount = 1
  Entries = {"stage", "batch"}
  Lags = {0}
  MaxFaults = 1
  MaxForeign = 2
CHECK_DEADLOCK FALSE
INVARIANTS
  CompletedIsCanonical
  
  ClosedStaysClosed
PROPERTIES
  SetupsEnd
