SPECIFICATION FairSpec
CONSTANTS
  w1 = w1
  w2 = w2
  Wallets <- TwoWallets
  None = None
  MaxRuns = 3
  MaxLanded = 1
  MaxFaults = 1
CHECK_DEADLOCK FALSE

  
PROPERTIES
  NothingVanishes
  Converges
