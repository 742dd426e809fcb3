SPECIFICATION FairSpec
CONSTANTS
  d1 = d1
  d2 = d2
  r1 = r1
  r2 = r2
  r3 = r3
  usdc = usdc
  usdt = usdt
  Devices = {d1, d2}
  Reserves = {r1, r2, r3}
  Mints = {usdc, usdt}
  MintOf <- TwoMints
  Usdc = usdc
  Rank <- UsdcFirst
  PerApproval = 1
  RentBuffer = 2
  Holdings <- HeldShares
  Remainders <- UsdcIdle
  StartRate = 2
  Operations = {"deposit", "partial", "exit", "idle", "cleanup", "refund"}
  Amounts = {3}
  MaxRate = 3
  MaxShares = 3
  MaxPairs = 2
  MaxBegun = 2
  MaxEvents = 1
INVARIANTS
  
  SweepNeverOverdraws
PROPERTIES
  ExitLeavesNothing
  PartialSparesIdle
  OperationsEnd
CHECK_DEADLOCK FALSE
