SPECIFICATION FairSpec
CONSTANTS
  d1 = d1
  d2 = d2
  Devices = {d1, d2}
  Amounts = {0, 1}
  Operations = {"deposit", "request", "claim", "recover"}
  MaxPrice = 2
  StartLp = 2
  StartAsset = 1
  MaxBegun = 2
  MaxEvents = 2
INVARIANTS
  TakesEffectOnce
PROPERTIES
  ConsentedReceipt
  ProceedsMeetFloor
  OperationsEnd
CHECK_DEADLOCK FALSE
