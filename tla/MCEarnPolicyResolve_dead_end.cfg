SPECIFICATION FairSpec
CONSTANTS
  Clients = {c1}
  c1 = c1
  MaxSeed = 6
  MaxForeign = 0
  MaxFaults = 2
  Mints = {"classic"}
  InitialKinds <- Fresh
CHECK_DEADLOCK FALSE
PROPERTIES
  EventuallyReady
