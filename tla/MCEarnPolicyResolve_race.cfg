SPECIFICATION Spec
CONSTANTS
  Clients = {c1, c2}
  c1 = c1
  c2 = c2
  MaxSeed = 4
  MaxForeign = 1
  MaxFaults = 1
  Mints = {"classic", "token_2022"}
  InitialKinds <- Leftovers
CHECK_DEADLOCK FALSE

  
  
PROPERTIES
  TargetsAbsent
