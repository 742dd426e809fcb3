SPECIFICATION FairSpec
CONSTANTS
  c1 = c1
  Sub = Sub
  None = None
  MaxVersion = 2
  Callers <- OneCaller
  Options <- Ways
INVARIANTS
  QuietMeansFresh
  ForcedIsFresh
PROPERTIES
  KeepsPromise
  Converges
