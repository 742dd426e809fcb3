SPECIFICATION FairSpec
CONSTANTS
  NumOps = 3
  MaxAttempts = 1
  Required = {1}
  Protected = {2}
  Modes = {"single", "sign-and-confirm-each", "send-all-before-confirm", "confirm-each"}
  Confirms = {"if-required"}
  Wallets = {"signs", "sends"}
  ErrorsAreFinal = TRUE
CHECK_DEADLOCK FALSE
INVARIANTS
  DependentOrder
  ReturnMeansConfirmed
  SentAreSettled
PROPERTIES
  
  CallEnds
