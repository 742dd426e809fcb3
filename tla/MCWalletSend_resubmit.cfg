SPECIFICATION Spec
CONSTANTS
  NumOps = 2
  MaxAttempts = 2
  Required = {1}
  Protected = {2}
  Modes = {"single", "sign-and-confirm-each", "confirm-each"}
  Confirms = {"if-required"}
  Wallets = {"signs"}
  ErrorsAreFinal = TRUE
CHECK_DEADLOCK FALSE
INVARIANTS
  AtMostOnce
  FailureIsFinal
  ClaimRecordedFirst
