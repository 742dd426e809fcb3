SPECIFICATION ProposalsSpec
CONSTANTS
  m1 = m1
  m2 = m2
  policy = policy
  payment = payment
  Settings = Settings
  Nil = Nil
  Thresholds = {1, 2}
  MaxIndex = 1
  BatchLimit = 9
  Members <- TwoMembers
  Founders <- TwoMembers
  Policies <- OnePolicy
  FirstPolicies <- NoPolicy
  Payments <- OnePayment
  Requested <- All
INVARIANTS
  
  ListedIsVotedOn
