SPECIFICATION Spec
CONSTANTS
  m1 = m1
  m2 = m2
  a1 = a1
  a2 = a2
  Amounts = {1}
  FirstLimit = 3
  FirstPerUse = 2
  Accumulating = {FALSE, TRUE}
  Periods = {"one_time", "recurring"}
  DefaultAdds = TRUE
  AgentsPause = TRUE
  MaxPolicies = 1
  MaxTime = 5
  Period = 2
  None = None
  Managers <- TwoManagers
  Agents <- TwoAgents
  Grants <- Everything
CHECK_DEADLOCK FALSE
INVARIANTS
  
  PreparedIsAccepted
  ShownIsSpendable
