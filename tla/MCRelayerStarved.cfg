CONSTANTS
  o1 = o1
  o2 = o2
  a1 = a1
  a2 = a2
  k1 = k1
  Ops = {o1, o2}
  Keys = {k1}
  Accounts = {a2}
  Payers <- MCPayers
  Mark <- MCMark
  Plans <- MCStarvingPlans
  PrimaryNodes = 1
  ArchivalNodes = {0}
  Validity = 0
  Horizon = 0
  Allowance <- MCAllowance
  GasEstimate = 1
  InnerSpend = 1
  TokensBurnt = 1
  BatchSize = 1
  SlowInserts = FALSE
  MaxMishaps = 0
SPECIFICATION FairSpec
PROPERTIES
  EveryChargeResolves
CHECK_DEADLOCK FALSE
