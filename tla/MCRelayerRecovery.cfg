CONSTANTS
  o1 = o1
  o2 = o2
  a1 = a1
  a2 = a2
  k1 = k1
  Ops = {o1}
  Keys = {k1}
  Accounts = {a1}
  Payers <- MCPayers
  Mark <- MCMark
  Plans <- MCPlans
  PrimaryNodes = 1
  ArchivalNodes = {0, 1}
  Validity = 0
  Horizon = 0
  Allowance <- MCAllowance
  GasEstimate = 1
  InnerSpend = 1
  TokensBurnt = 1
  BatchSize = 1
  SlowInserts = FALSE
  MaxMishaps = 2
SPECIFICATION FairSpec
INVARIANTS
  RowsFaithful
  RejectionIsProof
PROPERTIES
  TerminalIsFinal
  MeteredSpec
  EveryChargeResolves
CHECK_DEADLOCK FALSE
