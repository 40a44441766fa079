CONSTANTS
  o1 = o1
  o2 = o2
  a1 = a1
  a2 = a2
  k1 = k1
  Ops = {o1, o2}
  Keys = {k1}
  Accounts = {a1, a2}
  Payers <- MCPayers
  Mark <- MCMark
  Plans <- MCShortPlans
  PrimaryNodes = 1
  ArchivalNodes = {0}
  Validity = 0
  Horizon = 0
  Allowance <- MCAllowance
  GasEstimate = 1
  InnerSpend = 1
  TokensBurnt = 2
  BatchSize = 1
  SlowInserts = TRUE
  MaxMishaps = 1
SPECIFICATION Spec
INVARIANTS
  LaneOrder
  BilledExactly
  ReservationsCovered
SYMMETRY MCSymmetry
CHECK_DEADLOCK FALSE
