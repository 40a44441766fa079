SPECIFICATION Spec
CONSTANTS
    u1 = u1
    fr = fr
    self = self
    SELF = self
    Users = {u1}
    FeeRecipient = fr
    Markets <- MCMarkets
    Cap <- MCCap
    SupplyQueue <- MCQueue
    Fees <- MCPerformanceFee
    Routes <- MCRoutes
    Payees = {self}
    Amounts = {2}
    VirtualShares = 0
    VirtualAssets = 0
    WithdrawalCooldown = 1
    MinWithdrawalAssets = 0
    MaxPendingWithdrawals = 2
    Year = 1
    MaxAmount = 10
    RefreshCooldown = 1
    ResyncCooldown = 1
    MaxHeld = 3
    MaxWork = 3
    MaxLeases = 2
    MaxReceipts = 2
    MaxTime = 2
    MaxMishaps = 1
INVARIANT NoOrphanedOperation
CHECK_DEADLOCK FALSE
