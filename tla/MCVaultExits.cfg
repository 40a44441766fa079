SPECIFICATION LiveSpec
INVARIANT QueueExact
INVARIANT SharesBacked
PROPERTY RequestsServed
CONSTANTS
    SELF = self
    FeeRecipient = fee
    Users = {u1, u2}
    BadReceivers = {u2}
    Receivers = {u1, u2, self}
    Markets = {}
    MarketCap = 3
    GroupCap = 4
    GroupShare = {}
    FeeSpecs <- NoFees
    RestrictionSpecs <- Lists
    TokenPauses = {TRUE, FALSE}
    TokenRestrictionSpecs <- TokenLists
    MaxNavAge = 1
    IdleResyncCooldown = 1
    Amounts = {1}
    MaxTime = 2
    MaxHeld = 2
    MaxGain = 1
    MaxOpId = 2
    MaxRequests = 2
    VirtualShares = 1
    VirtualAssets = 1
    WithdrawalCooldown = 1
    MinWithdrawalAssets = 1
    MaxPendingWithdrawals = 2
    Year = 1
    MaxAmount = 100
