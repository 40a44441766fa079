SPECIFICATION Spec
INVARIANT BooksBalance
INVARIANT IdleBacked
INVARIANT ExternalIsObserved
INVARIANT NavIsAsFreshAsClaimed
PROPERTY HoldersKeepTheirPrice
PROPERTY NoFeeWithoutGain
CONSTANTS
    SELF = self
    FeeRecipient = fee
    Users = {u1}
    BadReceivers = {}
    Receivers = {u1}
    Markets = {m1, m2}
    MarketCap = 2
    GroupCap = 2
    GroupShare <- MostOfIt
    FeeSpecs <- CappedFees
    RestrictionSpecs <- NoneSet
    TokenPauses = {FALSE}
    TokenRestrictionSpecs <- NoneSet
    MaxNavAge = 1
    IdleResyncCooldown = 1
    Amounts = {1}
    MaxTime = 2
    MaxHeld = 2
    MaxGain = 1
    MaxOpId = 2
    MaxRequests = 2
    VirtualShares = 1
    VirtualAssets = 1
    WithdrawalCooldown = 1
    MinWithdrawalAssets = 1
    MaxPendingWithdrawals = 2
    Year = 1
    MaxAmount = 100
SYMMETRY MarketSymmetry
