SPECIFICATION LedgerSpec
CONSTANTS
    UNIT = 2
    MAX_INCOMING = 2
    SupplyRange <- MCSupplyRange
    WithdrawalRange <- MCWithdrawalRange
    BorrowRange <- MCBorrowRange
    SupplyWeight = 1
    StaticWeight = 1
    McrMaintenance <- MCMcrMaintenance
    McrLiquidation <- MCMcrLiquidation
    MaximumSpread <- MCMaximumSpread
    MaximumUsage <- MCMaximumUsage
    MaximumDuration = 0
    InterestRateAt <- MCRate
    OriginationFee <- MCOriginationFee
    SupplyWithdrawalFee <- MCWithdrawalFee
    Workloads <- MCReceipts
    s1 = s1
    s2 = s2
    b1 = b1
INVARIANTS
    SharesBounded
    TokensAccounted
    TotalsExact
    LocksMatchCallbacks
SYMMETRY SupplierSymmetry
