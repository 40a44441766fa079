SPECIFICATION LedgerSpec
CONSTANTS
    UNIT = 2
    MAX_INCOMING = 4
    SupplyRange <- MCSupplyRange
    WithdrawalRange <- MCWithdrawalRange
    BorrowRange <- MCBorrowRange
    SupplyWeight = 1
    StaticWeight = 1
    McrMaintenance <- MCMcrMaintenance
    McrLiquidation <- MCMcrLiquidation
    MaximumSpread <- MCMaximumSpread
    MaximumUsage <- MCMaximumUsage
    MaximumDuration = 10
    InterestRateAt <- MCRate
    OriginationFee <- MCOriginationFee
    SupplyWithdrawalFee <- MCWithdrawalFee
    Workloads <- MCActive
    s1 = s1
    s2 = s2
    b1 = b1
INVARIANT ActiveCoversBorrowed
SYMMETRY SupplierSymmetry
