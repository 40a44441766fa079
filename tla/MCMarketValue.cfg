SPECIFICATION LedgerSpec
CONSTANTS
    UNIT = 2
    MAX_INCOMING = 4
    SupplyRange <- MCSupplyRange
    WithdrawalRange <- MCWithdrawalRange
    BorrowRange <- MCBorrowRange
    SupplyWeight = 1
    StaticWeight = 1
    McrMaintenance <- MCMcrMaintenance
    McrLiquidation <- MCMcrLiquidation
    MaximumSpread <- MCMaximumSpread
    MaximumUsage <- MCMaximumUsage
    MaximumDuration = 1
    InterestRateAt <- MCRate
    OriginationFee <- MCOriginationFee
    SupplyWithdrawalFee <- MCWithdrawalFee
    Workloads <- MCValue
    s1 = s1
    s2 = s2
    b1 = b1
INVARIANTS
    Solvent
PROPERTY NetWorthNeverFalls
