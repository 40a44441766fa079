SPECIFICATION Spec
CONSTANTS
    MaxNow = 2
    MaxBreakersPerProxy = 2
    MaxBreakerIds = 2
    Updates = {u1, u2}
    MaxEpoch = 3
    MaxOwnerCalls = 2
    MaxHistoryRecords = 2
    MaxSourcesPerProxy = 2
    MaxSourceAge = 2
    MaxClockDrift = 1
    ReadableSources = {1, 2}
    Accounts = {"alice", "bob"}
    Admin = "alice"
    MaxPendingProposals = 2
    MaxProposalTtl = 2
    MaxProposals = 3
    MaxMethodPolicies = 1
    Workload <- MCWorkload
SYMMETRY UpdateSymmetry
INVARIANTS BlockedIsNeverServed HistoriesAdvance ServedWithinStep
    MajorityBoundsTheMedian GovernanceStaysOperable
PROPERTIES BreakerSetsStaySound SupersededUpdatesAreIgnored ExpiredStaysExpired
    IdsAreSpentOnce LocksAreWaitedOut
CHECK_DEADLOCK FALSE
