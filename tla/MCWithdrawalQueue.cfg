SPECIFICATION Spec
CONSTANTS
    Accounts = {a1, a2, a3}
    Amounts = {1, 2}
    MaxNodeId = 8
CHECK_DEADLOCK FALSE
INVARIANTS
    QueueInv
    StatusIsExact
PROPERTY ImplementsFifo
