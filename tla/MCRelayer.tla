----------------------------- MODULE MCRelayer -----------------------------
EXTENDS RelayerProperties, TLC

CONSTANTS o1, o2, a1, a2, k1

MCSymmetry == Permutations(Ops)
MCMark == [a \in Accounts |-> "default"]

\* A no-op, or a tolerated step followed by one whose revert is fatal.
MCPlans == [o \in Ops |-> {<<>>, <<TRUE, FALSE>>}]
MCShortPlans == [o \in Ops |-> {<<FALSE>>}]
MCStarvingPlans == [o \in Ops |-> {<<>>, <<FALSE>>}]

\* One account can pay for one charge at a time, the other for both at once.
MCPayers == {[o \in Ops |-> a] : a \in Accounts}
MCAllowance == [a \in Accounts |-> IF a = a1 THEN 3 ELSE 5]
=============================================================================
