------------------------------- MODULE MCVault -------------------------------
(***************************************************************************)
(* Small instances of SorobanVault for TLC.                                *)
(***************************************************************************)
EXTENDS SorobanVault, TLC

Zero == [n |-> 0, d |-> 1]
Half == [n |-> 1, d |-> 2]
MostOfIt == {[n |-> 2, d |-> 3]}

NoFees == {[performance |-> Zero, management |-> Zero, cap |-> {}]}
CappedFees == {[performance |-> Half, management |-> Half, cap |-> {Half}]}

NoneSet == {NoRestrictions}
Lists == {NoRestrictions} \union {[kind |-> k, members |-> {u}] :
                                    k \in {"Blacklist", "Whitelist"}, u \in Users}

TokenLists == {NoRestrictions} \union {[kind |-> "Blacklist", members |-> {u}] :
                                        u \in Users \ BadReceivers}

MarketSymmetry == Permutations(Markets)
=============================================================================
