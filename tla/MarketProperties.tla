-------------------------- MODULE MarketProperties --------------------------
(***************************************************************************)
(* What must stay true of a market while calls and late callbacks of many  *)
(* accounts interleave.                                                    *)
(***************************************************************************)
EXTENDS MarketContract

\* History: units of interest that closing a borrow position has dropped.  A
\* position is closed when its whole tokens of debt are paid; the fraction of a
\* token that it had accrued beyond them goes with it.
VARIABLE written_off

Closed == DOMAIN market.borrow_positions \ DOMAIN market'.borrow_positions

LedgerInit == Init /\ written_off = 0

LedgerNext ==
    /\ Next
    /\ written_off' = written_off + SumOver(Closed, LAMBDA b :
            AccumulateInterest(Snapshotted, b, NoLimit).borrow_positions[b].interest.fraction)

LedgerSpec == LedgerInit /\ [][LedgerNext]_<<vars, written_off>>

SupplyOf(a) == market.supply_positions[a]
BorrowOf(b) == market.borrow_positions[b]
SumSupply(f(_)) == SumOver(DOMAIN market.supply_positions, LAMBDA a : f(SupplyOf(a)))
SumBorrow(f(_)) == SumOver(DOMAIN market.borrow_positions, LAMBDA b : f(BorrowOf(b)))
SumPending(kind, f(_)) == SumOver(Pending(kind), LAMBDA r : CopiesIn(r, pending) * f(r))
Indices == 1 .. SnapshotCount(market) - 1

IsAccumulator(acc) ==
    acc.total \in Nat /\ acc.fraction \in 0 .. UNIT - 1 /\ acc.next \in 1 .. SnapshotCount(market)

\* Every amount is a natural number (the code's are unsigned: below zero it
\* panics), and no accumulator is ahead of the snapshots.
TypeOK ==
    /\ now \in 1 .. MaxTime /\ market.current_time_chunk \in 1 .. now
    /\ \A f \in {"balance", "deposited_active", "withdrawal_in_flight", "borrowed_in_flight",
                 "borrowed", "paid_to_fees", "collateral_deposited",
                 "current_yield_distribution"} : market[f] \in Nat
    /\ \A i \in DOMAIN market.deposited_incoming : market.deposited_incoming[i] \in Nat
    /\ IsAccumulator(market.static_yield)
    /\ \A a \in DOMAIN market.supply_positions :
         LET p == SupplyOf(a)
         IN  /\ a \in Suppliers /\ {p.started, p.active, p.outgoing} \subseteq Nat
             /\ IsAccumulator(p.yield) /\ Len(p.incoming) <= MAX_INCOMING
             /\ \A k \in DOMAIN p.incoming : p.incoming[k].amount \in Nat \ {0}
    /\ \A b \in DOMAIN market.borrow_positions :
         LET p == BorrowOf(b)
         IN  /\ b \in Borrowers /\ IsAccumulator(p.interest)
             /\ {p.started, p.collateral, p.principal, p.fees, p.in_flight,
                 p.collateral_in_flight} \subseteq Nat
    /\ IsABag(pending) /\ BagCardinality(pending) <= MaxPending
    /\ \A f \in DOMAIN borrow_token : borrow_token[f] \in Nat
    /\ \A f \in DOMAIN collateral_token : collateral_token[f] \in Nat

\* The tokens on the market's accounts are exactly those its books know of: the
\* balance (or the collateral), transfer-calls not resolved, transfers under
\* way, and collateral that liquidators failed to take.
TokensAccounted ==
    /\ borrow_token.held = market.balance + borrow_token.escrow + borrow_token.outgoing
    /\ collateral_token.held = market.collateral_deposited + collateral_token.escrow
                                 + collateral_token.outgoing + collateral_token.unclaimed

\* The market's totals of debt and collateral are the sums over the positions,
\* although positions and totals are updated in different receipts.
BorrowTotalsExact ==
    /\ market.borrowed = SumBorrow(LAMBDA p : p.principal)
    /\ market.borrowed_in_flight = SumBorrow(LAMBDA p : p.in_flight)
    /\ market.collateral_deposited = SumBorrow(LAMBDA p : p.collateral)

\* The market's active and incoming deposits are the sums over the positions,
\* although a position activates its incoming deposits long after the market.
SupplyTotalsExact ==
    /\ market.deposited_active = SumSupply(LAMBDA p : ShareAt(p, SnapshotCount(market)))
    /\ \A i \in SnapshotCount(market) + 1 .. MaxTime + 1 :
         GetOr(market.deposited_incoming, i, 0)
             = SumSupply(LAMBDA p : ShareAt(p, i) - ShareAt(p, i - 1))

\* Every lock of a position is one that a callback in flight will release, and
\* that callback will not panic: the position and the locks are still there
\* when it runs, whatever the order of the callbacks.
LocksMatchCallbacks ==
    /\ \A r \in Pending("borrow_out") \cup Pending("collateral_out") :
         r.account \in DOMAIN market.borrow_positions
    /\ \A b \in DOMAIN market.borrow_positions :
         LET locked(kind) == SumPending(kind, LAMBDA r : IF r.account = b THEN r.amount ELSE 0)
         IN  /\ BorrowOf(b).in_flight = locked("borrow_out")
             /\ BorrowOf(b).collateral_in_flight = locked("collateral_out")
    /\ \A r \in Pending("withdrawals") : \A i \in DOMAIN r.batch :
         CanRecordWithdrawalFinal(Snapshotted, r.batch[i])
    /\ \A a \in DOMAIN market.supply_positions :
         SupplyOf(a).outgoing
           = SumPending("withdrawals", LAMBDA r :
                SumOver({i \in DOMAIN r.batch : r.batch[i].account = a},
                        LAMBDA i : r.batch[i].to_account + r.batch[i].to_fees))
    /\ borrow_token.outgoing = market.withdrawal_in_flight + market.borrowed_in_flight
                                 + SumPending("static_yield", LAMBDA r : r.amount)

\* A finalized snapshot never pays out more than it has: the shares of the
\* positions that have still to pass over it do not exceed its active deposit,
\* and those of the debts do not exceed what was borrowed in it.
SharesBounded ==
    \A i \in Indices :
        /\ SumSupply(LAMBDA p : IF p.yield.next <= i THEN ShareAt(p, i) ELSE 0)
             <= SnapshotAt(market, i).active
        /\ SumBorrow(LAMBDA p : IF p.interest.next <= i THEN p.principal + p.in_flight ELSE 0)
             <= SnapshotAt(market, i).borrowed

\* The deposits of a position wait for increasing indices, none of them passed.
IncomingOrdered ==
    \A a \in DOMAIN market.supply_positions :
        LET incoming == SupplyOf(a).incoming
        IN  \A k \in DOMAIN incoming :
              /\ incoming[k].at > SupplyOf(a).yield.next
              /\ k > 1 => incoming[k - 1].at < incoming[k].at

\* The market's books are exact between any two receipts: amounts have their
\* types, the totals of supply and of debt are the sums over the positions,
\* and the deposits of a position wait in order.
TotalsExact == TypeOK /\ SupplyTotalsExact /\ BorrowTotalsExact /\ IncomingOrdered

\* What borrowers owe and what the market holds, and what suppliers and the
\* protocol may claim of it, both in units of a token and both including what
\* the positions have not accumulated yet.
Accrued(acc) == acc.total * UNIT + acc.fraction

Assets ==
    (market.balance + Borrowed(market)) * UNIT
      + SumBorrow(LAMBDA p : p.fees * UNIT + Accrued(p.interest)
                               + CalculateInterest(market, p, NoLimit))

Claims ==
    market.current_yield_distribution * UNIT
      + Accrued(AccumulateStaticYield(market, NoLimit).static_yield)
      + SumSupply(LAMBDA p : (p.active + SumIncoming(p.incoming)) * UNIT + Accrued(p.yield)
                               + CalculateYield(market, p, NoLimit))

\* The market is solvent: it never promises more than it has, is owed, or has
\* written off.
Solvent == Assets + written_off >= Claims

\* impl.rs, on the fields of Market: "`borrow_asset_deposited_active -
\* borrow_asset_borrowed - borrow_asset_borrowed_in_flight >= 0` should always
\* be true."
ActiveCoversBorrowed == market.deposited_active >= Borrowed(market)

\* What the market is worth beyond what it owes.  The fees of a withdrawal are
\* owed to the protocol from its first step on.
NetWorth ==
    Assets + written_off - Claims
      - UNIT * SumPending("withdrawals", LAMBDA r :
                   SumOver(DOMAIN r.batch, LAMBDA i : r.batch[i].to_fees))

\* No step takes value out of the market for good: in particular a transfer that
\* fails gives back all that its first step took, whatever has happened since.
NetWorthNeverFalls == [][NetWorth' >= NetWorth]_<<vars, written_off>>
=============================================================================
