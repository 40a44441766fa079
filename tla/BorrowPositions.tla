-------------------------- MODULE BorrowPositions --------------------------
(***************************************************************************)
(* Borrow positions of a market (common/src/borrow.rs): collateral, debt   *)
(* with lazily accumulated interest, borrows and collateral withdrawals    *)
(* that leave in two steps, and liquidation.  Of a price pair only the     *)
(* conservative ends are ever used: collateral is valued at its price less *)
(* the confidence, debt at its price plus the confidence.                  *)
(***************************************************************************)
EXTENDS Market

NewBorrowPosition(m) ==
    [started |-> NoStart, collateral |-> 0, principal |-> 0, fees |-> 0,
     interest |-> NewAccumulator(SnapshotCount(m)),
     in_flight |-> 0, collateral_in_flight |-> 0]

Liability(p) == p.principal + p.in_flight + p.interest.total + p.fees

\* Mutant: collateral on its way out does not keep a position alive.
BorrowExistsIgnoringOutgoing(p) == p.collateral # 0 \/ Liability(p) # 0

BorrowExists(p) == p.collateral # 0 \/ Liability(p) # 0 \/ p.collateral_in_flight # 0

GetOrCreateBorrowPosition(m, b) ==
    [m EXCEPT !.borrow_positions = Put(@, b, GetOr(@, b, NewBorrowPosition(m)))]

CleanupBorrowPosition(m, b) ==
    IF b \in DOMAIN m.borrow_positions /\ ~BorrowExists(m.borrow_positions[b])
    THEN [m EXCEPT !.borrow_positions = Drop(@, b)] ELSE m

CalculateInterest(m, p, limit) ==
    SumOver(Pass(m, p.interest.next, limit),
            LAMBDA i : (p.principal + p.in_flight) * SnapshotAt(m, i).rate * Duration(m, i))

AccumulateInterest(m, b, limit) ==
    LET p == m.borrow_positions[b]
    IN  [m EXCEPT !.borrow_positions[b].interest =
            Accumulate(@, CalculateInterest(m, p, limit), PassEnd(m, p.interest.next, limit))]

-----------------------------------------------------------------------------
\* x / y < f.n / f.d
RatioBelow(x, y, f) == x * f.d < y * f.n

\* Status of a position: expiration is looked at before collateralization.
BorrowStatus(p, price, now) ==
    LET held == p.collateral * price.collateral_low
        owed == Liability(p) * price.borrow_high
    IN  IF p.started # NoStart /\ now - p.started > MaximumDuration THEN "Expiration"
        ELSE IF Liability(p) # 0 /\ RatioBelow(held, owed, McrLiquidation)
        THEN "Undercollateralization"
        ELSE IF Liability(p) # 0 /\ RatioBelow(held, owed, McrMaintenance)
        THEN "MaintenanceRequired"
        ELSE "Healthy"

IsLiquidation(status) == status \in {"Expiration", "Undercollateralization"}

\* Collateral that brings the position back to the maintenance ratio when it is
\* sold at the maximum spread; all of it when the position is under water.
LiquidatableCollateral(p, price) ==
    LET held == p.collateral * price.collateral_low
        owed == Liability(p) * price.borrow_high
        mcr == McrMaintenance
        discount == [n |-> MaximumSpread.d - MaximumSpread.n, d |-> MaximumSpread.d]
    IN  IF Liability(p) = 0 THEN 0
        ELSE IF held <= owed THEN p.collateral
        ELSE IF ~RatioBelow(held, owed, mcr) THEN 0
        ELSE Lesser(p.collateral,
                    CeilDiv((mcr.n * owed - mcr.d * held) * discount.d,
                            price.collateral_low * (mcr.n * discount.n - mcr.d * discount.d)))

AvailableToBorrow(m) ==
    LET retained == CeilDiv((MaximumUsage.d - MaximumUsage.n) * m.deposited_active,
                            MaximumUsage.d)
    IN  SaturatingSub(SaturatingSub(m.deposited_active, Borrowed(m)), retained)

SingleSnapshotFee(amount) == CeilDiv(amount * InterestRateAt(UNIT), UNIT)

BorrowFees(amount) == OriginationFee(amount) + SingleSnapshotFee(amount)

RecordYieldDistribution(m, amount) ==
    [m EXCEPT !.current_yield_distribution = @ + amount]

-----------------------------------------------------------------------------
(* Collateral.                                                             *)

RecordCollateralDeposit(m, b, amount) ==
    [m EXCEPT !.borrow_positions[b].collateral = @ + amount,
              !.collateral_deposited = @ + amount]

RecordCollateralWithdrawal(m, b, amount) ==
    [m EXCEPT !.borrow_positions[b].collateral = @ - amount,
              !.collateral_deposited = @ - amount]

RecordCollateralWithdrawalInitial(m, b, amount) ==
    [RecordCollateralWithdrawal(m, b, amount) EXCEPT
        !.borrow_positions[b].collateral_in_flight = @ + amount]

CanRecordCollateralWithdrawalInitial(m, b, amount) ==
    /\ m.borrow_positions[b].collateral >= amount
    /\ m.collateral_deposited >= amount

RecordCollateralWithdrawalFinal(m, b, amount, success) ==
    LET n == [m EXCEPT !.borrow_positions[b].collateral_in_flight = @ - amount]
    IN  IF success THEN n ELSE RecordCollateralDeposit(n, b, amount)

-----------------------------------------------------------------------------
(* Debt.                                                                   *)

\* First step of a borrow, before the transfer.
RecordBorrowInitial(m, b, amount) ==
    [RecordYieldDistribution(m, BorrowFees(amount)) EXCEPT
        !.borrowed_in_flight = @ + amount,
        !.borrow_positions[b].in_flight = @ + amount,
        !.borrow_positions[b].fees = @ + BorrowFees(amount),
        !.balance = @ - amount]

CanRecordBorrowInitial(m, b, amount, price, now) ==
    LET p == RecordBorrowInitial(m, b, amount).borrow_positions[b]
    IN  /\ amount <= AvailableToBorrow(m)
        /\ BorrowStatus(p, price, now) = "Healthy"
        /\ InRange(BorrowRange, p.principal + p.in_flight)
        /\ m.balance >= amount

\* Second step of a borrow, after the transfer has succeeded or failed.
RecordBorrowFinal(m, b, amount, success, now) ==
    LET n == [m EXCEPT !.borrowed_in_flight = @ - amount,
                       !.borrow_positions[b].in_flight = @ - amount]
        p == n.borrow_positions[b]
        started == IF p.started = NoStart \/ Liability(p) = 0 THEN now ELSE p.started
    IN  IF success
        THEN [n EXCEPT !.borrow_positions[b].principal = @ + amount,
                       !.borrow_positions[b].started = started,
                       !.borrowed = @ + amount]
        ELSE [n EXCEPT !.balance = @ + amount]

\* A principal that would be left below the minimum of the range is only paid
\* down to it.
PrincipalReduction(principal, rest) ==
    LET remaining == SaturatingSub(principal, rest)
    IN  IF remaining > 0 /\ remaining < BorrowRange.minimum
        THEN SaturatingSub(principal, BorrowRange.minimum)
        ELSE Lesser(principal, rest)

\* How an amount is spent on fees, then interest, then principal.
LiabilityReduction(p, amount) ==
    LET rest == SaturatingSub(amount, p.fees + p.interest.total)
    IN  [to_fees      |-> Lesser(p.fees, amount),
         to_interest  |-> Lesser(p.interest.total, SaturatingSub(amount, p.fees)),
         to_principal |-> PrincipalReduction(p.principal, rest),
         to_refund    |-> rest - PrincipalReduction(p.principal, rest)]

ApplyReduction(m, b, r) ==
    [m EXCEPT !.borrow_positions[b].fees = @ - r.to_fees,
              !.borrow_positions[b].interest.total = @ - r.to_interest,
              !.borrow_positions[b].principal = @ - r.to_principal,
              !.borrow_positions[b].started =
                    IF m.borrow_positions[b].principal = r.to_principal THEN NoStart ELSE @,
              !.paid_to_fees = @ + r.to_fees + r.to_interest,
              !.borrowed = @ - r.to_principal]

ReduceLiability(m, b, amount) ==
    ApplyReduction(m, b, LiabilityReduction(m.borrow_positions[b], amount))

CanReduceLiability(m, b, amount) ==
    m.borrowed >= LiabilityReduction(m.borrow_positions[b], amount).to_principal

RepayRefund(m, b, amount) == LiabilityReduction(m.borrow_positions[b], amount).to_refund

RecordRepay(m, b, amount) ==
    [ReduceLiability(m, b, amount) EXCEPT !.balance = @ + amount - RepayRefund(m, b, amount)]

-----------------------------------------------------------------------------
(* Liquidation of `request` collateral for `sent` borrow asset.            *)

Liquidatable(p, price, now) ==
    CASE BorrowStatus(p, price, now) = "Expiration" -> p.collateral
      [] BorrowStatus(p, price, now) = "Undercollateralization" ->
            LiquidatableCollateral(p, price)
      [] OTHER -> 0

MaximumAcceptable(request, price) ==
    Greater(1, CeilDiv(request * price.collateral_low, price.borrow_high))

MinimumAcceptable(request, price) ==
    Greater(1, CeilDiv(request * price.collateral_low * (MaximumSpread.d - MaximumSpread.n),
                       price.borrow_high * MaximumSpread.d))

CanRecordLiquidation(m, b, sent, request, price, now) ==
    LET p == m.borrow_positions[b]
    IN  /\ IsLiquidation(BorrowStatus(p, price, now))
        /\ request <= Liquidatable(p, price, now)
        /\ sent >= MinimumAcceptable(request, price)

Recovered(sent, request, price) == Lesser(sent, MaximumAcceptable(request, price))

SettleLiquidation(m, b, recovered, request, yield) ==
    [RecordYieldDistribution(
        ReduceLiability(RecordCollateralWithdrawal(m, b, request), b, recovered), yield) EXCEPT
            !.balance = @ + recovered]

\* Mutant: the refund is counted twice, as a refund and as yield.
RecordLiquidationOfAllSent(m, b, sent, recovered, request) ==
    SettleLiquidation(m, b, recovered, request,
                      sent - recovered + RepayRefund(m, b, recovered))

\* What the liability does not absorb of what is recovered is distributed as
\* yield; what was sent beyond that is refunded.
RecordLiquidation(m, b, sent, recovered, request) ==
    SettleLiquidation(m, b, recovered, request, RepayRefund(m, b, recovered))
=============================================================================
