-------------------------- MODULE SupplyPositions --------------------------
(***************************************************************************)
(* Supply positions of a market (common/src/supply.rs): deposits that wait *)
(* for the next snapshot before they earn, lazily accumulated yield, and   *)
(* withdrawals that leave in two steps, before and after the transfer.     *)
(***************************************************************************)
EXTENDS Market, SequencesExt

NewSupplyPosition(m) ==
    [started |-> NoStart, active |-> 0, incoming |-> << >>, outgoing |-> 0,
     yield |-> NewAccumulator(SnapshotCount(m))]

SumIncoming(incoming) == SumOver(DOMAIN incoming, LAMBDA k : incoming[k].amount)
TotalDeposit(p) == p.active + p.outgoing + SumIncoming(p.incoming)

SupplyExists(p) == TotalDeposit(p) # 0 \/ p.yield.total # 0

GetOrCreateSupplyPosition(m, a) ==
    [m EXCEPT !.supply_positions = Put(@, a, GetOr(@, a, NewSupplyPosition(m)))]

CleanupSupplyPosition(m, a) ==
    IF a \in DOMAIN m.supply_positions /\ ~SupplyExists(m.supply_positions[a])
    THEN [m EXCEPT !.supply_positions = Drop(@, a)] ELSE m

\* What a position earns on in snapshot i: its active deposit and the incoming
\* deposits that have become active by then.
ShareAt(p, i) ==
    p.active + SumOver({k \in DOMAIN p.incoming : p.incoming[k].at <= i},
                       LAMBDA k : p.incoming[k].amount)

CalculateYield(m, p, limit) ==
    SumOver({i \in Pass(m, p.yield.next, limit) : SnapshotAt(m, i).active # 0},
            LAMBDA i : ((SnapshotYield(m, i) * ShareAt(p, i) * SupplyWeight)
                           \div SnapshotAt(m, i).active) \div (SupplyWeight + StaticWeight))

ActivateIncoming(p, through) ==
    [p EXCEPT !.active = ShareAt(p, through),
              !.incoming = SelectSeq(@, LAMBDA d : d.at > through)]

AccumulateYield(m, a, limit) ==
    LET p == m.supply_positions[a]
        end == PassEnd(m, p.yield.next, limit)
        q == [ActivateIncoming(p, end) EXCEPT
                !.yield = Accumulate(@, CalculateYield(m, p, limit), end)]
    IN  [m EXCEPT !.supply_positions[a] = q]

CanAddIncoming(p, at) ==
    \/ p.incoming # << >> /\ Last(p.incoming).at = at
    \/ Len(p.incoming) < MAX_INCOMING

AddIncoming(m, a, amount, at) ==
    LET old == m.supply_positions[a].incoming
        new == IF old # << >> /\ Last(old).at = at
               THEN [old EXCEPT ![Len(old)].amount = @ + amount]
               ELSE Append(old, [at |-> at, amount |-> amount])
    IN  [m EXCEPT !.supply_positions[a].incoming = new,
                  !.deposited_incoming = Put(@, at, GetOr(@, at, 0) + amount)]

\* Takes `amount` out of the incoming deposits, the newest first.
RemoveIncoming(m, a, amount) ==
    LET old == m.supply_positions[a].incoming
        newer(k) == SumOver((k + 1) .. Len(old), LAMBDA j : old[j].amount)
        taken(k) == Lesser(old[k].amount, SaturatingSub(amount, newer(k)))
        left == [k \in DOMAIN old |-> [old[k] EXCEPT !.amount = @ - taken(k)]]
        takenAt(i) == SumOver({k \in DOMAIN old : old[k].at = i}, taken)
    IN  [m EXCEPT
            !.supply_positions[a].incoming = SelectSeq(left, LAMBDA d : d.amount # 0),
            !.deposited_incoming = [i \in DOMAIN @ |-> @[i] - takenAt(i)]]

\* For every deposit the loop pops, the market holds at least that much at
\* the same index; it pops the newest even when there is nothing to take.
CanRemoveIncoming(m, a, amount) ==
    LET old == m.supply_positions[a].incoming
    IN  \A k \in DOMAIN old :
            (k = Len(old) \/ SumIncoming(SubSeq(old, k + 1, Len(old))) < amount)
                => old[k].amount <= GetOr(m.deposited_incoming, old[k].at, -1)

RecordDeposit(m, a, amount, now) ==
    LET p == m.supply_positions[a]
        started == IF p.started = NoStart \/ p.active = 0 THEN now ELSE p.started
        n == [m EXCEPT !.supply_positions[a].started = started, !.balance = @ + amount]
    IN  AddIncoming(n, a, amount, SnapshotCount(m) + 1)

\* Yield of a position that has been paid to the market, and all it is entitled
\* to withdraw.
Earned(m, p) == Lesser(p.yield.total, m.paid_to_fees)
Entitled(m, p) == SumIncoming(p.incoming) + p.active + Earned(m, p)

\* What the market's liquidity lets it withdraw now.
Withdrawable(m, p) ==
    Lesser(Entitled(m, p),
           m.deposited_active + m.paid_to_fees - m.borrowed + SumIncoming(p.incoming))

\* What a withdrawal of `amount` is made of: it comes out of the yield first, then
\* out of the incoming deposits, then out of the active deposit.
WithdrawalPlan(p, amount, earned, incoming, now) ==
    [amount   |-> amount,
     yield    |-> Lesser(earned, amount),
     incoming |-> Lesser(incoming, SaturatingSub(amount, earned)),
     active   |-> SaturatingSub(amount, earned + incoming),
     fees     |-> Lesser(SupplyWithdrawalFee(amount, SaturatingSub(now, p.started)), amount)]

PlanFor(m, p, request, now) ==
    WithdrawalPlan(p, Lesser(request, Withdrawable(m, p)), Earned(m, p),
                   SumIncoming(p.incoming), now)

\* Mutant: the fees leave the balance with the transfer.
LockWithdrawalWithFees(m, a, w) ==
    [RemoveIncoming(m, a, w.incoming) EXCEPT
        !.supply_positions[a].outgoing = @ + w.amount,
        !.supply_positions[a].yield.total = @ - w.yield,
        !.supply_positions[a].active = @ - w.active,
        !.paid_to_fees = @ - w.yield,
        !.deposited_active = @ - w.active,
        !.balance = @ - w.amount,
        !.withdrawal_in_flight = @ + (w.amount - w.fees)]

LockWithdrawal(m, a, w) ==
    [RemoveIncoming(m, a, w.incoming) EXCEPT
        !.supply_positions[a].outgoing = @ + w.amount,
        !.supply_positions[a].yield.total = @ - w.yield,
        !.supply_positions[a].active = @ - w.active,
        !.paid_to_fees = @ - w.yield,
        !.deposited_active = @ - w.active,
        !.balance = @ - (w.amount - w.fees),
        !.withdrawal_in_flight = @ + (w.amount - w.fees)]

\* The outcome of a first step that withdraws something: Partial when liquidity
\* leaves a part of the request for later.
WithdrawalAttempt(m, a, w, remaining) ==
    [outcome |-> IF remaining > 0 THEN "Partial" ELSE "Full", remaining |-> remaining,
     withdrawal |-> [account |-> a, to_account |-> w.amount - w.fees, to_fees |-> w.fees],
     market |-> LockWithdrawal(m, a, w)]

\* First step of a withdrawal, before the transfer.  The outcome is one of the
\* variants of WithdrawalAttempt.
RecordWithdrawalInitial(m, a, request, now) ==
    LET p == m.supply_positions[a]
    IN  IF Entitled(m, p) = 0 THEN [outcome |-> "EmptyPosition", market |-> m]
        ELSE IF Withdrawable(m, p) = 0 THEN [outcome |-> "NoLiquidity", market |-> m]
        ELSE WithdrawalAttempt(m, a, PlanFor(m, p, request, now),
                SaturatingSub(Lesser(request, Entitled(m, p)), Withdrawable(m, p)))

CanLockWithdrawal(m, a, w) ==
    /\ CanRemoveIncoming(m, a, w.incoming)
    /\ w.active <= m.deposited_active
    /\ w.amount - w.fees <= m.balance

\* No unsigned subtraction of the first step goes below zero: the liquidity
\* that is left, the market's incoming deposits, its active deposits, its balance.
CanRecordWithdrawalInitial(m, a, request, now) ==
    LET p == m.supply_positions[a]
    IN  Entitled(m, p) # 0 =>
          /\ m.deposited_active + m.paid_to_fees >= m.borrowed
          /\ Withdrawable(m, p) # 0 => CanLockWithdrawal(m, a, PlanFor(m, p, request, now))

\* Mutant: a failed transfer does not put the tokens back into the balance.
RecordWithdrawalFinalKeepsBalance(m, w, success) ==
    LET amount == w.to_account + w.to_fees
        n == [m EXCEPT !.supply_positions[w.account].outgoing = @ - amount,
                       !.withdrawal_in_flight = @ - w.to_account]
    IN  IF success
        THEN [n EXCEPT !.static_yield.total = @ + w.to_fees]
        ELSE AddIncoming(n, w.account, amount, SnapshotCount(m) + 1)

\* Second step of a withdrawal, after the transfer has succeeded or failed.
RecordWithdrawalFinal(m, w, success) ==
    LET amount == w.to_account + w.to_fees
        n == [m EXCEPT !.supply_positions[w.account].outgoing = @ - amount,
                       !.withdrawal_in_flight = @ - w.to_account]
    IN  IF success
        THEN [n EXCEPT !.static_yield.total = @ + w.to_fees]
        ELSE AddIncoming([n EXCEPT !.balance = @ + w.to_account],
                         w.account, amount, SnapshotCount(m) + 1)

\* The second step finds the position, the locks it releases, and room for
\* the deposit it restores.
CanRecordWithdrawalFinal(m, w) ==
    /\ w.account \in DOMAIN m.supply_positions
    /\ m.supply_positions[w.account].outgoing >= w.to_account + w.to_fees
    /\ m.withdrawal_in_flight >= w.to_account
    /\ CanAddIncoming(m.supply_positions[w.account], SnapshotCount(m) + 1)
=============================================================================
