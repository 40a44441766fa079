----------------------------- MODULE VaultKernel -----------------------------
(***************************************************************************)
(* The vault kernel (contract/vault/kernel): pure functions from a vault   *)
(* state to a vault state.  Each handler is an operator on the state       *)
(* record, next to a predicate Can... that collects its errors.  Executors *)
(* (Soroban, NEAR) sequence the handlers and carry out their effects on    *)
(* the share and asset tokens.                                             *)
(***************************************************************************)
EXTENDS Integers, FiniteSets, FiniteSetsExt

CONSTANTS VirtualShares, VirtualAssets,   \* offsets of the share price
          WithdrawalCooldown,             \* age at which a request may be executed
          MinWithdrawalAssets,            \* least assets a request may be worth
          MaxPendingWithdrawals,          \* most requests waiting at once
          Year,                           \* the period annual rates refer to
          MaxAmount,                      \* the largest amount, u128::MAX
          SELF                            \* the vault's own account, which holds the escrow

ASSUME KernelAssumption ==
    /\ VirtualShares \in Nat /\ VirtualAssets \in Nat
    /\ WithdrawalCooldown \in Nat /\ MinWithdrawalAssets \in Nat
    /\ MaxPendingWithdrawals \in Nat /\ Year \in Nat \ {0}
    /\ MaxAmount \in Nat

AtLeast1(x) == IF x > 1 THEN x ELSE 1
Least(x, y) == IF x < y THEN x ELSE y
Most(x, y) == IF x > y THEN x ELSE y
Minus(x, y) == IF x > y THEN x - y ELSE 0          \* saturating subtraction
MulDiv(x, y, d) == (x * y) \div d
MulDivCeil(x, y, d) == (x * y + d - 1) \div d
Rate(f, x) == MulDiv(x, f.n, f.d)                  \* a WAD fraction n/d of x, floored

Idle == [kind |-> "Idle"]

\* Restrictions are a blacklist or a whitelist; no restriction is an empty blacklist.
IsRestricted(restrictions, account) ==
    IF restrictions.kind = "Blacklist" THEN account \in restrictions.members
                                       ELSE account \notin restrictions.members

EmptyQueue ==
    [pending |-> [id \in {} |-> {}], next_withdraw_to_execute |-> 0,
     next_pending_withdrawal_id |-> 0, escrow |-> 0, expected |-> 0]

NewVaultState ==
    [total_assets |-> 0, total_shares |-> 0, idle_assets |-> 0, external_assets |-> 0,
     fee_anchor |-> [total_assets |-> 0, timestamp |-> 0],
     op_state |-> Idle, withdraw_queue |-> EmptyQueue, next_op_id |-> 0]

\* Mutant: the total is left as it was.
StaleTotalAssets(s) == s

SyncTotalAssets(s) == [s EXCEPT !.total_assets = s.idle_assets + s.external_assets]

-----------------------------------------------------------------------------
(* Fees.  A specification has a performance and a management rate and at   *)
(* most one cap on the growth that fees are charged on (a set, empty for   *)
(* none).                                                                  *)

HasActiveSlotFees(fees) == fees.performance.n > 0 \/ fees.management.n > 0

PerformanceFeeIsDue(s, fees) ==
    /\ s.total_shares > 0 /\ fees.performance.n > 0 /\ fees.cap = {}
    /\ s.total_assets > s.fee_anchor.total_assets

\* should_refresh_fees_for_value_transfer
FeesAreDue(s, fees, now) ==
    /\ s.total_shares > 0 /\ HasActiveSlotFees(fees)
    /\ \/ now > s.fee_anchor.timestamp
       \/ now = s.fee_anchor.timestamp /\ PerformanceFeeIsDue(s, fees)

\* total_assets_for_fee_accrual: growth above the cap is not charged.
FeeBase(total, anchor, fees, now) ==
    IF anchor.total_assets = 0 THEN 0
    ELSE IF fees.cap = {} \/ total <= anchor.total_assets THEN total
    ELSE LET cap == CHOOSE f \in fees.cap : TRUE
         IN  Least(total, anchor.total_assets
                 + MulDiv(Rate(cap, anchor.total_assets), now - anchor.timestamp, Year))

\* compute_fee_shares_from_assets: shares whose worth, once minted, is the fee.
FeeShares(fee, total, supply) ==
    IF fee = 0 \/ supply = 0 \/ fee >= total THEN 0 ELSE MulDiv(fee, supply, total - fee)

ManagementShares(s, base, fees, now) ==
    FeeShares(MulDiv(Rate(fees.management, base), now - s.fee_anchor.timestamp, Year),
              s.total_assets, s.total_shares)

PerformanceShares(s, base, fees, supply) ==
    FeeShares(Rate(fees.performance, Minus(base, s.fee_anchor.total_assets)),
              s.total_assets, supply)

SupplyAfterPerformance(s, base, fees, supply) ==
    supply + PerformanceShares(s, base, fees, supply)

\* compute_fee_accrual: the supply after both fees are minted.
SupplyAfterFees(s, base, fees, now) ==
    IF ~HasActiveSlotFees(fees) THEN s.total_shares
    ELSE SupplyAfterPerformance(s, base, fees,
                                s.total_shares + ManagementShares(s, base, fees, now))

CanRefreshFees(s, fees, now) ==
    /\ s.op_state = Idle
    /\ \/ now > s.fee_anchor.timestamp
       \/ now = s.fee_anchor.timestamp /\ PerformanceFeeIsDue(s, fees)

\* A state without assets and without an anchor is only anchored; FeeBase is
\* zero there, so it needs no case of its own.
RefreshFees(s, fees, now) ==
    [s EXCEPT !.total_shares = SupplyAfterFees(s, FeeBase(s.total_assets, s.fee_anchor, fees, now),
                                               fees, now),
              !.fee_anchor = [total_assets |-> s.total_assets, timestamp |-> now]]

\* refresh_fees_before_value_transfer
Crystallized(s, fees, now) ==
    IF FeesAreDue(s, fees, now) THEN RefreshFees(s, fees, now) ELSE s

-----------------------------------------------------------------------------
(* Conversions.  Deposits are quoted on totals with virtual offsets;       *)
(* withdrawals also on the real totals, whichever is better for the vault. *)

EffectiveSupply(s) == s.total_shares + AtLeast1(VirtualShares)
EffectiveAssets(s) == s.total_assets + AtLeast1(VirtualAssets)

\* Mutant: rounds up.
ConvertToSharesCeil(s, assets) == MulDivCeil(assets, EffectiveSupply(s), EffectiveAssets(s))

ConvertToShares(s, assets) == MulDiv(assets, EffectiveSupply(s), EffectiveAssets(s))

ConvertToRedeemAssets(s, shares) ==
    LET quote == MulDiv(shares, EffectiveAssets(s), EffectiveSupply(s))
    IN  IF VirtualAssets # 0 /\ s.total_shares # 0
        THEN Least(quote, MulDiv(shares, s.total_assets, s.total_shares)) ELSE quote

ConvertToWithdrawShares(s, assets) ==
    LET quote == MulDivCeil(assets, EffectiveSupply(s), EffectiveAssets(s))
    IN  IF VirtualAssets # 0 /\ s.total_assets # 0
        THEN Most(quote, MulDivCeil(assets, s.total_shares, s.total_assets)) ELSE quote

-----------------------------------------------------------------------------
(* The withdrawal queue: a map from request ids to requests with cached    *)
(* totals.                                                                 *)

Escrow(q, ids) == SumFunctionOnSet([id \in DOMAIN q.pending |-> q.pending[id].escrow], ids)
Expected(q, ids) == SumFunctionOnSet([id \in DOMAIN q.pending |-> q.pending[id].expected], ids)

HasHead(q) == q.next_withdraw_to_execute \in DOMAIN q.pending
HeadRequest(q) == q.pending[q.next_withdraw_to_execute]

CanEnqueue(q) == Cardinality(DOMAIN q.pending) < MaxPendingWithdrawals

Enqueue(q, request) ==
    [pending |-> [id \in DOMAIN q.pending \union {q.next_pending_withdrawal_id} |->
                    IF id = q.next_pending_withdrawal_id THEN request ELSE q.pending[id]],
     next_withdraw_to_execute |-> q.next_withdraw_to_execute,
     next_pending_withdrawal_id |-> q.next_pending_withdrawal_id + 1,
     escrow |-> q.escrow + request.escrow,
     expected |-> q.expected + request.expected]

FirstOf(ids, otherwise) == IF ids = {} THEN otherwise ELSE Min(ids)

\* Mutant: the cached totals are left as they were.
DequeueKeepsTotals(q, ids) ==
    [q EXCEPT !.pending = [id \in DOMAIN q.pending \ ids |-> q.pending[id]],
              !.next_withdraw_to_execute =
                    FirstOf(DOMAIN q.pending \ ids, q.next_pending_withdrawal_id)]

\* dequeue, once for every request of ids, a run of requests from the head on.
Dequeue(q, ids) ==
    [q EXCEPT !.pending = [id \in DOMAIN q.pending \ ids |-> q.pending[id]],
              !.next_withdraw_to_execute =
                    FirstOf(DOMAIN q.pending \ ids, q.next_pending_withdrawal_id),
              !.escrow = @ - Escrow(q, ids),
              !.expected = @ - Expected(q, ids)]

-----------------------------------------------------------------------------
(* Deposits and withdrawals.  s is the state once fees are crystallized.   *)

CanDeposit(s, assets, minted) ==
    /\ s.op_state = Idle
    /\ assets > 0 /\ minted > 0
    /\ s.total_assets + assets <= MaxAmount /\ s.total_shares + minted <= MaxAmount

Deposit(s, assets, minted, now) ==
    [s EXCEPT !.total_assets = @ + assets, !.idle_assets = @ + assets,
              !.total_shares = @ + minted,
              !.fee_anchor = [total_assets |-> s.total_assets + assets, timestamp |-> now]]

CanAtomicWithdraw(s, assets, burned) ==
    /\ s.op_state = Idle
    /\ assets > 0 /\ burned > 0
    /\ assets <= s.idle_assets /\ burned <= s.total_shares

\* handle_atomic_withdraw and handle_atomic_redeem, which differ in the side
\* the caller fixes.  The fee anchor stays.
AtomicWithdraw(s, assets, burned) ==
    [s EXCEPT !.total_shares = @ - burned, !.idle_assets = @ - assets,
              !.total_assets = @ - assets]

CanRequestWithdraw(s, shares, expected) ==
    /\ s.op_state = Idle
    /\ shares > 0
    /\ expected <= s.total_assets /\ expected >= MinWithdrawalAssets
    /\ CanEnqueue(s.withdraw_queue)

RequestWithdraw(s, owner, receiver, shares, expected, now) ==
    [s EXCEPT !.withdraw_queue =
        Enqueue(s.withdraw_queue, [owner |-> owner, receiver |-> receiver, escrow |-> shares,
                                   expected |-> expected, requested_at |-> now])]

\* A request is dropped when its owner or receiver is restricted or it is worth
\* nothing.  The vault itself may receive under a whitelist that does not name it.
MustSkip(r, restrictions) ==
    \/ IsRestricted(restrictions, r.owner)
    \/ /\ IsRestricted(restrictions, r.receiver)
       /\ ~(restrictions.kind = "Whitelist" /\ r.receiver = SELF)
    \/ r.expected = 0

\* The requests from the head on that a withdrawal run drops.
Skipped(q, restrictions) ==
    {id \in DOMAIN q.pending :
        \A j \in DOMAIN q.pending : j <= id => MustSkip(q.pending[j], restrictions)}

IsReady(s, now) ==
    /\ HasHead(s.withdraw_queue)
    /\ now >= HeadRequest(s.withdraw_queue).requested_at + WithdrawalCooldown
    /\ s.idle_assets >= HeadRequest(s.withdraw_queue).expected

StartWithdrawal(s) ==
    [s EXCEPT !.op_state = [kind |-> "Withdrawing", op_id |-> s.next_op_id,
                            request_id |-> s.withdraw_queue.next_withdraw_to_execute,
                            remaining |-> HeadRequest(s.withdraw_queue).expected, collected |-> 0],
              !.next_op_id = @ + 1]

\* withdrawal_settled: all that is expected is paid and all of the escrow burned.
WithdrawalSettled(s, amount, burn) ==
    [s EXCEPT !.op_state = [kind |-> "Payout", op_id |-> s.op_state.op_id,
                            request_id |-> s.op_state.request_id,
                            amount |-> amount, burn |-> burn]]

CanSettlePayout(s, success) ==
    /\ s.op_state.kind = "Payout"
    /\ s.op_state.request_id = s.withdraw_queue.next_withdraw_to_execute
    /\ success => /\ s.op_state.burn <= s.total_shares
                  /\ s.op_state.amount <= s.idle_assets

\* A failed transfer burns nothing; the request leaves the queue all the same.
SettlePayout(s, success) ==
    LET settled == [s EXCEPT !.op_state = Idle,
                             !.withdraw_queue = Dequeue(@, {s.op_state.request_id})]
    IN  IF success
        THEN SyncTotalAssets([settled EXCEPT !.total_shares = @ - s.op_state.burn,
                                             !.idle_assets = @ - s.op_state.amount])
        ELSE settled

-----------------------------------------------------------------------------
(* Allocation and refresh.  The executor reserves the operation's id.      *)

\* Mutant: what is allocated still counts as idle.
BeginAllocatingKeepsIdle(s, amount) ==
    [s EXCEPT !.op_state = [kind |-> "Allocating", op_id |-> s.next_op_id,
                            remaining |-> amount],
              !.next_op_id = @ + 1]

BeginAllocating(s, amount) ==
    SyncTotalAssets(
        [s EXCEPT !.op_state = [kind |-> "Allocating", op_id |-> s.next_op_id,
                                remaining |-> amount],
                  !.idle_assets = @ - amount,
                  !.next_op_id = @ + 1])

CanBeginAllocating(s, amount) == s.op_state = Idle /\ amount <= s.idle_assets

BeginRefreshing(s) ==
    [s EXCEPT !.op_state = [kind |-> "Refreshing", op_id |-> s.next_op_id],
              !.next_op_id = @ + 1]

\* The executor adds the principals up with checked additions.
CanSyncExternalAssets(s, external) ==
    external \in 0..MaxAmount /\ s.idle_assets + external <= MaxAmount

SyncExternalAssets(s, external) ==
    SyncTotalAssets([s EXCEPT !.external_assets = external])

CanRebalanceWithdraw(s, amount) == amount <= s.external_assets

\* Mutant: what comes back still counts as external.
RebalanceWithdrawKeepsExternal(s, amount) ==
    SyncTotalAssets([s EXCEPT !.idle_assets = @ + amount])

RebalanceWithdraw(s, amount) ==
    SyncTotalAssets([s EXCEPT !.external_assets = @ - amount, !.idle_assets = @ + amount])

\* FinishAllocating and FinishRefreshing.
Finish(s) == [s EXCEPT !.op_state = Idle]
=============================================================================
