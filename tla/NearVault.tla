------------------------------ MODULE NearVault ------------------------------
(***************************************************************************)
(* The NEAR executor of the vault (contract/vault/near).  One operation is *)
(* in flight at a time, but it spans many receipts: the contract calls the *)
(* underlying token or a market, and a callback goes on when the answer    *)
(* arrives.  A callback may find that its operation has ended meanwhile    *)
(* (unbrick, or another callback that stopped it), which is what op ids    *)
(* and fenced market leases are for.                                       *)
(*                                                                         *)
(* A handler is an operator from the contract's storage, a record, to a    *)
(* result: the storage it leaves and the receipts it sends.  A handler     *)
(* that panics leaves the storage alone and sends nothing (Panics).        *)
(***************************************************************************)
EXTENDS VaultKernel, SequencesExt

CONSTANTS Users, FeeRecipient,
          Markets,             \* market ids, naturals
          Cap,                 \* the cap of each market
          SupplyQueue,         \* the markets deposits may go to, a sequence
          Fees,                \* rates, and at most one cap on growth
          RefreshCooldown, ResyncCooldown

VARIABLES vault,               \* the contract's storage, with two fields of history:
                               \* outcomes and strays
          now,                 \* block time
          balance,             \* what the vault's account holds at the token
          position,            \* market -> the vault's deposit there
          yield,               \* market -> yield the market owes on top
          requested,           \* market -> the vault's open withdrawal request
          to_token,            \* receipts for the token contract, in order
          to_vault,            \* what the token contract sends the vault, in order
          calls,               \* receipts for the markets
          replies,             \* what the markets answer the vault
          delivered,           \* requests whose payout the token has carried out
          mishaps              \* receipts that failed and calls of unbrick so far

vars == <<vault, now, balance, position, yield, requested, to_token, to_vault, calls,
          replies, delivered, mishaps>>

Accounts == Users \union {FeeRecipient, SELF}

Failed == -1                   \* a promise that failed
Missing == -2                  \* a market that knows no position of the vault
NoLease == [op_id |-> 0, fencing_token |-> 0]

-----------------------------------------------------------------------------
(* Results of handlers.                                                    *)

Done(s) == [vault |-> s, token |-> <<>>, market |-> {}]
AsksToken(s, receipt) == [vault |-> s, token |-> <<receipt>>, market |-> {}]
AsksMarket(s, receipt) == [vault |-> s, token |-> <<>>, market |-> {receipt}]
Panics == Done(vault)

BalanceOf(then) == [kind |-> "balance_of", then |-> then]

-----------------------------------------------------------------------------
(* Totals, caps and the fee anchor.                                        *)

TotalSupply(s) == MapThenSumSet(LAMBDA a : s.shares[a], Accounts)
TotalAssets(s) == s.idle_balance + MapThenSumSet(LAMBDA m : s.principal[m], Markets)

\* kernel_state_mirror.
Mirror(s) ==
    [total_assets |-> TotalAssets(s), total_shares |-> TotalSupply(s),
     idle_assets |-> s.idle_balance,
     external_assets |-> TotalAssets(s) - s.idle_balance,
     fee_anchor |-> s.fee_anchor, op_state |-> s.op_state,
     withdraw_queue |-> s.withdraw_queue, next_op_id |-> s.next_op_id]

\* Markets of no cap group: those have only their own cap.
RoomOf(s, m) == Minus(Cap[m], s.principal[m])

\* Without relative caps the fixed point of get_max_deposit is the room that
\* the markets of the supply queue leave.
GetMaxDeposit(s) == MapThenSumSet(LAMBDA m : RoomOf(s, m), Range(SupplyQueue))

\* total_assets_for_fee_accrual; unlike the kernel's, an anchor without assets
\* lifts the limit instead of the fee.
AccrualBase(total, anchor) ==
    IF Fees.cap = {} \/ anchor.total_assets = 0 THEN total
    ELSE FeeBase(total, anchor, Fees, now)

\* The supply once fees are minted, in two steps as minted.
FeeSupply(s) ==
    LET base == AccrualBase(TotalAssets(s), s.fee_anchor)
        managed == TotalSupply(s) + ManagementShares(Mirror(s), base, Fees, now)
    IN  SupplyAfterPerformance(Mirror(s), base, Fees, managed)

AccruePanics(s) == now > s.fee_anchor.timestamp /\ s.op_state # Idle

InternalAccrueFee(s) ==
    [s EXCEPT !.shares[FeeRecipient] = @ + FeeSupply(s) - TotalSupply(s),
              !.fee_anchor = [total_assets |-> TotalAssets(s), timestamp |-> now]]

-----------------------------------------------------------------------------
(* The operation, the address book and the leases.                         *)

Waiting(s) == {s.withdraw_queue.pending[id] : id \in DOMAIN s.withdraw_queue.pending}

\* The accounts a later step resolves: those of the queue, and of the
\* operation while it withdraws or pays.
LiveAccounts(queue, op) ==
    UNION {{r.owner, r.receiver} :
           r \in {queue.pending[id] : id \in DOMAIN queue.pending}
                 \union (IF op.kind \in {"Withdrawing", "Payout"} THEN {op} ELSE {})}

\* set_op_state; rebuild_live_address_book forgets every other account.
SetOpState(s, op) ==
    [s EXCEPT !.op_state = op,
              !.address_book = @ \intersect LiveAccounts(s.withdraw_queue, op)]

PopHead(s) ==
    LET queue == Dequeue(s.withdraw_queue, {s.withdraw_queue.next_withdraw_to_execute})
    IN  [s EXCEPT !.withdraw_queue = queue,
                  !.address_book = @ \intersect LiveAccounts(queue, s.op_state)]

IsOp(s, kind, op_id) == s.op_state.kind = kind /\ s.op_state.op_id = op_id

HasCurrentLease(s, m, op_id, token) ==
    s.leases[m] = [op_id |-> op_id, fencing_token |-> token]

MayLock(s, m, op_id) == s.leases[m] = NoLease \/ s.leases[m].op_id = op_id

\* Mutant: the fencing token does not change.
LockReusesToken(s, m, op_id) ==
    [s EXCEPT !.leases[m] = [op_id |-> op_id, fencing_token |-> s.next_fencing_token]]

Lock(s, m, op_id) ==
    [s EXCEPT !.leases[m] = [op_id |-> op_id, fencing_token |-> s.next_fencing_token],
              !.next_fencing_token = @ + 1]

Unlock(s, m) == [s EXCEPT !.leases[m] = NoLease]
ClearLeases(s) == [s EXCEPT !.leases = [m \in Markets |-> NoLease]]

SetPrincipal(s, m, amount) == [s EXCEPT !.principal[m] = amount]

-----------------------------------------------------------------------------
(* Ending an operation.                                                    *)

\* Mutant: the escrow keeps what goes back.
RefundEscrowTwice(s, shares) == [s EXCEPT !.shares[s.op_state.owner] = @ + shares]

\* Escrow of the operation's request goes back to its owner.
RefundEscrow(s, shares) ==
    [s EXCEPT !.shares[SELF] = @ - shares, !.shares[s.op_state.owner] = @ + shares]

Settled(s, outcome) ==
    [s EXCEPT !.outcomes = @ @@ (s.op_state.request_id :> outcome)]

\* The request leaves the queue and the vault is idle again.
FinishRequest(s) ==
    SetOpState([PopHead(ClearLeases(s)) EXCEPT !.withdraw_route = <<>>], Idle)

RefundEscrowAndGoIdle(s) ==
    FinishRequest(Settled(RefundEscrow(s, s.op_state.escrow_shares), "refunded"))

\* Mutant: the resync flag stays up.
StopAllocatingKeepsResync(s) ==
    SetOpState([ClearLeases(s) EXCEPT !.idle_balance = @ + s.op_state.remaining], Idle)

StopAllocating(s) ==
    SetOpState([ClearLeases(s) EXCEPT !.idle_balance = @ + s.op_state.remaining,
                                      !.idle_resync_inflight_op_id = 0], Idle)

\* Mutant: the payout counts as failed at once.
ReconcilePayoutBlindly(s) ==
    Done(RefundEscrowAndGoIdle([s EXCEPT !.idle_balance = @ + s.op_state.amount]))

ReconcilePayout(s) ==
    AsksToken(s, BalanceOf([at |-> "payout_reconcile", op_id |-> s.op_state.op_id]))

StopAndExit(s) ==
    CASE s.op_state.kind = "Allocating"  -> Done(StopAllocating(s))
      [] s.op_state.kind = "Withdrawing" -> Done(RefundEscrowAndGoIdle(s))
      [] s.op_state.kind = "Refreshing"  -> Done(SetOpState(s, Idle))
      [] s.op_state.kind = "Payout"      -> ReconcilePayout(s)
      [] OTHER                           -> Done(s)

-----------------------------------------------------------------------------
(* Allocation: the amount leaves idle_balance, goes to the market with     *)
(* ft_transfer_call, and the position is read back.                        *)

StepAllocation(s) ==
    LET op == s.op_state
        step == op.plan[op.index + 1]
        to_supply == Least(RoomOf(s, step.market), step.amount)
    IN  IF op.remaining = 0 \/ op.index >= Len(op.plan) THEN StopAndExit(s)
        ELSE IF to_supply = 0 THEN Panics
        ELSE AsksToken(s, [kind |-> "transfer_call", market |-> step.market,
                           amount |-> to_supply,
                           then |-> [at |-> "supply_01", market |-> step.market,
                                     op_id |-> op.op_id, index |-> op.index,
                                     remaining_before |-> op.remaining]])

StartAllocation(s, m, amount) ==
    IF amount = 0 THEN Done(s)
    ELSE StepAllocation(
            [SetOpState(s, [kind |-> "Allocating", op_id |-> s.next_op_id, index |-> 0,
                            remaining |-> amount,
                            plan |-> <<[market |-> m, amount |-> amount]>>])
             EXCEPT !.idle_balance = @ - amount, !.next_op_id = @ + 1])

Supply01(s, cb, accepted) ==
    IF ~IsOp(s, "Allocating", cb.op_id) \/ accepted = Failed THEN StopAndExit(s)
    ELSE AsksMarket(s, [kind |-> "get_supply_position", market |-> cb.market,
                        then |-> [cb EXCEPT !.at = "supply_02"]
                                 @@ [before |-> s.principal[cb.market]]])

\* allocation_step_callback refuses a step that supplied nothing, or more than
\* was left; the panic undoes the whole callback.
Supply02(s, cb, found) ==
    LET accepted == Minus(found, cb.before)
        stepped == [SetPrincipal(s, cb.market, found)
                    EXCEPT !.op_state.index = @ + 1, !.op_state.remaining = @ - accepted]
    IN  IF ~IsOp(s, "Allocating", cb.op_id) \/ s.op_state.index # cb.index
             \/ found \in {Failed, Missing}
        THEN StopAndExit(s)
        ELSE IF accepted = 0 \/ accepted > s.op_state.remaining THEN Panics
        ELSE IF Minus(cb.remaining_before, accepted) = 0 THEN StopAndExit(stepped)
        ELSE StepAllocation(stepped)

-----------------------------------------------------------------------------
(* Withdrawal: what is idle counts first, then the keeper executes the     *)
(* markets of the route one by one; what was collected is paid out.        *)

Pay(s, burn) ==
    LET op == s.op_state
    IN  IF s.idle_balance < op.collected THEN Panics
        ELSE AsksToken(SetOpState([s EXCEPT !.idle_balance = @ - op.collected],
                                  [kind |-> "Payout", op_id |-> op.op_id,
                                   request_id |-> op.request_id, owner |-> op.owner,
                                   receiver |-> op.receiver, amount |-> op.collected,
                                   escrow_shares |-> op.escrow_shares,
                                   burn_shares |-> burn]),
                       [kind |-> "transfer", request |-> op.request_id,
                        amount |-> op.collected,
                        then |-> [at |-> "payment_01", op_id |-> op.op_id]])

\* compute_idle_settlement: the share of the escrow that was paid for, rounded up.
IdleSettlement(op) ==
    Least(op.escrow_shares,
          MulDivCeil(op.escrow_shares, op.collected, op.collected + op.remaining))

\* With the route exhausted the request is paid what there is; with nothing to
\* pay it stays at the head of the queue.
PayOrSignalNextWithdraw(s) ==
    LET op == s.op_state
    IN  IF op.remaining = 0 THEN Pay(s, op.escrow_shares)
        ELSE IF op.index < Len(s.withdraw_route) THEN Done(s)
        ELSE IF op.collected > 0 THEN Pay(s, IdleSettlement(op))
        ELSE Done([s EXCEPT !.withdraw_route = <<>>, !.op_state = Idle])

\* The step that credits the idle balance advances the index, as any step does.
StartWithdraw(s, route) ==
    LET head == HeadRequest(s.withdraw_queue)
        collected == Least(s.idle_balance, head.expected)
    IN  PayOrSignalNextWithdraw(
            [SetOpState(s, [kind |-> "Withdrawing", op_id |-> s.next_op_id,
                            request_id |-> s.withdraw_queue.next_withdraw_to_execute,
                            index |-> IF collected > 0 THEN 1 ELSE 0,
                            remaining |-> head.expected - collected,
                            collected |-> collected, owner |-> head.owner,
                            receiver |-> head.receiver, escrow_shares |-> head.escrow])
             EXCEPT !.withdraw_route = route, !.next_op_id = @ + 1])

\* withdraw_ctx_and_market_or_exit
IsWithdrawingFrom(s, cb) ==
    /\ IsOp(s, "Withdrawing", cb.op_id)
    /\ s.op_state.index < Len(s.withdraw_route)
    /\ s.withdraw_route[s.op_state.index + 1] = cb.market

IsStale(s, cb) == ~HasCurrentLease(s, cb.market, cb.op_id, cb.fencing_token)

\* The two chains of market callbacks, a withdrawal's and a rebalance's, share
\* their first two steps.  A rebalance that fails gives its lease back.
MayGoOn(s, cb) ==
    IF cb.chain = "withdraw" THEN IsWithdrawingFrom(s, cb) ELSE IsOp(s, "Allocating", cb.op_id)

GiveUp(s, cb) ==
    IF cb.chain = "withdraw" THEN StopAndExit(s)
    ELSE Done(SetOpState(Unlock(s, cb.market), Idle))

\* execute_withdraw_01, rebalance_withdraw_01.  A rebalance read the principal
\* when it began, and cb has it already.
ExecuteWithdraw01(s, cb, before_balance) ==
    IF IsStale(s, cb) THEN Done(s)
    ELSE IF ~MayGoOn(s, cb) THEN StopAndExit(s)
    ELSE IF before_balance = Failed THEN GiveUp(s, cb)
    ELSE AsksMarket(s, [kind |-> "execute_next_supply_withdrawal_request",
                        market |-> cb.market,
                        then |-> [cb EXCEPT !.at = "withdraw_02"]
                                 @@ [before_balance |-> before_balance,
                                     before_principal |-> s.principal[cb.market]]])

\* execute_withdraw_02, rebalance_withdraw_02
ExecuteWithdraw02(s, cb, found) ==
    IF IsStale(s, cb) THEN Done(s)
    ELSE IF ~MayGoOn(s, cb) THEN StopAndExit(s)
    ELSE IF found = Failed THEN GiveUp(s, cb)
    ELSE AsksToken(s, BalanceOf([cb EXCEPT !.at = "withdraw_03"]
                                @@ [reported |-> IF found = Missing THEN 0 ELSE found]))

\* compute_withdraw_deltas: only what arrived counts as withdrawn.
Creditable(cb, after_balance) ==
    Least(Minus(cb.before_principal, cb.reported), Minus(after_balance, cb.before_balance))

\* settle_market_principal_and_idle, and the lease is given back.
SettleMarket(s, cb, after_balance) ==
    [Unlock(SetPrincipal(s, cb.market, cb.before_principal - Creditable(cb, after_balance)),
            cb.market)
     EXCEPT !.idle_balance = after_balance]

\* execute_withdraw_03_settle: an inflow beyond the drop in principal is used
\* too.  The route advances when the market paid all it took off the principal.
ExecuteWithdraw03(s, cb, after_balance) ==
    LET drop == Minus(cb.before_principal, cb.reported)
        inflow == Minus(after_balance, cb.before_balance)
        paid == Least(Least(drop, inflow) + Minus(inflow, drop), s.op_state.remaining)
    IN  IF IsStale(s, cb) THEN Done(s)
        ELSE IF ~IsWithdrawingFrom(s, cb) \/ after_balance = Failed THEN StopAndExit(s)
        ELSE PayOrSignalNextWithdraw(
                [SettleMarket(s, cb, after_balance)
                 EXCEPT !.op_state.remaining = @ - paid,
                        !.op_state.collected = @ + paid,
                        !.op_state.index = IF 0 < drop /\ drop <= inflow THEN @ + 1 ELSE @])

\* rebalance_withdraw_03_settle
RebalanceWithdraw03(s, cb, after_balance) ==
    IF IsStale(s, cb) THEN Done(s)
    ELSE IF ~MayGoOn(s, cb) THEN StopAndExit(s)
    ELSE IF after_balance = Failed THEN GiveUp(s, cb)
    ELSE Done(SetOpState(SettleMarket(s, cb, after_balance), Idle))

\* payout_resync_and_refund
PayoutReconcile(s, cb, found) ==
    IF ~IsOp(s, "Payout", cb.op_id) THEN Done(s)
    ELSE Done(RefundEscrowAndGoIdle(
                IF found = Failed THEN s ELSE [s EXCEPT !.idle_balance = found]))

\* What a payout leaves of the escrow returns to the owner.
BurnAndRefund(s, burn, refund) ==
    RefundEscrow([s EXCEPT !.shares[SELF] = @ - burn], refund)

SettleEscrow(s, op) ==
    BurnAndRefund(s, op.burn_shares, op.escrow_shares - op.burn_shares)

\* payment_01_reconcile_idle_or_refund
Payment01(s, cb, result) ==
    IF ~IsOp(s, "Payout", cb.op_id) THEN Done(s)
    ELSE IF result = Failed
    THEN Done(RefundEscrowAndGoIdle([s EXCEPT !.idle_balance = @ + s.op_state.amount]))
    ELSE Done(FinishRequest(Settled(SettleEscrow(s, s.op_state), "paid")))

-----------------------------------------------------------------------------
(* Reading the positions and the idle balance again.                       *)

RefreshStep(s) ==
    LET op == s.op_state
    IN  AsksMarket(s, [kind |-> "get_supply_position", market |-> op.plan[op.index + 1],
                       then |-> [at |-> "refresh_01", market |-> op.plan[op.index + 1],
                                 op_id |-> op.op_id, index |-> op.index]])

\* refresh_01_settle: a position that cannot be read keeps its principal.
Refresh01(s, cb, found) ==
    LET read == [IF found \in {Failed, Missing} THEN s ELSE SetPrincipal(s, cb.market, found)
                 EXCEPT !.op_state.index = @ + 1]
    IN  IF ~IsOp(s, "Refreshing", cb.op_id) THEN Done(s)
        ELSE IF s.op_state.index # cb.index THEN Done(SetOpState(s, Idle))
        ELSE IF read.op_state.index >= Len(s.op_state.plan)
        THEN Done(SetOpState([read EXCEPT !.last_refresh_ns = now], Idle))
        ELSE RefreshStep(read)

\* The operation of a resync or of a rebalance: it only keeps others out.
Placeholder(op_id) ==
    [kind |-> "Allocating", op_id |-> op_id, index |-> 0, remaining |-> 0, plan |-> <<>>]

\* resync_idle_balance_01_settle: an increase over the balance the resync
\* began with is no profit, so the anchor moves with it.
Resync01(s, cb, found) ==
    LET resynced == [s EXCEPT !.idle_balance = found,
                              !.fee_anchor.total_assets = @ + Minus(found, cb.before_idle)]
    IN  IF s.idle_resync_inflight_op_id # cb.op_id THEN Done(s)
        ELSE Done(SetOpState(
                [IF s.op_state # Placeholder(cb.op_id) \/ found = Failed THEN s ELSE resynced
                 EXCEPT !.idle_resync_inflight_op_id = 0], Idle))

-----------------------------------------------------------------------------
(* A deposit arrives as ft_on_transfer; what it does not use is refunded.  *)

\* execute_supply: the amount used, nothing when it panics or is not accepted.
Accepts(s, amount) ==
    IF s.op_state # Idle \/ s.idle_resync_inflight_op_id # 0 THEN 0
    ELSE LET accept == Least(amount, GetMaxDeposit(s))
             minted == ConvertToShares(Mirror(InternalAccrueFee(s)), accept)
         IN  IF CanDeposit(Mirror(s), accept, minted) THEN accept ELSE 0

\* A deposit that finds no room is refused after fees have accrued; any other
\* refusal is a panic.
OnTransfer(s, user, amount) ==
    LET fresh == InternalAccrueFee(s)
        accept == Accepts(s, amount)
        minted == ConvertToShares(Mirror(fresh), accept)
    IN  IF accept > 0
        THEN [fresh EXCEPT !.shares[user] = @ + minted, !.idle_balance = @ + accept,
                           !.fee_anchor = [total_assets |-> TotalAssets(s) + accept,
                                           timestamp |-> now]]
        ELSE IF GetMaxDeposit(s) = 0 /\ s.op_state.kind # "Payout"
                /\ s.idle_resync_inflight_op_id = 0 /\ ~AccruePanics(s)
        THEN fresh
        ELSE s
=============================================================================
