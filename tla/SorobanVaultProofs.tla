-------------------------- MODULE SorobanVaultProofs --------------------------
(***************************************************************************)
(* For any users, markets, fees, offsets and bounds, the books of the      *)
(* Soroban vault balance and its idle assets are held.  The inductive      *)
(* invariant adds what the handlers rely on: every total is a natural      *)
(* number, and every waiting request puts a natural number of shares in    *)
(* escrow and expects a natural number of assets.                          *)
(***************************************************************************)
EXTENDS SorobanVault, TLAPS

\* Leaves that name no prover go to SMT, with half a minute each, then to Zenon.
USE SMTT(30), Zenon

IsQueue(q) ==
    /\ q = [pending |-> q.pending, next_withdraw_to_execute |-> q.next_withdraw_to_execute,
            next_pending_withdrawal_id |-> q.next_pending_withdrawal_id,
            escrow |-> q.escrow, expected |-> q.expected]
    /\ \A id \in DOMAIN q.pending :
            q.pending[id].expected \in Nat /\ q.pending[id].escrow \in Nat

IsVault(s) ==
    /\ s = [total_assets |-> s.total_assets, total_shares |-> s.total_shares,
            idle_assets |-> s.idle_assets, external_assets |-> s.external_assets,
            fee_anchor |-> s.fee_anchor, op_state |-> s.op_state,
            withdraw_queue |-> s.withdraw_queue, next_op_id |-> s.next_op_id]
    /\ s.total_shares \in Nat /\ s.idle_assets \in Nat /\ s.external_assets \in Nat
    /\ s.total_assets = s.idle_assets + s.external_assets
    /\ s.fee_anchor \in [total_assets : Nat, timestamp : Nat]
    /\ IsQueue(s.withdraw_queue)
    /\ s.next_op_id \in Nat

\* The state a transaction of the executor starts and ends in.
VaultInv ==
    /\ IsVault(vault)
    /\ vault.op_state = Idle
    /\ held \in Nat /\ vault.idle_assets <= held
    /\ now \in Nat
    /\ fees \in FeesSpec
    /\ value \in [Markets -> Nat]

\* The state with the given fields.
VaultOf(total, supply, idle, external, anchor, op, queue, next) ==
    [total_assets |-> total, total_shares |-> supply, idle_assets |-> idle,
     external_assets |-> external, fee_anchor |-> anchor, op_state |-> op,
     withdraw_queue |-> queue, next_op_id |-> next]

\* A state whose fields are as the kernel keeps them is a vault.
LEMMA VaultOfIsVault ==
    ASSUME NEW total, NEW supply \in Nat, NEW idle \in Nat, NEW external \in Nat,
           NEW anchor \in [total_assets : Nat, timestamp : Nat],
           NEW op, NEW queue, NEW next \in Nat,
           total = idle + external, IsQueue(queue)
    PROVE  IsVault(VaultOf(total, supply, idle, external, anchor, op, queue, next))
BY DEF IsVault, VaultOf

-----------------------------------------------------------------------------
(* Arithmetic of the conversions (math/wad.rs, Number::mul_div).           *)

\* A product of naturals is one.
LEMMA ProductNat == ASSUME NEW x \in Nat, NEW y \in Nat PROVE x * y \in Nat
OBVIOUS

\* Dividing a natural number by a positive one, rounding down, gives the largest
\* natural number whose product with the divisor does not exceed it.
LEMMA DivNat ==
    ASSUME NEW x \in Nat, NEW d \in Nat \ {0}
    PROVE  /\ x \div d \in Nat
           /\ d * (x \div d) <= x
OBVIOUS

\* mul_div_floor of naturals is one, and never more than the exact quotient.
LEMMA MulDivNat ==
    ASSUME NEW x \in Nat, NEW y \in Nat, NEW d \in Nat \ {0}
    PROVE  /\ MulDiv(x, y, d) \in Nat
           /\ d * MulDiv(x, y, d) <= x * y
BY ProductNat, DivNat DEF MulDiv

\* A fee rate applied to an amount (Wad::apply_floored) gives an amount.
LEMMA RateNat == ASSUME NEW f \in Fraction, NEW x \in Nat PROVE Rate(f, x) \in Nat
BY MulDivNat, Zenon DEF Rate, Fraction

\* compute_fee_shares_from_assets mints a natural number of shares.
LEMMA FeeSharesNat ==
    ASSUME NEW fee \in Nat, NEW total \in Nat, NEW supply \in Nat
    PROVE  FeeShares(fee, total, supply) \in Nat
<1>1. CASE fee = 0 \/ supply = 0 \/ fee >= total
    BY <1>1 DEF FeeShares
<1>2. CASE ~(fee = 0 \/ supply = 0 \/ fee >= total)
    <2>1. total - fee \in Nat \ {0}
        BY <1>2
    <2> QED BY <1>2, <2>1, MulDivNat DEF FeeShares
<1> QED BY <1>1, <1>2

\* The totals that shares are priced with are positive, so that no conversion
\* divides by zero (effective_totals).
LEMMA EffectivePositive ==
    ASSUME NEW s, IsVault(s)
    PROVE  EffectiveSupply(s) \in Nat \ {0} /\ EffectiveAssets(s) \in Nat \ {0}
BY KernelAssumption DEF IsVault, EffectiveSupply, EffectiveAssets, AtLeast1

\* mul_div_ceil of naturals is one, and never less than the exact quotient.
LEMMA MulDivCeilNat ==
    ASSUME NEW x \in Nat, NEW y \in Nat, NEW d \in Nat \ {0}
    PROVE  /\ MulDivCeil(x, y, d) \in Nat
           /\ x * y <= d * MulDivCeil(x, y, d)
<1> DEFINE p == x * y
<1>1. p \in Nat
    BY ProductNat
<1> HIDE DEF p
<1> DEFINE q == (p + d - 1) \div d
<1>2. p + d - 1 \in Nat
    BY <1>1
<1>3. q \in Nat
    BY <1>2, DivNat
<1>4. p + d - 1 < d * q + d
    BY <1>2
<1>5. p <= d * q
    <2> DEFINE r == d * q
    <2>1. r \in Nat
        BY <1>3, ProductNat
    <2> HIDE DEF r
    <2>2. p + d - 1 < r + d
        BY <1>4 DEF r
    <2>3. p <= r
        BY <1>1, <2>1, <2>2
    <2> QED BY <2>3 DEF r
<1> QED BY <1>3, <1>5 DEF MulDivCeil, p

\* convert_to_shares rounds for the vault.
LEMMA SharesForAssets ==
    ASSUME NEW s, IsVault(s), NEW x \in Nat
    PROVE  /\ ConvertToShares(s, x) \in Nat
           /\ EffectiveAssets(s) * ConvertToShares(s, x) <= x * EffectiveSupply(s)
BY EffectivePositive, MulDivNat, Zenon DEF ConvertToShares

\* convert_to_redeem_assets rounds for the vault, on either basis.
LEMMA AssetsForShares ==
    ASSUME NEW s, IsVault(s), NEW x \in Nat
    PROVE  /\ ConvertToRedeemAssets(s, x) \in Nat
           /\ EffectiveSupply(s) * ConvertToRedeemAssets(s, x) <= x * EffectiveAssets(s)
<1> DEFINE A == EffectiveAssets(s)
           S == EffectiveSupply(s)
           quote == MulDiv(x, A, S)
           assets == ConvertToRedeemAssets(s, x)
<1>1. A \in Nat \ {0} /\ S \in Nat \ {0}
    BY EffectivePositive
<1> HIDE DEF A, S
<1>2. quote \in Nat /\ S * quote <= x * A
    BY <1>1, MulDivNat
<1>3. assets \in Nat /\ assets <= quote
    <2>1. CASE VirtualAssets # 0 /\ s.total_shares # 0
        <3>1. s.total_shares \in Nat \ {0} /\ s.total_assets \in Nat
            BY <2>1 DEF IsVault
        <3>2. MulDiv(x, s.total_assets, s.total_shares) \in Nat
            BY <3>1, MulDivNat, Zenon
        <3>3. assets = Least(quote, MulDiv(x, s.total_assets, s.total_shares))
            BY <2>1 DEF ConvertToRedeemAssets, A, S
        <3> HIDE DEF assets, quote
        <3> QED BY <1>2, <3>2, <3>3 DEF Least
    <2>2. CASE ~(VirtualAssets # 0 /\ s.total_shares # 0)
        BY <1>2, <2>2 DEF ConvertToRedeemAssets, A, S
    <2> QED BY <2>1, <2>2
<1> HIDE DEF assets, quote
<1>4. S * assets <= S * quote
    BY <1>1, <1>2, <1>3, SMTT(30)
<1>5. S * assets \in Nat /\ S * quote \in Nat /\ x * A \in Nat
    BY <1>1, <1>2, <1>3, ProductNat
<1>6. S * assets <= x * A
    BY <1>2, <1>4, <1>5
<1> QED BY <1>3, <1>6 DEF A, S, assets

\* convert_to_withdraw_shares_ceil rounds for the vault, on either basis.
LEMMA SharesForWithdrawal ==
    ASSUME NEW s, IsVault(s), NEW x \in Nat
    PROVE  /\ ConvertToWithdrawShares(s, x) \in Nat
           /\ x * EffectiveSupply(s) <= EffectiveAssets(s) * ConvertToWithdrawShares(s, x)
<1> DEFINE A == EffectiveAssets(s)
           S == EffectiveSupply(s)
           quote == MulDivCeil(x, S, A)
           burned == ConvertToWithdrawShares(s, x)
<1>1. A \in Nat \ {0} /\ S \in Nat \ {0}
    BY EffectivePositive
<1> HIDE DEF A, S
<1>2. quote \in Nat /\ x * S <= A * quote
    BY <1>1, MulDivCeilNat
<1>3. burned \in Nat /\ quote <= burned
    <2>1. CASE VirtualAssets # 0 /\ s.total_assets # 0
        <3>1. s.total_shares \in Nat /\ s.total_assets \in Nat \ {0}
            BY <2>1 DEF IsVault
        <3>2. MulDivCeil(x, s.total_shares, s.total_assets) \in Nat
            BY <3>1, MulDivCeilNat, Zenon
        <3>3. burned = Most(quote, MulDivCeil(x, s.total_shares, s.total_assets))
            BY <2>1 DEF ConvertToWithdrawShares, A, S
        <3> HIDE DEF burned, quote
        <3> QED BY <1>2, <3>2, <3>3 DEF Most
    <2>2. CASE ~(VirtualAssets # 0 /\ s.total_assets # 0)
        BY <1>2, <2>2 DEF ConvertToWithdrawShares, A, S
    <2> QED BY <2>1, <2>2
<1> HIDE DEF burned, quote
<1>4. A * quote <= A * burned
    BY <1>1, <1>2, <1>3, SMTT(30)
<1>5. A * quote \in Nat /\ A * burned \in Nat /\ x * S \in Nat
    BY <1>1, <1>2, <1>3, ProductNat
<1>6. x * S <= A * burned
    BY <1>2, <1>4, <1>5
<1> QED BY <1>3, <1>6 DEF A, S, burned

-----------------------------------------------------------------------------
(* Fees.                                                                   *)

\* The base that fees are charged on is a natural number, with and without a cap
\* on growth (total_assets_for_fee_accrual).
LEMMA FeeBaseNat ==
    ASSUME NEW total \in Nat, NEW anchor \in [total_assets : Nat, timestamp : Nat],
           NEW f \in FeesSpec, NEW t \in Nat, t >= anchor.timestamp
    PROVE  FeeBase(total, anchor, f, t) \in Nat
<1>1. CASE anchor.total_assets = 0 \/ f.cap = {} \/ total <= anchor.total_assets
    BY <1>1 DEF FeeBase
<1>2. CASE ~(anchor.total_assets = 0 \/ f.cap = {} \/ total <= anchor.total_assets)
    <2> DEFINE cap == CHOOSE c \in f.cap : TRUE
               growth == MulDiv(Rate(cap, anchor.total_assets), t - anchor.timestamp, Year)
    <2>1. cap \in Fraction
        BY <1>2 DEF FeesSpec
    <2>2. Rate(cap, anchor.total_assets) \in Nat /\ t - anchor.timestamp \in Nat
        BY <2>1, RateNat
    <2>3. growth \in Nat
        BY <2>2, MulDivNat, KernelAssumption
    <2>4. FeeBase(total, anchor, f, t) = Least(total, anchor.total_assets + growth)
        BY <1>2 DEF FeeBase
    <2> HIDE DEF growth
    <2> QED BY <2>3, <2>4 DEF Least
<1> QED BY <1>1, <1>2

\* One accrual never lowers the supply (compute_fee_accrual).
LEMMA SupplyAfterFeesNat ==
    ASSUME NEW s, IsVault(s), NEW base \in Nat, NEW f \in FeesSpec, NEW t \in Nat,
           t >= s.fee_anchor.timestamp
    PROVE  /\ SupplyAfterFees(s, base, f, t) \in Nat
           /\ SupplyAfterFees(s, base, f, t) >= s.total_shares
<1>1. /\ s.total_assets \in Nat /\ s.total_shares \in Nat
      /\ s.fee_anchor.total_assets \in Nat /\ t - s.fee_anchor.timestamp \in Nat
      /\ f.management \in Fraction /\ f.performance \in Fraction
    BY DEF IsVault, FeesSpec
<1>2. ManagementShares(s, base, f, t) \in Nat
    BY <1>1, RateNat, MulDivNat, FeeSharesNat, KernelAssumption, Zenon DEF ManagementShares
<1> DEFINE supply == s.total_shares + ManagementShares(s, base, f, t)
<1>3. supply \in Nat /\ supply >= s.total_shares
    BY <1>1, <1>2
<1>4. Minus(base, s.fee_anchor.total_assets) \in Nat
    BY <1>1 DEF Minus
<1>5. PerformanceShares(s, base, f, supply) \in Nat
    BY <1>1, <1>3, <1>4, RateNat, FeeSharesNat, Zenon DEF PerformanceShares
<1> HIDE DEF supply
<1>6. /\ SupplyAfterPerformance(s, base, f, supply) \in Nat
      /\ SupplyAfterPerformance(s, base, f, supply) >= s.total_shares
    BY <1>1, <1>3, <1>5 DEF SupplyAfterPerformance
<1> QED BY <1>1, <1>6 DEF SupplyAfterFees, supply

\* Crystallizing fees changes the supply and the anchor and nothing else
\* (refresh_fees_before_value_transfer, handle_refresh_fees).
LEMMA RefreshFeesSound ==
    ASSUME NEW s, IsVault(s), NEW f \in FeesSpec, NEW t \in Nat, t >= s.fee_anchor.timestamp
    PROVE  /\ IsVault(RefreshFees(s, f, t))
           /\ RefreshFees(s, f, t).op_state = s.op_state
           /\ RefreshFees(s, f, t).idle_assets = s.idle_assets
           /\ RefreshFees(s, f, t).total_shares >= s.total_shares
           /\ RefreshFees(s, f, t).total_assets = s.total_assets
           /\ RefreshFees(s, f, t).next_op_id = s.next_op_id
           /\ RefreshFees(s, f, t).external_assets = s.external_assets
           /\ RefreshFees(s, f, t).withdraw_queue = s.withdraw_queue
           /\ RefreshFees(s, f, t).fee_anchor.total_assets = s.total_assets
<1> DEFINE base == FeeBase(s.total_assets, s.fee_anchor, f, t)
           supply == SupplyAfterFees(s, base, f, t)
<1>1. base \in Nat
    BY FeeBaseNat DEF IsVault
<1> HIDE DEF base
<1>2. supply \in Nat /\ supply >= s.total_shares
    BY <1>1, SupplyAfterFeesNat
<1>3. RefreshFees(s, f, t) =
        [s EXCEPT !.total_shares = supply,
                  !.fee_anchor = [total_assets |-> s.total_assets, timestamp |-> t]]
    BY DEF RefreshFees, base
<1> HIDE DEF supply
<1>4. RefreshFees(s, f, t) =
        VaultOf(s.total_assets, supply, s.idle_assets, s.external_assets,
                [total_assets |-> s.total_assets, timestamp |-> t],
                s.op_state, s.withdraw_queue, s.next_op_id)
    BY <1>3, Zenon DEF IsVault, VaultOf
<1>5. IsVault(RefreshFees(s, f, t))
    BY <1>2, <1>4, VaultOfIsVault DEF IsVault
<1> QED BY <1>2, <1>4, <1>5 DEF VaultOf

\* Crystallizing fees if they are due, as every transfer of value does first
\* (refresh_fees_before_value_transfer), leaves the assets and never lowers the supply.
LEMMA CrystallizedSound ==
    ASSUME NEW s, IsVault(s), NEW f \in FeesSpec, NEW t \in Nat
    PROVE  /\ IsVault(Crystallized(s, f, t))
           /\ Crystallized(s, f, t).op_state = s.op_state
           /\ Crystallized(s, f, t).idle_assets = s.idle_assets
           /\ Crystallized(s, f, t).total_shares >= s.total_shares
           /\ Crystallized(s, f, t).total_assets = s.total_assets
           /\ Crystallized(s, f, t).next_op_id = s.next_op_id
           /\ Crystallized(s, f, t).external_assets = s.external_assets
           /\ Crystallized(s, f, t).withdraw_queue = s.withdraw_queue
           /\ Crystallized(s, f, t).fee_anchor.total_assets
                \in {s.fee_anchor.total_assets, s.total_assets}
<1>1. CASE FeesAreDue(s, f, t)
    <2>1. t >= s.fee_anchor.timestamp
        BY <1>1 DEF FeesAreDue, IsVault
    <2> QED BY <1>1, <2>1, RefreshFeesSound DEF Crystallized
<1>2. CASE ~FeesAreDue(s, f, t)
    BY <1>2 DEF Crystallized, IsVault
<1> QED BY <1>1, <1>2

\* Reconciling with a balance that covers the idle assets keeps the books
\* (reconcile_actual_idle_assets).
LEMMA ReconcileIdleSound ==
    ASSUME NEW s, IsVault(s), NEW actual \in Nat, s.idle_assets <= actual
    PROVE  /\ IsVault(ReconcileIdle(s, actual))
           /\ ReconcileIdle(s, actual).op_state = s.op_state
           /\ ReconcileIdle(s, actual).idle_assets = actual
           /\ ReconcileIdle(s, actual).total_shares = s.total_shares
           /\ ReconcileIdle(s, actual).total_assets >= s.total_assets
           /\ ReconcileIdle(s, actual).next_op_id = s.next_op_id
           /\ ReconcileIdle(s, actual).external_assets = s.external_assets
           /\ ReconcileIdle(s, actual).withdraw_queue = s.withdraw_queue
           /\ ReconcileIdle(s, actual).fee_anchor.timestamp = s.fee_anchor.timestamp
           /\ ReconcileIdle(s, actual).total_assets
                    - ReconcileIdle(s, actual).fee_anchor.total_assets
                = s.total_assets - s.fee_anchor.total_assets
<1>1. CASE s.idle_assets = actual
    BY <1>1 DEF ReconcileIdle, IsVault
<1>2. CASE s.idle_assets # actual
    <2>1. Minus(actual, s.idle_assets) \in Nat
        BY DEF Minus, IsVault
    <2>2. ReconcileIdle(s, actual) =
            [s EXCEPT !.idle_assets = actual,
                      !.total_assets = actual + s.external_assets,
                      !.fee_anchor.total_assets = @ + Minus(actual, s.idle_assets)]
        BY <1>2, Zenon DEF ReconcileIdle, SyncTotalAssets, IsVault
    <2> DEFINE anchor == [s.fee_anchor EXCEPT !.total_assets = @ + Minus(actual, s.idle_assets)]
    <2>3. anchor \in [total_assets : Nat, timestamp : Nat]
        BY <2>1 DEF IsVault
    <2>4. /\ anchor.timestamp = s.fee_anchor.timestamp
          /\ (actual + s.external_assets) - anchor.total_assets
                = s.total_assets - s.fee_anchor.total_assets
        BY DEF IsVault, Minus
    <2>5. ReconcileIdle(s, actual) =
            VaultOf(actual + s.external_assets, s.total_shares, actual, s.external_assets,
                    anchor, s.op_state, s.withdraw_queue, s.next_op_id)
        BY <2>2, Zenon DEF IsVault, VaultOf
    <2> HIDE DEF anchor
    <2>6. IsVault(ReconcileIdle(s, actual))
        BY <2>3, <2>5, VaultOfIsVault DEF IsVault
    <2>7. actual + s.external_assets >= s.total_assets
        BY DEF IsVault
    <2> QED BY <2>4, <2>5, <2>6, <2>7 DEF VaultOf
<1> QED BY <1>1, <1>2

-----------------------------------------------------------------------------
(* The queue.                                                              *)

\* The queue starts well formed (WithdrawQueue::new).
LEMMA EmptyQueueIsQueue == IsQueue(EmptyQueue)
BY DEF IsQueue, EmptyQueue

\* A request with natural amounts keeps the queue well formed (enqueue).
LEMMA EnqueueIsQueue ==
    ASSUME NEW q, IsQueue(q), NEW r, r.expected \in Nat, r.escrow \in Nat
    PROVE  IsQueue(Enqueue(q, r))
<1> DEFINE pending == [id \in DOMAIN q.pending \union {q.next_pending_withdrawal_id} |->
                         IF id = q.next_pending_withdrawal_id THEN r ELSE q.pending[id]]
<1>1. \A id \in DOMAIN pending : pending[id].expected \in Nat /\ pending[id].escrow \in Nat
    BY DEF IsQueue
<1>2. Enqueue(q, r) =
        [pending |-> pending, next_withdraw_to_execute |-> q.next_withdraw_to_execute,
         next_pending_withdrawal_id |-> q.next_pending_withdrawal_id + 1,
         escrow |-> q.escrow + r.escrow, expected |-> q.expected + r.expected]
    BY DEF Enqueue
<1> HIDE DEF pending
<1> QED BY <1>1, <1>2 DEF IsQueue

\* Requests that leave keep the queue well formed (dequeue).
LEMMA DequeueIsQueue ==
    ASSUME NEW q, IsQueue(q), NEW ids
    PROVE  IsQueue(Dequeue(q, ids))
<1> DEFINE pending == [id \in DOMAIN q.pending \ ids |-> q.pending[id]]
           next == FirstOf(DOMAIN q.pending \ ids, q.next_pending_withdrawal_id)
           escrow == q.escrow - Escrow(q, ids)
           expected == q.expected - Expected(q, ids)
<1>1. \A id \in DOMAIN pending : pending[id].expected \in Nat /\ pending[id].escrow \in Nat
    BY DEF IsQueue
<1>2. Dequeue(q, ids) = [q EXCEPT !.pending = pending, !.next_withdraw_to_execute = next,
                                  !.escrow = escrow, !.expected = expected]
    BY DEF Dequeue
<1> HIDE DEF pending, next, escrow, expected
<1>3. Dequeue(q, ids) =
        [pending |-> pending, next_withdraw_to_execute |-> next,
         next_pending_withdrawal_id |-> q.next_pending_withdrawal_id,
         escrow |-> escrow, expected |-> expected]
    BY <1>2, Zenon DEF IsQueue
<1> QED BY <1>1, <1>3 DEF IsQueue

-----------------------------------------------------------------------------
(* The handlers: what each leaves of a vault.                              *)

\* handle_deposit adds the assets to both sides of the books and the shares to the
\* supply.
LEMMA DepositSound ==
    ASSUME NEW s, IsVault(s), NEW assets \in Nat, NEW minted \in Nat, NEW t \in Nat
    PROVE  /\ IsVault(Deposit(s, assets, minted, t))
           /\ Deposit(s, assets, minted, t).op_state = s.op_state
           /\ Deposit(s, assets, minted, t).idle_assets = s.idle_assets + assets
           /\ Deposit(s, assets, minted, t).total_assets = s.total_assets + assets
           /\ Deposit(s, assets, minted, t).total_shares = s.total_shares + minted
           /\ Deposit(s, assets, minted, t).external_assets = s.external_assets
           /\ Deposit(s, assets, minted, t).withdraw_queue = s.withdraw_queue
           /\ Deposit(s, assets, minted, t).fee_anchor.total_assets = s.total_assets + assets
<1> DEFINE anchor == [total_assets |-> s.total_assets + assets, timestamp |-> t]
           total == s.total_assets + assets
           supply == s.total_shares + minted
           idle == s.idle_assets + assets
<1>1. Deposit(s, assets, minted, t) =
        [s EXCEPT !.total_assets = total, !.idle_assets = idle, !.total_shares = supply,
                  !.fee_anchor = anchor]
    BY DEF Deposit
<1>2. /\ anchor \in [total_assets : Nat, timestamp : Nat]
      /\ supply \in Nat /\ idle \in Nat /\ total = idle + s.external_assets
    BY DEF IsVault
<1>3. total = s.total_assets + assets /\ supply = s.total_shares + minted
      /\ idle = s.idle_assets + assets /\ anchor.total_assets = s.total_assets + assets
    OBVIOUS
<1> HIDE DEF anchor, total, supply, idle
<1>4. Deposit(s, assets, minted, t) =
        VaultOf(total, supply, idle, s.external_assets, anchor, s.op_state,
                s.withdraw_queue, s.next_op_id)
    BY <1>1, Zenon DEF IsVault, VaultOf
<1>5. IsVault(Deposit(s, assets, minted, t))
    BY <1>2, <1>4, VaultOfIsVault DEF IsVault
<1> QED BY <1>3, <1>4, <1>5 DEF VaultOf

\* handle_atomic_withdraw and handle_atomic_redeem take covered assets off both
\* sides of the books.
LEMMA AtomicWithdrawSound ==
    ASSUME NEW s, IsVault(s), NEW assets \in Nat, NEW burned \in Nat,
           assets <= s.idle_assets, burned <= s.total_shares
    PROVE  /\ IsVault(AtomicWithdraw(s, assets, burned))
           /\ AtomicWithdraw(s, assets, burned).op_state = s.op_state
           /\ AtomicWithdraw(s, assets, burned).idle_assets = s.idle_assets - assets
           /\ AtomicWithdraw(s, assets, burned).total_assets = s.total_assets - assets
           /\ AtomicWithdraw(s, assets, burned).total_shares = s.total_shares - burned
           /\ AtomicWithdraw(s, assets, burned).external_assets = s.external_assets
           /\ AtomicWithdraw(s, assets, burned).withdraw_queue = s.withdraw_queue
           /\ AtomicWithdraw(s, assets, burned).fee_anchor = s.fee_anchor
<1> DEFINE total == s.total_assets - assets
           supply == s.total_shares - burned
           idle == s.idle_assets - assets
<1>1. AtomicWithdraw(s, assets, burned) =
        [s EXCEPT !.total_shares = supply, !.idle_assets = idle, !.total_assets = total]
    BY DEF AtomicWithdraw
<1>2. supply \in Nat /\ idle \in Nat /\ total = idle + s.external_assets
    BY DEF IsVault
<1>3. total = s.total_assets - assets /\ supply = s.total_shares - burned
      /\ idle = s.idle_assets - assets
    OBVIOUS
<1> HIDE DEF total, supply, idle
<1>4. AtomicWithdraw(s, assets, burned) =
        VaultOf(total, supply, idle, s.external_assets, s.fee_anchor, s.op_state,
                s.withdraw_queue, s.next_op_id)
    BY <1>1, Zenon DEF IsVault, VaultOf
<1>5. IsVault(AtomicWithdraw(s, assets, burned))
    BY <1>2, <1>4, VaultOfIsVault DEF IsVault
<1> QED BY <1>3, <1>4, <1>5 DEF VaultOf

\* Only the queue changes.
LEMMA RequeuedSound ==
    ASSUME NEW s, IsVault(s), NEW q, IsQueue(q)
    PROVE  LET n == [s EXCEPT !.withdraw_queue = q]
           IN  /\ IsVault(n) /\ n.op_state = s.op_state /\ n.idle_assets = s.idle_assets
               /\ n.total_assets = s.total_assets /\ n.total_shares = s.total_shares
               /\ n.withdraw_queue = q /\ n.next_op_id = s.next_op_id
               /\ n.external_assets = s.external_assets /\ n.fee_anchor = s.fee_anchor
<1>1. [s EXCEPT !.withdraw_queue = q] =
        VaultOf(s.total_assets, s.total_shares, s.idle_assets, s.external_assets,
                s.fee_anchor, s.op_state, q, s.next_op_id)
    BY DEF IsVault, VaultOf
<1>2. IsVault([s EXCEPT !.withdraw_queue = q])
    BY <1>1, VaultOfIsVault DEF IsVault
<1> QED BY <1>1, <1>2 DEF VaultOf

\* sync_total_assets sets the total and nothing else.
LEMMA SyncOf ==
    ASSUME NEW total, NEW supply, NEW idle, NEW external, NEW anchor, NEW op, NEW queue, NEW next
    PROVE  SyncTotalAssets(VaultOf(total, supply, idle, external, anchor, op, queue, next)) =
           VaultOf(idle + external, supply, idle, external, anchor, op, queue, next)
<1> DEFINE s == VaultOf(total, supply, idle, external, anchor, op, queue, next)
           sum == idle + external
<1>1. s.idle_assets = idle /\ s.external_assets = external
    BY DEF VaultOf
<1>2. SyncTotalAssets(s) = [s EXCEPT !.total_assets = sum]
    BY <1>1 DEF SyncTotalAssets
<1> HIDE DEF sum
<1>3. [s EXCEPT !.total_assets = sum] =
        VaultOf(sum, supply, idle, external, anchor, op, queue, next)
    BY DEF VaultOf
<1> QED BY <1>2, <1>3 DEF sum

\* begin_allocating.
LEMMA BeginAllocatingSound ==
    ASSUME NEW s, IsVault(s), NEW amount \in Nat, amount <= s.idle_assets
    PROVE  /\ IsVault(BeginAllocating(s, amount))
           /\ BeginAllocating(s, amount).idle_assets = s.idle_assets - amount
           /\ BeginAllocating(s, amount).next_op_id = s.next_op_id + 1
           /\ BeginAllocating(s, amount).total_shares = s.total_shares
           /\ BeginAllocating(s, amount).withdraw_queue = s.withdraw_queue
           /\ BeginAllocating(s, amount).fee_anchor = s.fee_anchor
           /\ BeginAllocating(s, amount).external_assets = s.external_assets
<1> DEFINE op == [kind |-> "Allocating", op_id |-> s.next_op_id, remaining |-> amount]
           idle == s.idle_assets - amount
           next == s.next_op_id + 1
           b == [s EXCEPT !.op_state = op, !.idle_assets = idle, !.next_op_id = next]
<1>1. idle \in Nat /\ next \in Nat
    BY DEF IsVault
<1>2. BeginAllocating(s, amount) = SyncTotalAssets(b)
    <2>1. b = [s EXCEPT !.op_state = [kind |-> "Allocating", op_id |-> s.next_op_id,
                                      remaining |-> amount],
                        !.idle_assets = @ - amount, !.next_op_id = @ + 1]
        OBVIOUS
    <2> QED BY <2>1, Zenon DEF BeginAllocating
<1>3. /\ idle = s.idle_assets - amount /\ next = s.next_op_id + 1
      /\ b = [s EXCEPT !.op_state = op, !.idle_assets = idle, !.next_op_id = next]
    OBVIOUS
<1> HIDE DEF op, idle, next, b
<1>4. b = VaultOf(s.total_assets, s.total_shares, idle, s.external_assets, s.fee_anchor,
                  op, s.withdraw_queue, next)
    BY <1>3, Zenon DEF IsVault, VaultOf
<1>5. BeginAllocating(s, amount) =
        VaultOf(idle + s.external_assets, s.total_shares, idle, s.external_assets,
                s.fee_anchor, op, s.withdraw_queue, next)
    BY <1>2, <1>4, SyncOf
<1>6. IsVault(BeginAllocating(s, amount))
    BY <1>1, <1>5, VaultOfIsVault DEF IsVault
<1> QED BY <1>3, <1>5, <1>6 DEF VaultOf

\* A refresh starts with a new operation id and the same assets (start_refresh).
LEMMA BeginRefreshingSound ==
    ASSUME NEW s, IsVault(s)
    PROVE  /\ IsVault(BeginRefreshing(s))
           /\ BeginRefreshing(s).idle_assets = s.idle_assets
           /\ BeginRefreshing(s).next_op_id = s.next_op_id + 1
           /\ BeginRefreshing(s).total_shares = s.total_shares
           /\ BeginRefreshing(s).withdraw_queue = s.withdraw_queue
           /\ BeginRefreshing(s).fee_anchor = s.fee_anchor
           /\ BeginRefreshing(s).external_assets = s.external_assets
<1> DEFINE op == [kind |-> "Refreshing", op_id |-> s.next_op_id]
           next == s.next_op_id + 1
<1>1. BeginRefreshing(s) = [s EXCEPT !.op_state = op, !.next_op_id = next]
    BY DEF BeginRefreshing
<1>2. next \in Nat /\ next = s.next_op_id + 1
    BY DEF IsVault
<1> HIDE DEF op, next
<1>3. BeginRefreshing(s) =
        VaultOf(s.total_assets, s.total_shares, s.idle_assets, s.external_assets,
                s.fee_anchor, op, s.withdraw_queue, next)
    BY <1>1, Zenon DEF IsVault, VaultOf
<1>4. IsVault(BeginRefreshing(s))
    BY <1>2, <1>3, VaultOfIsVault DEF IsVault
<1> QED BY <1>2, <1>3, <1>4 DEF VaultOf

\* handle_sync_external_assets replaces what is in the markets and keeps the books.
LEMMA SyncExternalAssetsSound ==
    ASSUME NEW s, IsVault(s), NEW external \in Nat
    PROVE  /\ IsVault(SyncExternalAssets(s, external))
           /\ SyncExternalAssets(s, external).idle_assets = s.idle_assets
           /\ SyncExternalAssets(s, external).external_assets = external
           /\ SyncExternalAssets(s, external).next_op_id = s.next_op_id
           /\ SyncExternalAssets(s, external).total_shares = s.total_shares
           /\ SyncExternalAssets(s, external).withdraw_queue = s.withdraw_queue
           /\ SyncExternalAssets(s, external).fee_anchor = s.fee_anchor
<1>1. [s EXCEPT !.external_assets = external] =
        VaultOf(s.total_assets, s.total_shares, s.idle_assets, external, s.fee_anchor,
                s.op_state, s.withdraw_queue, s.next_op_id)
    BY DEF IsVault, VaultOf
<1>2. SyncExternalAssets(s, external) =
        VaultOf(s.idle_assets + external, s.total_shares, s.idle_assets, external,
                s.fee_anchor, s.op_state, s.withdraw_queue, s.next_op_id)
    BY <1>1, SyncOf DEF SyncExternalAssets
<1>3. IsVault(SyncExternalAssets(s, external))
    BY <1>2, VaultOfIsVault DEF IsVault
<1> QED BY <1>2, <1>3 DEF VaultOf

\* handle_rebalance_withdraw moves assets from the external to the idle side.
LEMMA RebalanceWithdrawSound ==
    ASSUME NEW s, IsVault(s), NEW amount \in Nat, amount <= s.external_assets
    PROVE  /\ IsVault(RebalanceWithdraw(s, amount))
           /\ RebalanceWithdraw(s, amount).idle_assets = s.idle_assets + amount
           /\ RebalanceWithdraw(s, amount).next_op_id = s.next_op_id
           /\ RebalanceWithdraw(s, amount).total_shares = s.total_shares
           /\ RebalanceWithdraw(s, amount).withdraw_queue = s.withdraw_queue
           /\ RebalanceWithdraw(s, amount).fee_anchor = s.fee_anchor
           /\ RebalanceWithdraw(s, amount).external_assets = s.external_assets - amount
<1> DEFINE idle == s.idle_assets + amount
           external == s.external_assets - amount
           b == [s EXCEPT !.external_assets = external, !.idle_assets = idle]
<1>1. /\ idle \in Nat /\ external \in Nat /\ idle = s.idle_assets + amount
      /\ external = s.external_assets - amount
    BY DEF IsVault
<1>2. RebalanceWithdraw(s, amount) = SyncTotalAssets(b)
    <2>1. b = [s EXCEPT !.external_assets = @ - amount, !.idle_assets = @ + amount]
        OBVIOUS
    <2> QED BY <2>1, Zenon DEF RebalanceWithdraw
<1>3. b = [s EXCEPT !.external_assets = external, !.idle_assets = idle]
    OBVIOUS
<1> HIDE DEF idle, external, b
<1>4. b = VaultOf(s.total_assets, s.total_shares, idle, external, s.fee_anchor,
                  s.op_state, s.withdraw_queue, s.next_op_id)
    BY <1>3, Zenon DEF IsVault, VaultOf
<1>5. RebalanceWithdraw(s, amount) =
        VaultOf(idle + external, s.total_shares, idle, external, s.fee_anchor,
                s.op_state, s.withdraw_queue, s.next_op_id)
    BY <1>2, <1>4, SyncOf
<1>6. IsVault(RebalanceWithdraw(s, amount))
    BY <1>1, <1>5, VaultOfIsVault DEF IsVault
<1> QED BY <1>1, <1>5, <1>6 DEF VaultOf

\* Finishing an operation returns to Idle and changes nothing else.
LEMMA FinishSound ==
    ASSUME NEW s, IsVault(s)
    PROVE  /\ IsVault(Finish(s))
           /\ Finish(s).op_state = Idle
           /\ Finish(s).idle_assets = s.idle_assets
           /\ Finish(s).next_op_id = s.next_op_id
           /\ Finish(s).total_shares = s.total_shares
           /\ Finish(s).withdraw_queue = s.withdraw_queue
           /\ Finish(s).fee_anchor = s.fee_anchor
           /\ Finish(s).external_assets = s.external_assets
<1>1. Finish(s) =
        VaultOf(s.total_assets, s.total_shares, s.idle_assets, s.external_assets,
                s.fee_anchor, Idle, s.withdraw_queue, s.next_op_id)
    BY DEF Finish, IsVault, VaultOf
<1>2. IsVault(Finish(s))
    BY <1>1, VaultOfIsVault DEF IsVault
<1> QED BY <1>1, <1>2 DEF VaultOf

\* From the head of the queue to the payout in one transaction.
LEMMA PayoutSound ==
    ASSUME NEW s, IsVault(s)
    PROVE  /\ IsVault(Payout(s))
           /\ Payout(s).idle_assets = s.idle_assets
           /\ Payout(s).next_op_id = s.next_op_id + 1
           /\ Payout(s).op_state.amount = HeadRequest(s.withdraw_queue).expected
           /\ Payout(s).op_state.burn = HeadRequest(s.withdraw_queue).escrow
           /\ Payout(s).total_shares = s.total_shares
           /\ Payout(s).withdraw_queue = s.withdraw_queue
           /\ Payout(s).fee_anchor = s.fee_anchor
           /\ Payout(s).external_assets = s.external_assets
           /\ Payout(s).op_state.request_id = s.withdraw_queue.next_withdraw_to_execute
<1> DEFINE next == s.next_op_id + 1
           withdrawing == [kind |-> "Withdrawing", op_id |-> s.next_op_id,
                           request_id |-> s.withdraw_queue.next_withdraw_to_execute,
                           remaining |-> HeadRequest(s.withdraw_queue).expected, collected |-> 0]
           amount == HeadRequest(s.withdraw_queue).expected
           burn == HeadRequest(s.withdraw_queue).escrow
           b == StartWithdrawal(s)
           payout == [kind |-> "Payout", op_id |-> b.op_state.op_id,
                      request_id |-> b.op_state.request_id, amount |-> amount, burn |-> burn]
<1>1. b = [s EXCEPT !.op_state = withdrawing, !.next_op_id = next]
    BY DEF StartWithdrawal
<1>2. Payout(s) = [b EXCEPT !.op_state = payout]
    BY DEF Payout, WithdrawalSettled
<1>3. /\ payout.amount = amount /\ payout.burn = burn
      /\ payout.request_id = s.withdraw_queue.next_withdraw_to_execute
    BY <1>1 DEF IsVault
<1>4. next \in Nat /\ next = s.next_op_id + 1
    BY DEF IsVault
<1> HIDE DEF next, withdrawing, b, payout
<1>5. b = VaultOf(s.total_assets, s.total_shares, s.idle_assets, s.external_assets,
                  s.fee_anchor, withdrawing, s.withdraw_queue, next)
    BY <1>1, Zenon DEF IsVault, VaultOf
<1>6. Payout(s) =
        VaultOf(s.total_assets, s.total_shares, s.idle_assets, s.external_assets,
                s.fee_anchor, payout, s.withdraw_queue, next)
    BY <1>2, <1>5 DEF VaultOf
<1>7. IsVault(Payout(s))
    BY <1>4, <1>6, VaultOfIsVault DEF IsVault
<1> QED BY <1>3, <1>4, <1>6, <1>7 DEF VaultOf

\* handle_settle_payout returns to Idle; a success takes the amount off the idle
\* assets, a failure nothing.
LEMMA SettlePayoutSound ==
    ASSUME NEW s, IsVault(s), NEW success \in BOOLEAN, CanSettlePayout(s, success),
           s.op_state.amount \in Nat, s.op_state.burn \in Nat
    PROVE  /\ IsVault(SettlePayout(s, success))
           /\ SettlePayout(s, success).op_state = Idle
           /\ SettlePayout(s, success).idle_assets =
                    IF success THEN s.idle_assets - s.op_state.amount ELSE s.idle_assets
           /\ SettlePayout(s, success).next_op_id = s.next_op_id
           /\ SettlePayout(s, success).total_shares =
                    IF success THEN s.total_shares - s.op_state.burn ELSE s.total_shares
           /\ SettlePayout(s, success).withdraw_queue =
                    Dequeue(s.withdraw_queue, {s.op_state.request_id})
           /\ SettlePayout(s, success).external_assets = s.external_assets
           /\ SettlePayout(s, success).fee_anchor = s.fee_anchor
<1> DEFINE queue == Dequeue(s.withdraw_queue, {s.op_state.request_id})
           settled == [s EXCEPT !.op_state = Idle,
                                !.withdraw_queue = Dequeue(@, {s.op_state.request_id})]
<1>1. settled = [s EXCEPT !.op_state = Idle, !.withdraw_queue = queue]
    OBVIOUS
<1>2. IsQueue(queue)
    BY DequeueIsQueue DEF IsVault
<1>6. queue = Dequeue(s.withdraw_queue, {s.op_state.request_id})
    OBVIOUS
<1> HIDE DEF queue, settled
<1>3. settled = VaultOf(s.total_assets, s.total_shares, s.idle_assets, s.external_assets,
                        s.fee_anchor, Idle, queue, s.next_op_id)
    BY <1>1, Zenon DEF IsVault, VaultOf
<1>4. CASE ~success
    <2>1. SettlePayout(s, success) = settled
        BY <1>4, Zenon DEF SettlePayout, settled
    <2>2. IsVault(settled)
        BY <1>2, <1>3, VaultOfIsVault DEF IsVault
    <2>3. /\ settled.op_state = Idle /\ settled.idle_assets = s.idle_assets
          /\ settled.next_op_id = s.next_op_id /\ settled.total_shares = s.total_shares
          /\ settled.withdraw_queue = queue /\ settled.external_assets = s.external_assets
          /\ settled.fee_anchor = s.fee_anchor
        BY <1>3 DEF VaultOf
    <2> QED BY <1>4, <1>6, <2>1, <2>2, <2>3, Zenon
<1>5. CASE success
    <2> DEFINE supply == s.total_shares - s.op_state.burn
               idle == s.idle_assets - s.op_state.amount
               b == [settled EXCEPT !.total_shares = @ - s.op_state.burn,
                                    !.idle_assets = @ - s.op_state.amount]
    <2>1. SettlePayout(s, success) = SyncTotalAssets(b)
        BY <1>5, Zenon DEF SettlePayout, settled
    <2>2. /\ supply \in Nat /\ idle \in Nat /\ idle = s.idle_assets - s.op_state.amount
          /\ supply = s.total_shares - s.op_state.burn
        BY <1>5 DEF CanSettlePayout, IsVault
    <2>3. b = [settled EXCEPT !.total_shares = settled.total_shares - s.op_state.burn,
                              !.idle_assets = settled.idle_assets - s.op_state.amount]
        OBVIOUS
    <2> HIDE DEF b
    <2>4. settled.total_shares = s.total_shares /\ settled.idle_assets = s.idle_assets
        BY <1>3 DEF VaultOf
    <2>5. b = [settled EXCEPT !.total_shares = supply, !.idle_assets = idle]
        BY <2>3, <2>4
    <2> HIDE DEF supply, idle
    <2>6. b = VaultOf(s.total_assets, supply, idle, s.external_assets, s.fee_anchor, Idle,
                      queue, s.next_op_id)
        BY <1>3, <2>5, Zenon DEF VaultOf
    <2>7. SettlePayout(s, success) =
            VaultOf(idle + s.external_assets, supply, idle, s.external_assets, s.fee_anchor,
                    Idle, queue, s.next_op_id)
        BY <2>1, <2>6, SyncOf
    <2>8. IsVault(SettlePayout(s, success))
        BY <1>2, <2>2, <2>7, VaultOfIsVault DEF IsVault
    <2>9. /\ SettlePayout(s, success).op_state = Idle
          /\ SettlePayout(s, success).idle_assets = s.idle_assets - s.op_state.amount
          /\ SettlePayout(s, success).next_op_id = s.next_op_id
          /\ SettlePayout(s, success).total_shares = s.total_shares - s.op_state.burn
          /\ SettlePayout(s, success).withdraw_queue = queue
          /\ SettlePayout(s, success).external_assets = s.external_assets
          /\ SettlePayout(s, success).fee_anchor = s.fee_anchor
        BY <2>2, <2>7 DEF VaultOf
    <2> QED BY <1>5, <1>6, <2>8, <2>9, Zenon
<1> QED BY <1>4, <1>5

-----------------------------------------------------------------------------
(* Transactions: one lemma per entry point that moves assets.              *)

\* What every transaction that settles fees starts from.
LEMMA SettledSound ==
    ASSUME VaultInv
    PROVE  /\ IsVault(FeesSettled) /\ IsVault(Reconciled)
           /\ FeesSettled.op_state = Idle /\ Reconciled.op_state = Idle
           /\ FeesSettled.idle_assets = vault.idle_assets
           /\ Reconciled.idle_assets = held
<1>1. /\ IsVault(FeesSettled) /\ FeesSettled.op_state = Idle
      /\ FeesSettled.idle_assets = vault.idle_assets
    BY CrystallizedSound DEF VaultInv, FeesSettled
<1> QED BY <1>1, ReconcileIdleSound DEF VaultInv, Reconciled

\* What every transaction that settles fees starts from: the same queue and the
\* same markets.
LEMMA SettledSame ==
    ASSUME VaultInv, NEW s, s \in {FeesSettled, Reconciled, Crystallized(Reconciled, fees, now)}
    PROVE  /\ IsVault(s) /\ s.total_shares \in Nat /\ s.total_shares >= vault.total_shares
           /\ s.external_assets = vault.external_assets
           /\ s.withdraw_queue = vault.withdraw_queue
<1>1. fees \in FeesSpec /\ now \in Nat /\ IsVault(vault)
    BY DEF VaultInv
<1>2. /\ IsVault(FeesSettled) /\ FeesSettled.total_shares >= vault.total_shares
      /\ FeesSettled.external_assets = vault.external_assets
      /\ FeesSettled.withdraw_queue = vault.withdraw_queue
    BY <1>1, CrystallizedSound DEF FeesSettled
<1>3. FeesSettled.idle_assets <= held /\ held \in Nat
    BY SettledSound DEF VaultInv
<1>4. /\ IsVault(Reconciled) /\ Reconciled.total_shares = FeesSettled.total_shares
      /\ Reconciled.external_assets = vault.external_assets
      /\ Reconciled.withdraw_queue = vault.withdraw_queue
    BY <1>2, <1>3, ReconcileIdleSound DEF Reconciled
<1> DEFINE c == Crystallized(Reconciled, fees, now)
<1>5. /\ IsVault(c) /\ c.total_shares >= Reconciled.total_shares
      /\ c.external_assets = vault.external_assets
      /\ c.withdraw_queue = vault.withdraw_queue
    BY <1>1, <1>4, CrystallizedSound
<1> HIDE DEF c
<1>6. /\ vault.total_shares \in Nat /\ FeesSettled.total_shares \in Nat
      /\ Reconciled.total_shares \in Nat /\ c.total_shares \in Nat
    BY <1>1, <1>2, <1>4, <1>5 DEF IsVault
<1>7. c.total_shares >= vault.total_shares
    BY <1>2, <1>4, <1>5, <1>6
<1>8. s \in {FeesSettled, Reconciled, c}
    BY DEF c
<1> QED BY <1>2, <1>4, <1>5, <1>6, <1>7, <1>8

\* A deposit keeps the invariant: the vault receives what the kernel adds
\* (deposit_with_min_impl).
LEMMA DepositAssetsKeeps ==
    ASSUME VaultInv, NEW o, NEW r, NEW assets \in Nat, DepositAssets(o, r, assets)
    PROVE  VaultInv'
<1> DEFINE s == Crystallized(Reconciled, fees, now)
           new_shares == ConvertToShares(s, assets)
<1>1. vault' = Deposit(s, assets, new_shares, now) /\ held' = held + assets
      /\ UNCHANGED <<now, fees, value>>
    BY DEF DepositAssets, markets, policy, clocks
<1>2. IsVault(s) /\ s.op_state = Idle /\ s.idle_assets = held
    BY SettledSound, CrystallizedSound DEF VaultInv
<1> HIDE DEF s
<1>3. new_shares \in Nat
    BY <1>2, SharesForAssets
<1> HIDE DEF new_shares
<1>4. now \in Nat /\ held \in Nat
    BY DEF VaultInv
<1>5. /\ IsVault(vault') /\ vault'.op_state = Idle
      /\ vault'.idle_assets = held + assets
    <2>1. /\ IsVault(Deposit(s, assets, new_shares, now))
          /\ Deposit(s, assets, new_shares, now).op_state = s.op_state
          /\ Deposit(s, assets, new_shares, now).idle_assets = s.idle_assets + assets
        <3>1. IsVault(s) BY <1>2
        <3>2. now \in Nat BY <1>4
        <3> QED BY ONLY <1>3, <3>1, <3>2, assets \in Nat, DepositSound
    <2> QED BY <1>1, <1>2, <2>1
<1> QED BY <1>1, <1>4, <1>5 DEF VaultInv

\* A request for a withdrawal keeps the invariant (request_withdraw_impl).
LEMMA RequestWithdrawalKeeps ==
    ASSUME VaultInv, NEW o, NEW r, NEW x \in Nat, RequestWithdrawal(o, r, x)
    PROVE  VaultInv'
<1> DEFINE s == FeesSettled
           expected == ConvertToRedeemAssets(s, x)
           request == [owner |-> o, receiver |-> r, escrow |-> x, expected |-> expected,
                       requested_at |-> now]
           queue == Enqueue(s.withdraw_queue, request)
<1>1. /\ vault' = [s EXCEPT !.withdraw_queue = queue]
      /\ UNCHANGED <<held, now, fees, value>>
    BY DEF RequestWithdrawal, RequestWithdraw, markets, policy, clocks
<1>2. IsVault(s) /\ s.op_state = Idle /\ s.idle_assets = vault.idle_assets
    BY SettledSound
<1> HIDE DEF s
<1>3. expected \in Nat
    BY <1>2, AssetsForShares
<1>4. request.expected \in Nat /\ request.escrow \in Nat
    BY <1>3
<1> HIDE DEF request
<1>5. IsQueue(queue)
    BY <1>2, <1>4, EnqueueIsQueue DEF IsVault
<1> HIDE DEF queue
<1>6. IsVault(vault') /\ vault'.op_state = Idle /\ vault'.idle_assets = vault.idle_assets
    BY <1>1, <1>2, <1>5, RequeuedSound
<1> QED BY <1>1, <1>6 DEF VaultInv

\* An atomic withdrawal or redemption keeps the invariant: the vault pays at most
\* what the kernel takes off (atomic_withdraw_impl, atomic_redeem_impl).
LEMMA AtomicExitKeeps ==
    ASSUME VaultInv, NEW o, NEW r, NEW assets \in Nat, NEW burned \in Nat,
           AtomicExit(FeesSettled, o, r, assets, burned)
    PROVE  VaultInv'
<1>1. /\ vault' = AtomicWithdraw(FeesSettled, assets, burned)
      /\ held' = held \/ held' = held - assets
      /\ UNCHANGED <<now, fees, value>>
      /\ assets <= FeesSettled.idle_assets /\ burned <= FeesSettled.total_shares
    BY DEF AtomicExit, CanAtomicWithdraw, markets, policy, clocks
<1>2. /\ IsVault(FeesSettled) /\ FeesSettled.op_state = Idle
      /\ FeesSettled.idle_assets = vault.idle_assets
    BY SettledSound
<1>3. /\ IsVault(vault') /\ vault'.op_state = Idle
      /\ vault'.idle_assets = vault.idle_assets - assets
    BY <1>1, <1>2, AtomicWithdrawSound
<1>4. held' \in Nat /\ vault'.idle_assets <= held'
    BY <1>1, <1>2, <1>3 DEF VaultInv, IsVault
<1> QED BY <1>1, <1>3, <1>4 DEF VaultInv

\* The state once the requests to skip are dropped.
LEMMA SkippedSound ==
    ASSUME VaultInv, NEW ids
    PROVE  LET s == [vault EXCEPT !.withdraw_queue = Dequeue(@, ids)]
           IN  /\ IsVault(s) /\ s.op_state = Idle /\ s.idle_assets = vault.idle_assets
               /\ s.total_assets = vault.total_assets /\ s.total_shares = vault.total_shares
               /\ s.next_op_id = vault.next_op_id
<1> DEFINE queue == Dequeue(vault.withdraw_queue, ids)
<1>1. IsQueue(queue) /\ IsVault(vault) /\ vault.op_state = Idle
    BY DequeueIsQueue DEF VaultInv, IsVault
<1>2. [vault EXCEPT !.withdraw_queue = Dequeue(@, ids)] = [vault EXCEPT !.withdraw_queue = queue]
    OBVIOUS
<1> HIDE DEF queue
<1> QED BY <1>1, <1>2, RequeuedSound

\* Paying the head of the queue keeps the invariant, whether or not the transfer
\* succeeds (complete_withdrawal_from_idle).
LEMMA SettleWithdrawalKeeps ==
    ASSUME VaultInv, NEW s, IsVault(s), s.idle_assets = vault.idle_assets,
           HasHead(s.withdraw_queue), NEW sh, SettleWithdrawal(s, sh),
           UNCHANGED <<now, fees, value>>
    PROVE  VaultInv' /\ vault'.next_op_id = s.next_op_id + 1
<1> DEFINE h == HeadRequest(s.withdraw_queue)
           ok == h.receiver \notin BadReceivers
<1>1. /\ CanSettlePayout(Payout(s), ok)
      /\ vault' = SettlePayout(Payout(s), ok)
      /\ held' = IF ~ok \/ h.receiver = SELF THEN held ELSE held - h.expected
    BY Zenon DEF SettleWithdrawal
<1>2. h.expected \in Nat /\ h.escrow \in Nat
    BY DEF HasHead, HeadRequest, IsVault, IsQueue
<1>3. /\ IsVault(Payout(s)) /\ Payout(s).idle_assets = s.idle_assets
      /\ Payout(s).next_op_id = s.next_op_id + 1
      /\ Payout(s).op_state.amount = h.expected /\ Payout(s).op_state.burn = h.escrow
    BY PayoutSound
<1>4. ok \in BOOLEAN
    OBVIOUS
<1>5. ok => h.expected <= s.idle_assets
    BY <1>1, <1>3 DEF CanSettlePayout
<1> HIDE DEF h, ok
<1>6. /\ IsVault(vault') /\ vault'.op_state = Idle
      /\ vault'.idle_assets = IF ok THEN Payout(s).idle_assets - Payout(s).op_state.amount
                              ELSE Payout(s).idle_assets
      /\ vault'.next_op_id = Payout(s).next_op_id
    <2>1. Payout(s).op_state.amount \in Nat /\ Payout(s).op_state.burn \in Nat
        BY <1>2, <1>3
    <2> QED BY <1>1, <1>3, <1>4, <2>1, SettlePayoutSound, Zenon
<1>7. held' \in Nat /\ vault'.idle_assets <= held'
    <2>1. CASE ok
        <3>1. vault'.idle_assets = s.idle_assets - h.expected
            BY <1>3, <1>6, <2>1
        <3>2. held' = held \/ held' = held - h.expected
            BY <1>1, <2>1
        <3> QED BY <1>2, <1>5, <2>1, <3>1, <3>2 DEF VaultInv, IsVault
    <2>2. CASE ~ok
        <3>1. vault'.idle_assets = s.idle_assets /\ held' = held
            BY <1>1, <1>3, <1>6, <2>2
        <3> QED BY <3>1 DEF VaultInv
    <2> QED BY <2>1, <2>2
<1> QED BY <1>3, <1>6, <1>7 DEF VaultInv

\* execute_withdraw keeps the invariant, skipped requests included.
LEMMA ExecuteWithdrawKeeps ==
    ASSUME VaultInv, ExecuteWithdraw
    PROVE  VaultInv'
<1> DEFINE ids == Skipped(vault.withdraw_queue, restrictions)
           s == [vault EXCEPT !.withdraw_queue = Dequeue(@, ids)]
<1>1. /\ \/ IsReady(s, now) /\ SettleWithdrawal(s, Refund(ids))
         \/ vault' = s /\ held' = held
      /\ UNCHANGED <<now, fees, value>>
    BY Zenon DEF ExecuteWithdraw, markets, policy, clocks
<1>2. IsVault(s) /\ s.op_state = Idle /\ s.idle_assets = vault.idle_assets
    BY SkippedSound
<1> HIDE DEF s, ids
<1>3. CASE IsReady(s, now) /\ SettleWithdrawal(s, Refund(ids))
    BY <1>1, <1>2, <1>3, SettleWithdrawalKeeps DEF IsReady
<1>4. CASE vault' = s /\ held' = held
    BY <1>1, <1>2, <1>4 DEF VaultInv
<1> QED BY <1>1, <1>3, <1>4

\* Supplying a market keeps the invariant: tokens leave with the idle assets
\* (execute_supply_allocation, complete_supply_allocation).
LEMMA AllocateSupplyKeeps ==
    ASSUME VaultInv, NEW m \in Markets, NEW amount \in Nat, NEW received \in Nat,
           AllocateSupply(m, amount, received)
    PROVE  VaultInv' /\ vault'.next_op_id = vault.next_op_id + 1
<1> DEFINE b == BeginAllocating(vault, amount)
           external == Sum(principal')
           e == SyncExternalAssets(b, external)
<1>1. /\ vault' = Finish(e) /\ held' = held - amount /\ held >= amount
      /\ UNCHANGED <<now, fees>>
      /\ value' = [value EXCEPT ![m] = @ + received]
    BY DEF AllocateSupply, policy, clocks
<1>2. amount <= vault.idle_assets /\ external \in Nat
    BY KernelAssumption DEF AllocateSupply, CanBeginAllocating, CanSyncExternalAssets
<1> HIDE DEF external
<1>3. IsVault(vault) /\ held \in Nat /\ vault.idle_assets <= held
    BY DEF VaultInv
<1>4. IsVault(b) /\ b.idle_assets = vault.idle_assets - amount
      /\ b.next_op_id = vault.next_op_id + 1
    BY <1>2, <1>3, BeginAllocatingSound
<1> HIDE DEF b
<1>5. IsVault(e) /\ e.idle_assets = b.idle_assets /\ e.next_op_id = b.next_op_id
    BY <1>2, <1>4, SyncExternalAssetsSound
<1> HIDE DEF e
<1>6. /\ IsVault(vault') /\ vault'.op_state = Idle
      /\ vault'.idle_assets = e.idle_assets /\ vault'.next_op_id = e.next_op_id
    BY <1>1, <1>5, FinishSound
<1>7. held' \in Nat /\ vault'.idle_assets <= held'
    BY <1>1, <1>2, <1>3, <1>4, <1>5, <1>6 DEF IsVault
<1>8. value' \in [Markets -> Nat]
    BY <1>1 DEF VaultInv
<1> QED BY <1>1, <1>4, <1>5, <1>6, <1>7, <1>8 DEF VaultInv

\* Withdrawing from a market keeps the invariant (complete_withdraw_allocation).
LEMMA AllocateWithdrawKeeps ==
    ASSUME VaultInv, NEW m \in Markets, NEW realized \in Nat, realized <= value[m],
           AllocateWithdraw(m, realized)
    PROVE  VaultInv' /\ vault'.next_op_id = vault.next_op_id + 1
<1> DEFINE b == BeginAllocating(vault, 0)
           external == Sum(principal') + realized
           e == SyncExternalAssets(b, external)
           w == RebalanceWithdraw(e, realized)
<1>1. /\ vault' = Finish(w) /\ held' = held + realized
      /\ UNCHANGED <<now, fees>>
      /\ value' = [value EXCEPT ![m] = @ - realized]
      /\ realized <= e.external_assets
    BY DEF AllocateWithdraw, CanRebalanceWithdraw, policy, clocks
<1>2. external \in Nat
    BY KernelAssumption DEF AllocateWithdraw, CanSyncExternalAssets
<1> HIDE DEF external
<1>3. IsVault(vault) /\ held \in Nat /\ vault.idle_assets <= held /\ 0 <= vault.idle_assets
    BY DEF VaultInv, IsVault
<1>4. IsVault(b) /\ b.idle_assets = vault.idle_assets - 0
      /\ b.next_op_id = vault.next_op_id + 1
    BY <1>3, BeginAllocatingSound
<1> HIDE DEF b
<1>5. IsVault(e) /\ e.idle_assets = b.idle_assets /\ e.next_op_id = b.next_op_id
    BY <1>2, <1>4, SyncExternalAssetsSound
<1> HIDE DEF e
<1>6. IsVault(w) /\ w.idle_assets = e.idle_assets + realized /\ w.next_op_id = e.next_op_id
    BY <1>1, <1>5, RebalanceWithdrawSound
<1> HIDE DEF w
<1>7. /\ IsVault(vault') /\ vault'.op_state = Idle
      /\ vault'.idle_assets = w.idle_assets /\ vault'.next_op_id = w.next_op_id
    BY <1>1, <1>6, FinishSound
<1>8. held' \in Nat /\ vault'.idle_assets <= held'
    BY <1>1, <1>3, <1>4, <1>5, <1>6, <1>7 DEF IsVault
<1>9. value' \in [Markets -> Nat]
    BY <1>1 DEF VaultInv
<1> QED BY <1>1, <1>4, <1>5, <1>6, <1>7, <1>8, <1>9 DEF VaultInv

\* Observing markets anew keeps the invariant (complete_refresh_with_positions).
LEMMA RefreshMarketsKeeps ==
    ASSUME VaultInv, NEW ms, RefreshMarkets(ms)
    PROVE  VaultInv' /\ vault'.next_op_id = vault.next_op_id + 1
<1> DEFINE b == BeginRefreshing(vault)
           external == Sum(principal')
           e == SyncExternalAssets(b, external)
<1>1. vault' = Finish(e) /\ UNCHANGED <<held, now, fees, value>>
    BY DEF RefreshMarkets, tokens, policy
<1>2. external \in Nat
    BY KernelAssumption DEF RefreshMarkets, CanSyncExternalAssets
<1> HIDE DEF external
<1>3. IsVault(b) /\ b.idle_assets = vault.idle_assets
      /\ b.next_op_id = vault.next_op_id + 1
    BY BeginRefreshingSound DEF VaultInv
<1> HIDE DEF b
<1>4. IsVault(e) /\ e.idle_assets = b.idle_assets /\ e.next_op_id = b.next_op_id
    BY <1>2, <1>3, SyncExternalAssetsSound
<1> HIDE DEF e
<1>5. /\ IsVault(vault') /\ vault'.op_state = Idle
      /\ vault'.idle_assets = e.idle_assets /\ vault'.next_op_id = e.next_op_id
    BY <1>1, <1>4, FinishSound
<1> QED BY <1>1, <1>3, <1>4, <1>5 DEF VaultInv

\* The two ways refresh_fees goes: fees and a changed balance together, or the
\* kernel's own refresh.
LEMMA RefreshVaultFeesKeeps ==
    ASSUME VaultInv, RefreshVaultFees
    PROVE  VaultInv'
<1>1. /\ UNCHANGED <<held, now, fees, value>>
      /\ \/ vault' = Reconciled
         \/ /\ ~FeesAreDue(vault, fees, now) /\ CanRefreshFees(vault, fees, now)
            /\ vault' = RefreshFees(vault, fees, now)
    BY DEF RefreshVaultFees, Reconciled, markets, policy, clocks
<1>2. CASE vault' = Reconciled
    <2>1. IsVault(vault') /\ vault'.op_state = Idle /\ vault'.idle_assets = held
        BY <1>2, SettledSound
    <2> QED BY <1>1, <2>1 DEF VaultInv
<1>3. CASE CanRefreshFees(vault, fees, now) /\ vault' = RefreshFees(vault, fees, now)
    <2>1. IsVault(vault) /\ fees \in FeesSpec /\ now \in Nat /\ vault.op_state = Idle
        BY DEF VaultInv
    <2>2. now >= vault.fee_anchor.timestamp
        BY <1>3, <2>1 DEF CanRefreshFees, IsVault
    <2>3. IsVault(vault') /\ vault'.op_state = Idle /\ vault'.idle_assets = vault.idle_assets
        BY <1>3, <2>1, <2>2, RefreshFeesSound
    <2> QED BY <1>1, <2>3 DEF VaultInv
<1> QED BY <1>1, <1>2, <1>3

\* New fees keep the invariant and the totals the old ones left
\* (apply_fees_policy).
LEMMA SetFeesKeeps ==
    ASSUME VaultInv, NEW spec \in FeeSpecs, SetFees(spec)
    PROVE  /\ VaultInv'
           /\ vault'.total_assets = FeesSettled.total_assets
           /\ vault'.total_shares = FeesSettled.total_shares
<1> DEFINE s == FeesSettled
           anchor == [total_assets |-> s.total_assets, timestamp |-> now]
<1>1. /\ vault' = [s EXCEPT !.fee_anchor = anchor] \/ vault' = s
      /\ UNCHANGED <<held, now, value>> /\ fees' = spec
    BY DEF SetFees, markets, clocks
<1>2. IsVault(s) /\ s.op_state = Idle /\ s.idle_assets = vault.idle_assets
    BY SettledSound
<1>3. anchor \in [total_assets : Nat, timestamp : Nat]
    BY <1>2 DEF IsVault, VaultInv
<1>4. spec \in FeesSpec
    BY SorobanAssumption
<1> HIDE DEF s, anchor
<1>5. CASE vault' = s
    BY <1>1, <1>2, <1>4, <1>5 DEF VaultInv, s
<1>6. CASE vault' = [s EXCEPT !.fee_anchor = anchor]
    <2>1. vault' = VaultOf(s.total_assets, s.total_shares, s.idle_assets, s.external_assets,
                           anchor, s.op_state, s.withdraw_queue, s.next_op_id)
        BY <1>2, <1>6 DEF IsVault, VaultOf
    <2>2. IsVault(vault')
        BY <1>2, <1>3, <2>1, VaultOfIsVault DEF IsVault
    <2>3. /\ vault'.op_state = Idle /\ vault'.idle_assets = vault.idle_assets
          /\ vault'.total_assets = s.total_assets /\ vault'.total_shares = s.total_shares
        BY <1>2, <2>1 DEF VaultOf
    <2> QED BY <1>1, <1>4, <2>2, <2>3 DEF VaultInv, s
<1> QED BY <1>1, <1>5, <1>6

-----------------------------------------------------------------------------
(* The invariant.                                                          *)

\* A new vault satisfies the invariant (VaultState::new).
LEMMA InitEstablishes == Init => VaultInv
<1> SUFFICES ASSUME Init PROVE VaultInv
    OBVIOUS
<1>1. vault = VaultOf(0, 0, 0, 0, [total_assets |-> 0, timestamp |-> 0], Idle, EmptyQueue, 0)
    BY DEF Init, NewVaultState, VaultOf
<1>2. IsVault(vault)
    BY <1>1, EmptyQueueIsQueue, VaultOfIsVault
<1>3. vault.op_state = Idle /\ vault.idle_assets = 0
    BY <1>1 DEF VaultOf
<1> QED BY <1>2, <1>3, SorobanAssumption DEF Init, VaultInv

\* Steps of the environment and of governance that do not touch the kernel state.
LEMMA EnvironmentKeeps ==
    ASSUME VaultInv, vault' = vault, held' \in Nat, held' >= held, now' \in Nat,
           fees' = fees, value' \in [Markets -> Nat]
    PROVE  VaultInv'
BY DEF VaultInv, IsVault

\* Every transaction and every step of the environment keeps the invariant.
LEMMA NextKeeps == VaultInv /\ [Next]_vars => VaultInv'
<1> SUFFICES ASSUME VaultInv, [Next]_vars PROVE VaultInv'
    OBVIOUS
<1> USE SorobanAssumption
<1>0. /\ held \in Nat /\ now \in Nat /\ value \in [Markets -> Nat]
      /\ \A x \in Amounts : x \in Nat /\ x - 1 \in Nat
    BY DEF VaultInv
<1>1. CASE \E o \in Users, r \in Receivers, x \in Amounts : DepositAssets(o, r, x)
    BY <1>0, <1>1, DepositAssetsKeeps
<1>2. CASE \E o \in Holders, r \in Receivers, x \in Amounts : RequestWithdrawal(o, r, x)
    BY <1>0, <1>2, RequestWithdrawalKeeps
<1>3. CASE \E o \in Holders, r \in Receivers, x \in Amounts : AtomicWithdrawAssets(o, r, x)
    <2>1. PICK o \in Holders, r \in Receivers, x \in Amounts : AtomicWithdrawAssets(o, r, x)
        BY <1>3
    <2>2. AtomicExit(FeesSettled, o, r, x, ConvertToWithdrawShares(FeesSettled, x))
        BY <2>1 DEF AtomicWithdrawAssets
    <2>3. ConvertToWithdrawShares(FeesSettled, x) \in Nat
        BY <1>0, SettledSound, SharesForWithdrawal
    <2> QED BY <1>0, <2>2, <2>3, AtomicExitKeeps
<1>4. CASE \E o \in Holders, r \in Receivers, x \in Amounts : AtomicRedeemShares(o, r, x)
    <2>1. PICK o \in Holders, r \in Receivers, x \in Amounts : AtomicRedeemShares(o, r, x)
        BY <1>4
    <2>2. AtomicExit(FeesSettled, o, r, ConvertToRedeemAssets(FeesSettled, x), x)
        BY <2>1 DEF AtomicRedeemShares
    <2>3. ConvertToRedeemAssets(FeesSettled, x) \in Nat
        BY <1>0, SettledSound, AssetsForShares
    <2> QED BY <1>0, <2>2, <2>3, AtomicExitKeeps
<1>5. CASE ExecuteWithdraw
    BY <1>5, ExecuteWithdrawKeeps
<1>6. CASE \E m \in Markets, x \in Amounts : \E got \in {x, x - 1} : AllocateSupply(m, x, got)
    BY <1>0, <1>6, AllocateSupplyKeeps
<1>7. CASE \E m \in Markets, x \in Amounts : \E got \in 0..Least(x, value[m]) :
                AllocateWithdraw(m, got)
    <2>1. PICK m \in Markets, x \in Amounts : \E got \in 0..Least(x, value[m]) :
                AllocateWithdraw(m, got)
        BY <1>7
    <2>2. PICK got \in 0..Least(x, value[m]) : AllocateWithdraw(m, got)
        BY <2>1
    <2>3. value[m] \in Nat /\ x \in Nat
        BY <1>0
    <2>4. got \in Nat /\ got <= value[m]
        BY <2>2, <2>3 DEF Least
    <2> QED BY <2>2, <2>4, AllocateWithdrawKeeps
<1>8. CASE \E ms \in SUBSET Markets : RefreshMarkets(ms)
    BY <1>8, RefreshMarketsKeeps
<1>9. CASE RefreshVaultFees
    BY <1>9, RefreshVaultFeesKeeps
<1>10. CASE ResyncIdleBalance
    <2>1. vault' = Reconciled /\ UNCHANGED <<held, now, fees, value>>
        BY <1>10 DEF ResyncIdleBalance, markets, policy
    <2>2. IsVault(vault') /\ vault'.op_state = Idle /\ vault'.idle_assets = held
        BY <2>1, SettledSound
    <2> QED BY <2>1, <2>2 DEF VaultInv
<1>11. CASE \E f \in FeeSpecs : SetFees(f)
    BY <1>11, SetFeesKeeps
<1>12. CASE \/ \E flag \in BOOLEAN : SetPaused(flag)
            \/ \E r \in RestrictionSpecs : SetRestrictions(r)
            \/ \E flag \in TokenPauses : SetTokenPaused(flag)
            \/ \E r \in TokenRestrictionSpecs : SetTokenRestrictions(r)
            \/ \E a \in Holders, b \in Receivers, x \in Amounts : TransferShares(a, b, x)
            \/ UNCHANGED vars
    <2>1. UNCHANGED <<vault, held, value, now, fees>>
        BY <1>12 DEF SetPaused, SetRestrictions, SetTokenPaused, SetTokenRestrictions,
                     TransferShares, vars, tokens, markets, policy, clocks
    <2> QED BY <1>0, <2>1, EnvironmentKeeps
<1>13. CASE \E x \in Amounts : Donate(x)
    BY <1>0, <1>13, EnvironmentKeeps DEF Donate, markets, policy, clocks
<1>14. CASE \E m \in Markets : Gain(m) \/ Loss(m)
    BY <1>0, <1>14, EnvironmentKeeps DEF Gain, Loss, tokens, policy, clocks
<1>15. CASE Tick
    BY <1>0, <1>15, EnvironmentKeeps DEF Tick, tokens, markets, policy
<1> QED BY <1>1, <1>2, <1>3, <1>4, <1>5, <1>6, <1>7, <1>8, <1>9, <1>10, <1>11, <1>12,
           <1>13, <1>14, <1>15 DEF Next

\* In every reachable state of the executor the kernel state is well formed, no
\* operation is in progress and the idle assets are held.
THEOREM VaultInvariant == Spec => []VaultInv
BY InitEstablishes, NextKeeps, PTL DEF Spec

\* The books balance between transactions, for any users, markets, fees, amounts
\* and bounds.
THEOREM BooksAlwaysBalance == Spec => []BooksBalance
<1>1. VaultInv => BooksBalance
    BY DEF VaultInv, IsVault, BooksBalance
<1> QED BY <1>1, VaultInvariant, PTL

\* A payout that the kernel admits never fails for want of tokens.
THEOREM IdleAlwaysBacked == Spec => []IdleBacked
<1>1. VaultInv => IdleBacked
    BY DEF VaultInv, IdleBacked
<1> QED BY <1>1, VaultInvariant, PTL
=============================================================================
