------------------------ MODULE SorobanPriceProofs -------------------------
(***************************************************************************)
(* What the shares of the Soroban vault are worth: for any users, markets, *)
(* fees, offsets and bounds, nobody's entry or exit makes the shares of    *)
(* the others worth less, and a performance fee is only taken of a gain of *)
(* the markets.                                                            *)
(***************************************************************************)
EXTENDS SorobanLedgerProofs

\* Leaves that name no prover go to SMT, with half a minute each, then to Zenon.
USE SMTT(30), Zenon

-----------------------------------------------------------------------------
(* The price of a share.  It is a fraction of effective totals, so prices  *)
(* are compared by cross-multiplication; the argument rests on the         *)
(* direction each conversion rounds in, and on fees being settled once per *)
(* instant.                                                                *)

\* Once crystallized, fees are not due again in the same instant.
LEMMA NotDueOnceSettled ==
    ASSUME NEW s, IsVault(s), NEW f \in FeesSpec, NEW t \in Nat
    PROVE  ~FeesAreDue(Crystallized(s, f, t), f, t)
<1>1. CASE FeesAreDue(s, f, t)
    <2> DEFINE n == RefreshFees(s, f, t)
    <2>1. Crystallized(s, f, t) = n
        BY <1>1 DEF Crystallized
    <2>2. t >= s.fee_anchor.timestamp
        BY <1>1 DEF FeesAreDue, IsVault
    <2>3. n.total_assets = s.total_assets
        BY <2>2, RefreshFeesSound
    <2>4. n.fee_anchor = [total_assets |-> s.total_assets, timestamp |-> t]
        BY DEF RefreshFees, IsVault
    <2>5. s.total_assets \in Nat
        BY DEF IsVault
    <2> HIDE DEF n
    <2> QED BY <2>1, <2>3, <2>4, <2>5 DEF FeesAreDue, PerformanceFeeIsDue
<1>2. CASE ~FeesAreDue(s, f, t)
    BY <1>2 DEF Crystallized
<1> QED BY <1>1, <1>2

\* Tokens that came in without a deposit make no fees due.
LEMMA NotDueOnceReconciled ==
    ASSUME VaultInv
    PROVE  Crystallized(Reconciled, fees, now) = Reconciled
<1> DEFINE s == FeesSettled
           n == ReconcileIdle(s, held)
<1>1. ~FeesAreDue(s, fees, now)
    BY NotDueOnceSettled DEF VaultInv, FeesSettled
<1>2. IsVault(s) /\ s.idle_assets <= held /\ held \in Nat
    BY SettledSound DEF VaultInv
<1> HIDE DEF s
<1>3. /\ IsVault(n) /\ n.total_shares = s.total_shares
      /\ n.fee_anchor.timestamp = s.fee_anchor.timestamp
      /\ n.total_assets - n.fee_anchor.total_assets = s.total_assets - s.fee_anchor.total_assets
    BY <1>2, ReconcileIdleSound
<1>4. n = Reconciled
    BY DEF Reconciled, s
<1> HIDE DEF n
<1>5. /\ n.total_assets \in Nat /\ n.fee_anchor.total_assets \in Nat
      /\ s.total_assets \in Nat /\ s.fee_anchor.total_assets \in Nat
    BY <1>2, <1>3 DEF IsVault
<1>6. n.total_assets > n.fee_anchor.total_assets => s.total_assets > s.fee_anchor.total_assets
    BY <1>3, <1>5
<1>7. ~FeesAreDue(n, fees, now)
    BY <1>1, <1>3, <1>6 DEF FeesAreDue, PerformanceFeeIsDue
<1> QED BY <1>4, <1>7 DEF Crystallized

\* Products of naturals grow with their factors.
LEMMA Monotone ==
    ASSUME NEW a \in Nat, NEW b \in Nat, NEW x \in Nat, NEW y \in Nat, a <= b, x <= y
    PROVE  a * x <= b * y
<1>1. a * x <= b * x
    BY SMTT(30)
<1>2. b * x <= b * y
    BY SMTT(30)
<1>3. a * x \in Nat /\ b * x \in Nat /\ b * y \in Nat
    BY ProductNat
<1> QED BY <1>1, <1>2, <1>3

\* More assets and no more shares: the price does not fall.
LEMMA PriceOfMore ==
    ASSUME NEW s, NEW n, IsVault(s), IsVault(n),
           n.total_assets >= s.total_assets, n.total_shares <= s.total_shares
    PROVE  PriceAtLeast(n, s)
<1> DEFINE A == EffectiveAssets(s)
           S == EffectiveSupply(s)
           B == EffectiveAssets(n)
           T == EffectiveSupply(n)
<1>1. A \in Nat /\ S \in Nat /\ B \in Nat /\ T \in Nat
    BY EffectivePositive
<1>2. A <= B /\ T <= S
    BY KernelAssumption DEF IsVault, EffectiveAssets, EffectiveSupply, AtLeast1
<1> HIDE DEF A, S, B, T
<1>3. A * T <= B * S
    BY <1>1, <1>2, Monotone
<1>4. A * T \in Nat /\ B * S \in Nat
    BY <1>1, ProductNat
<1> QED BY <1>3, <1>4 DEF PriceAtLeast, A, S, B, T

\* A deposit whose shares are rounded down does not lower the price.
LEMMA PriceOfEntry ==
    ASSUME NEW A \in Nat, NEW S \in Nat, NEW assets \in Nat, NEW minted \in Nat,
           A * minted <= assets * S
    PROVE  (A + assets) * S >= A * (S + minted)
<1>1. A * S \in Nat /\ A * minted \in Nat /\ assets * S \in Nat
    BY ProductNat
<1>2. (A + assets) * S = A * S + assets * S
    BY SMTT(30)
<1>3. A * (S + minted) = A * S + A * minted
    BY SMTT(30)
<1> QED BY <1>1, <1>2, <1>3

\* An exit whose burned shares cover the assets does not lower the price.
LEMMA PriceOfExit ==
    ASSUME NEW A \in Nat, NEW S \in Nat, NEW assets \in Nat, NEW burned \in Nat,
           assets * S <= A * burned
    PROVE  (A - assets) * S >= A * (S - burned)
<1>1. A * S \in Nat /\ A * burned \in Nat /\ assets * S \in Nat
    BY ProductNat
<1>2. (A - assets) * S = A * S - assets * S
    BY SMTT(30)
<1>3. A * (S - burned) = A * S - A * burned
    BY SMTT(30)
<1> QED BY <1>1, <1>2, <1>3

\* A deposit, with the balance it reconciles first, does not lower the price.
LEMMA DepositAssetsPrice ==
    ASSUME VaultInv, NEW o, NEW r, NEW assets \in Nat, DepositAssets(o, r, assets)
    PROVE  PriceAtLeast(vault', FeesSettled)
<1> DEFINE s == Reconciled
           f == FeesSettled
           new_shares == ConvertToShares(s, assets)
           A == EffectiveAssets(s)
           S == EffectiveSupply(s)
<1>1. vault' = Deposit(s, assets, new_shares, now)
    BY NotDueOnceReconciled DEF DepositAssets
<1>2. IsVault(s) /\ IsVault(f) /\ now \in Nat
    BY SettledSound DEF VaultInv
<1>3. s.total_assets >= f.total_assets /\ s.total_shares = f.total_shares
    BY SettledSound, ReconcileIdleSound DEF Reconciled, VaultInv
<1>4. A \in Nat /\ S \in Nat /\ EffectiveAssets(f) \in Nat /\ EffectiveSupply(f) \in Nat
    BY <1>2, EffectivePositive
<1>5. EffectiveAssets(f) <= A /\ EffectiveSupply(f) = S
    BY <1>2, <1>3, KernelAssumption DEF IsVault, EffectiveAssets, EffectiveSupply, AtLeast1
<1>6. new_shares \in Nat /\ A * new_shares <= assets * S
    BY <1>2, SharesForAssets
<1> HIDE DEF s, f, new_shares
<1>7. /\ vault'.total_assets = s.total_assets + assets
      /\ vault'.total_shares = s.total_shares + new_shares
    <2>1. IsVault(s) /\ now \in Nat BY <1>2
    <2>2. /\ Deposit(s, assets, new_shares, now).total_assets = s.total_assets + assets
          /\ Deposit(s, assets, new_shares, now).total_shares = s.total_shares + new_shares
        BY ONLY <1>6, <2>1, assets \in Nat, DepositSound
    <2> QED BY <1>1, <2>2
<1>8. EffectiveAssets(vault') = A + assets /\ EffectiveSupply(vault') = S + new_shares
    BY <1>2, <1>6, <1>7, KernelAssumption DEF IsVault, EffectiveAssets, EffectiveSupply, AtLeast1
<1> HIDE DEF A, S
<1>9. (A + assets) * S >= A * (S + new_shares)
    BY <1>4, <1>6, PriceOfEntry
<1>10. EffectiveAssets(f) * (S + new_shares) <= A * (S + new_shares)
    BY <1>4, <1>5, <1>6, Monotone
<1>11. /\ (A + assets) * S \in Nat /\ A * (S + new_shares) \in Nat
       /\ EffectiveAssets(f) * (S + new_shares) \in Nat
    BY <1>4, <1>6, ProductNat
<1>12. (A + assets) * S >= EffectiveAssets(f) * (S + new_shares)
    BY <1>9, <1>10, <1>11
<1> QED BY <1>5, <1>8, <1>12 DEF PriceAtLeast, f

\* An atomic exit whose burned shares cover the assets does not lower the price.
LEMMA AtomicExitPrice ==
    ASSUME VaultInv, NEW o, NEW r, NEW assets \in Nat, NEW burned \in Nat,
           AtomicExit(FeesSettled, o, r, assets, burned),
           assets * EffectiveSupply(FeesSettled) <= EffectiveAssets(FeesSettled) * burned
    PROVE  PriceAtLeast(vault', FeesSettled)
<1> DEFINE s == FeesSettled
           A == EffectiveAssets(s)
           S == EffectiveSupply(s)
<1>1. /\ vault' = AtomicWithdraw(s, assets, burned)
      /\ assets <= s.idle_assets /\ burned <= s.total_shares
    BY DEF AtomicExit, CanAtomicWithdraw
<1>2. IsVault(s)
    BY SettledSound
<1>3. A \in Nat /\ S \in Nat /\ assets * S <= A * burned
    BY <1>2, EffectivePositive
<1> HIDE DEF s
<1>4. /\ vault'.total_assets = s.total_assets - assets
      /\ vault'.total_shares = s.total_shares - burned
    BY <1>1, <1>2, AtomicWithdrawSound
<1>5. EffectiveAssets(vault') = A - assets /\ EffectiveSupply(vault') = S - burned
    BY <1>2, <1>4, KernelAssumption DEF IsVault, EffectiveAssets, EffectiveSupply, AtLeast1
<1> HIDE DEF A, S
<1>6. (A - assets) * S >= A * (S - burned)
    BY <1>3, PriceOfExit
<1> QED BY <1>5, <1>6 DEF PriceAtLeast, A, S, s

\* Fees that nobody is charged, for want of shares or of a rate, mint nothing.
LEMMA RefreshWithoutFees ==
    ASSUME NEW s, IsVault(s), NEW f \in FeesSpec, NEW t \in Nat,
           CanRefreshFees(s, f, t), ~FeesAreDue(s, f, t)
    PROVE  RefreshFees(s, f, t).total_shares = s.total_shares
<1> DEFINE base == FeeBase(s.total_assets, s.fee_anchor, f, t)
<1>1. RefreshFees(s, f, t).total_shares = SupplyAfterFees(s, base, f, t)
    BY DEF RefreshFees, IsVault
<1> HIDE DEF base
<1>2. CASE ~HasActiveSlotFees(f)
    BY <1>1, <1>2 DEF SupplyAfterFees
<1>3. CASE HasActiveSlotFees(f)
    <2>1. s.total_shares = 0
        BY <1>3 DEF CanRefreshFees, FeesAreDue, IsVault
    <2>2. ManagementShares(s, base, f, t) = 0
        BY <2>1 DEF ManagementShares, FeeShares
    <2>3. PerformanceShares(s, base, f, 0) = 0
        BY DEF PerformanceShares, FeeShares
    <2>4. s.total_shares + ManagementShares(s, base, f, t) = 0
        BY <2>1, <2>2
    <2>5. SupplyAfterFees(s, base, f, t) = SupplyAfterPerformance(s, base, f, 0)
        BY <1>3, <2>4 DEF SupplyAfterFees
    <2> QED BY <1>1, <2>1, <2>3, <2>5 DEF SupplyAfterPerformance
<1> QED BY <1>2, <1>3

\* Fees that are due lower the price; leaving them uncharged does not.
LEMMA PriceOfUncharged ==
    ASSUME VaultInv, NEW n, IsVault(n), n.total_assets = vault.total_assets,
           n.total_shares = vault.total_shares
    PROVE  PriceAtLeast(n, FeesSettled)
<1>1. /\ IsVault(FeesSettled) /\ FeesSettled.total_assets = vault.total_assets
      /\ FeesSettled.total_shares >= vault.total_shares
    BY CrystallizedSound DEF VaultInv, FeesSettled
<1>2. n.total_assets \in Nat /\ n.total_shares \in Nat /\ FeesSettled.total_shares \in Nat
    BY <1>1 DEF IsVault
<1> QED BY <1>1, <1>2, PriceOfMore

\* Counting tokens that came in without a deposit does not lower the price
\* (reconcile_actual_idle_assets).
LEMMA ReconciledPrice ==
    ASSUME VaultInv
    PROVE  PriceAtLeast(Reconciled, FeesSettled)
<1>1. /\ IsVault(FeesSettled) /\ IsVault(Reconciled)
      /\ Reconciled.total_assets >= FeesSettled.total_assets
      /\ Reconciled.total_shares = FeesSettled.total_shares
    BY SettledSound, ReconcileIdleSound DEF Reconciled, VaultInv
<1>2. Reconciled.total_shares \in Nat
    BY <1>1 DEF IsVault
<1> QED BY <1>1, <1>2, PriceOfMore

\* A withdrawal run that starts no operation only drops requests, which leaves the
\* price.
LEMMA ExecuteWithdrawPrice ==
    ASSUME VaultInv, ExecuteWithdraw, vault'.next_op_id = vault.next_op_id
    PROVE  PriceAtLeast(vault', FeesSettled)
<1> DEFINE ids == Skipped(vault.withdraw_queue, restrictions)
           s == [vault EXCEPT !.withdraw_queue = Dequeue(@, ids)]
<1>1. /\ \/ IsReady(s, now) /\ SettleWithdrawal(s, Refund(ids))
         \/ vault' = s
      /\ UNCHANGED <<now, fees, value>>
    BY Zenon DEF ExecuteWithdraw, markets, policy, clocks
<1>2. /\ IsVault(s) /\ s.idle_assets = vault.idle_assets
      /\ s.total_assets = vault.total_assets /\ s.total_shares = vault.total_shares
      /\ s.next_op_id = vault.next_op_id
    BY SkippedSound
<1> HIDE DEF s, ids
<1>3. ~(IsReady(s, now) /\ SettleWithdrawal(s, Refund(ids)))
    <2> SUFFICES ASSUME IsReady(s, now), SettleWithdrawal(s, Refund(ids)) PROVE FALSE
        OBVIOUS
    <2>1. vault'.next_op_id = s.next_op_id + 1
        BY <1>1, <1>2, SettleWithdrawalKeeps DEF IsReady
    <2> QED BY <1>2, <2>1 DEF IsVault
<1> QED BY <1>1, <1>2, <1>3, PriceOfUncharged

\* A step that starts no operation does not lower the price, fees that are due aside.
LEMMA NextKeepsPrice ==
    ASSUME VaultInv, Next, vault'.next_op_id = vault.next_op_id
    PROVE  PriceAtLeast(vault', FeesSettled)
<1> USE SorobanAssumption
<1>0. /\ IsVault(vault) /\ now \in Nat /\ fees \in FeesSpec /\ value \in [Markets -> Nat]
      /\ vault.next_op_id # vault.next_op_id + 1
      /\ \A x \in Amounts : x \in Nat /\ x - 1 \in Nat
    BY DEF VaultInv, IsVault
<1>1. CASE \E o \in Users, r \in Receivers, x \in Amounts : DepositAssets(o, r, x)
    BY <1>0, <1>1, DepositAssetsPrice
<1>2. CASE \E o \in Holders, r \in Receivers, x \in Amounts : RequestWithdrawal(o, r, x)
    <2>1. PICK o \in Holders, r \in Receivers, x \in Amounts : RequestWithdrawal(o, r, x)
        BY <1>2
    <2>2. VaultInv'
        BY <1>0, <2>1, RequestWithdrawalKeeps
    <2> DEFINE s == FeesSettled
               queue == Enqueue(s.withdraw_queue,
                            [owner |-> o, receiver |-> r, escrow |-> x,
                             expected |-> ConvertToRedeemAssets(s, x), requested_at |-> now])
    <2>3. vault' = [s EXCEPT !.withdraw_queue = queue]
        BY <2>1 DEF RequestWithdrawal, RequestWithdraw
    <2>4. IsVault(s)
        BY SettledSound
    <2> HIDE DEF s, queue
    <2>5. vault'.total_assets = s.total_assets /\ vault'.total_shares = s.total_shares
        BY <2>3, <2>4 DEF IsVault
    <2>6. s.total_assets \in Nat /\ s.total_shares \in Nat /\ IsVault(vault')
        BY <2>2, <2>4 DEF IsVault, VaultInv
    <2> QED BY <2>4, <2>5, <2>6, PriceOfMore DEF s
<1>3. CASE \E o \in Holders, r \in Receivers, x \in Amounts : AtomicWithdrawAssets(o, r, x)
    <2>1. PICK o \in Holders, r \in Receivers, x \in Amounts : AtomicWithdrawAssets(o, r, x)
        BY <1>3
    <2>2. AtomicExit(FeesSettled, o, r, x, ConvertToWithdrawShares(FeesSettled, x))
        BY <2>1 DEF AtomicWithdrawAssets
    <2>3. /\ ConvertToWithdrawShares(FeesSettled, x) \in Nat
          /\ x * EffectiveSupply(FeesSettled)
                <= EffectiveAssets(FeesSettled) * ConvertToWithdrawShares(FeesSettled, x)
        BY <1>0, SettledSound, SharesForWithdrawal
    <2> QED BY <1>0, <2>2, <2>3, AtomicExitPrice
<1>4. CASE \E o \in Holders, r \in Receivers, x \in Amounts : AtomicRedeemShares(o, r, x)
    <2>1. PICK o \in Holders, r \in Receivers, x \in Amounts : AtomicRedeemShares(o, r, x)
        BY <1>4
    <2> DEFINE s == FeesSettled
               assets == ConvertToRedeemAssets(s, x)
    <2>2. AtomicExit(s, o, r, assets, x)
        BY <2>1 DEF AtomicRedeemShares
    <2>3. IsVault(s) /\ x \in Nat
        BY <1>0, SettledSound
    <2>4. assets \in Nat /\ EffectiveSupply(s) * assets <= x * EffectiveAssets(s)
        BY <2>3, AssetsForShares
    <2>5. EffectiveSupply(s) \in Nat /\ EffectiveAssets(s) \in Nat
        BY <2>3, EffectivePositive
    <2> HIDE DEF s, assets
    <2>6. assets * EffectiveSupply(s) <= EffectiveAssets(s) * x
        BY <2>3, <2>4, <2>5, SMTT(30)
    <2> QED BY <2>2, <2>3, <2>4, <2>6, AtomicExitPrice DEF s
<1>5. CASE ExecuteWithdraw
    BY <1>5, ExecuteWithdrawPrice
<1>6. CASE \E m \in Markets, x \in Amounts : \E got \in {x, x - 1} : AllocateSupply(m, x, got)
    BY <1>0, <1>6, AllocateSupplyKeeps
<1>7. CASE \E m \in Markets, x \in Amounts : \E got \in 0..Least(x, value[m]) :
                AllocateWithdraw(m, got)
    <2>1. PICK m \in Markets, x \in Amounts : \E got \in 0..Least(x, value[m]) :
                AllocateWithdraw(m, got)
        BY <1>7, Zenon
    <2>2. PICK got \in 0..Least(x, value[m]) : AllocateWithdraw(m, got)
        BY <2>1
    <2>3. value[m] \in Nat /\ x \in Nat
        BY <1>0
    <2>4. got \in Nat /\ got <= value[m]
        BY <2>2, <2>3 DEF Least
    <2> QED BY <1>0, <2>2, <2>4, AllocateWithdrawKeeps
<1>8. CASE \E ms \in SUBSET Markets : RefreshMarkets(ms)
    BY <1>0, <1>8, RefreshMarketsKeeps
<1>9. CASE RefreshVaultFees
    <2>1. CASE vault' = Reconciled
        BY <2>1, ReconciledPrice
    <2>2. CASE /\ ~FeesAreDue(vault, fees, now) /\ CanRefreshFees(vault, fees, now)
               /\ vault' = RefreshFees(vault, fees, now)
        <3>1. now >= vault.fee_anchor.timestamp
            BY <1>0, <2>2 DEF CanRefreshFees, IsVault
        <3>2. IsVault(vault') /\ vault'.total_assets = vault.total_assets
            BY <1>0, <2>2, <3>1, RefreshFeesSound
        <3>3. vault'.total_shares = vault.total_shares
            BY <1>0, <2>2, RefreshWithoutFees
        <3> QED BY <3>2, <3>3, PriceOfUncharged
    <2> QED BY <1>9, <2>1, <2>2 DEF RefreshVaultFees, Reconciled
<1>10. CASE ResyncIdleBalance
    BY <1>10, ReconciledPrice DEF ResyncIdleBalance
<1>11. CASE \E f \in FeeSpecs : SetFees(f)
    <2>1. /\ VaultInv' /\ vault'.total_assets = FeesSettled.total_assets
          /\ vault'.total_shares = FeesSettled.total_shares
        BY <1>11, SetFeesKeeps
    <2>2. /\ IsVault(FeesSettled) /\ IsVault(vault')
          /\ FeesSettled.total_assets \in Nat /\ FeesSettled.total_shares \in Nat
        BY <2>1, SettledSound DEF VaultInv, IsVault
    <2> QED BY <2>1, <2>2, PriceOfMore
<1>12. CASE vault' = vault
    BY <1>0, <1>12, PriceOfUncharged
<1>13. CASE \/ \E flag \in BOOLEAN : SetPaused(flag)
            \/ \E r \in RestrictionSpecs : SetRestrictions(r)
            \/ \E flag \in TokenPauses : SetTokenPaused(flag)
            \/ \E r \in TokenRestrictionSpecs : SetTokenRestrictions(r)
            \/ \E a \in Holders, b \in Receivers, x \in Amounts : TransferShares(a, b, x)
            \/ \E x \in Amounts : Donate(x)
            \/ \E m \in Markets : Gain(m) \/ Loss(m)
            \/ Tick
    BY <1>12, <1>13 DEF SetPaused, SetRestrictions, SetTokenPaused, SetTokenRestrictions,
                        TransferShares, Donate, Gain, Loss, Tick
<1> QED BY <1>1, <1>2, <1>3, <1>4, <1>5, <1>6, <1>7, <1>8, <1>9, <1>10, <1>11, <1>13, Zenon
        DEF Next

\* For any offsets, fees and amounts, no entry, exit, request, donation, transfer or
\* upkeep makes the shares of the others worth less, fees that are due aside.
THEOREM PriceNeverFalls == Spec => HoldersKeepTheirPrice
<1>1. VaultInv /\ [Next]_vars =>
        [vault'.next_op_id = vault.next_op_id => PriceAtLeast(vault', FeesSettled)]_vars
    BY NextKeepsPrice
<1> QED BY <1>1, VaultInvariant, PTL DEF Spec, HoldersKeepTheirPrice
-----------------------------------------------------------------------------
(* Profit.                                                                 *)

ProfitOf(s) == Minus(s.total_assets, s.fee_anchor.total_assets)

\* A profit is a natural number: a loss counts as none.
LEMMA ProfitIsNat == ASSUME NEW s, IsVault(s) PROVE ProfitOf(s) \in Nat
BY DEF IsVault, ProfitOf, Minus

\* So is the profit of the vault that the property speaks of.
LEMMA VaultProfit == ASSUME VaultInv PROVE Profit = ProfitOf(vault) /\ Profit \in Nat
<1>1. Profit = ProfitOf(vault)
    BY DEF Profit, ProfitOf
<1>2. IsVault(vault)
    BY DEF VaultInv
<1> QED BY <1>1, <1>2, ProfitIsNat

\* Settling fees and reconciling the balance make no profit.
LEMMA SettledProfit ==
    ASSUME VaultInv, NEW s, s \in {FeesSettled, Reconciled, Crystallized(Reconciled, fees, now)}
    PROVE  ProfitOf(s) \in Nat /\ ProfitOf(s) <= Profit
<1>1. fees \in FeesSpec /\ now \in Nat /\ IsVault(vault)
    BY DEF VaultInv
<1>2. ASSUME NEW v, IsVault(v)
      PROVE  v.total_assets \in Nat /\ v.fee_anchor.total_assets \in Nat /\ ProfitOf(v) \in Nat
    BY <1>2 DEF IsVault, ProfitOf, Minus
<1>3. ASSUME NEW v, IsVault(v)
      PROVE  /\ IsVault(Crystallized(v, fees, now))
             /\ ProfitOf(Crystallized(v, fees, now)) <= ProfitOf(v)
    <2> DEFINE c == Crystallized(v, fees, now)
    <2>1. /\ IsVault(c) /\ c.total_assets = v.total_assets
          /\ c.fee_anchor.total_assets \in {v.fee_anchor.total_assets, v.total_assets}
        BY <1>1, <1>3, CrystallizedSound
    <2>2. v.total_assets \in Nat /\ v.fee_anchor.total_assets \in Nat
        BY <1>2, <1>3
    <2> HIDE DEF c
    <2>3. ProfitOf(c) <= ProfitOf(v)
        BY <2>1, <2>2 DEF ProfitOf, Minus
    <2> QED BY <2>1, <2>3 DEF c
<1>4. IsVault(FeesSettled) /\ ProfitOf(FeesSettled) <= ProfitOf(vault)
    BY <1>1, <1>3 DEF FeesSettled
<1>5. IsVault(Reconciled) /\ ProfitOf(Reconciled) = ProfitOf(FeesSettled)
    <2>1. FeesSettled.idle_assets <= held /\ held \in Nat
        BY SettledSound DEF VaultInv
    <2>2. /\ IsVault(Reconciled)
          /\ Reconciled.total_assets - Reconciled.fee_anchor.total_assets
                = FeesSettled.total_assets - FeesSettled.fee_anchor.total_assets
        BY <1>4, <2>1, ReconcileIdleSound DEF Reconciled
    <2>3. /\ Reconciled.total_assets \in Nat /\ Reconciled.fee_anchor.total_assets \in Nat
          /\ FeesSettled.total_assets \in Nat /\ FeesSettled.fee_anchor.total_assets \in Nat
        BY <1>2, <1>4, <2>2
    <2> QED BY <2>2, <2>3 DEF ProfitOf, Minus
<1> DEFINE c == Crystallized(Reconciled, fees, now)
<1>6. IsVault(c) /\ ProfitOf(c) <= ProfitOf(Reconciled)
    BY <1>3, <1>5
<1>7. s \in {FeesSettled, Reconciled, c}
    OBVIOUS
<1> HIDE DEF c
<1>8. /\ ProfitOf(vault) \in Nat /\ ProfitOf(FeesSettled) \in Nat
      /\ ProfitOf(Reconciled) \in Nat /\ ProfitOf(c) \in Nat
    BY <1>1, <1>2, <1>4, <1>5, <1>6
<1>9. Profit = ProfitOf(vault)
    BY DEF Profit, ProfitOf
<1> QED BY <1>4, <1>5, <1>6, <1>7, <1>8, <1>9

\* Less in total under the same anchor is no profit.
LEMMA NoMoreProfit ==
    ASSUME NEW s, NEW n, IsVault(s), IsVault(n), n.total_assets <= s.total_assets,
           n.fee_anchor.total_assets = s.fee_anchor.total_assets
    PROVE  ProfitOf(n) <= ProfitOf(s)
BY DEF IsVault, ProfitOf, Minus

\* A deposit leaves no profit: it moves the anchor to the new total.
LEMMA DepositProfit ==
    ASSUME VaultInv, NEW o, NEW r, NEW assets \in Nat, DepositAssets(o, r, assets)
    PROVE  ProfitOf(vault') = 0
<1> DEFINE s == Crystallized(Reconciled, fees, now)
           minted == ConvertToShares(s, assets)
           d == Deposit(s, assets, minted, now)
<1>1. vault' = d
    BY DEF DepositAssets
<1>2. IsVault(s) /\ now \in Nat
    BY SettledSame DEF VaultInv
<1> HIDE DEF s
<1>3. minted \in Nat
    BY <1>2, SharesForAssets
<1> HIDE DEF minted
<1>4. /\ d.total_assets = s.total_assets + assets
      /\ d.fee_anchor.total_assets = s.total_assets + assets
    BY <1>2, <1>3, DepositSound
<1>5. s.total_assets \in Nat
    BY <1>2 DEF IsVault
<1> HIDE DEF d
<1> QED BY <1>1, <1>4, <1>5 DEF ProfitOf, Minus

\* A transaction that ends with what the fees left it, under the same anchor, makes
\* no profit.
LEMMA ProfitAfterSettling ==
    ASSUME VaultInv, NEW s, s \in {FeesSettled, Reconciled}, NEW n, IsVault(n),
           n.total_assets <= s.total_assets,
           n.fee_anchor.total_assets = s.fee_anchor.total_assets
    PROVE  ProfitOf(n) <= Profit
<1>1. IsVault(s)
    BY SettledSound
<1>2. ProfitOf(n) <= ProfitOf(s)
    BY <1>1, NoMoreProfit
<1>3. ProfitOf(s) \in Nat /\ ProfitOf(s) <= Profit
    BY SettledProfit
<1>4. ProfitOf(n) \in Nat
    BY ProfitIsNat
<1>5. Profit \in Nat
    BY VaultProfit
<1> QED BY <1>2, <1>3, <1>4, <1>5

\* A request leaves the totals that the fees left (request_withdrawal).
LEMMA RequestProfit ==
    ASSUME VaultInv, VaultInv', NEW o, NEW r, NEW x, RequestWithdrawal(o, r, x)
    PROVE  ProfitOf(vault') <= Profit
<1> DEFINE s == FeesSettled
           n == vault'
<1>1. PICK q : n = [s EXCEPT !.withdraw_queue = q]
    BY DEF RequestWithdrawal, RequestWithdraw
<1>2. IsVault(s) /\ IsVault(n)
    BY SettledSound DEF VaultInv
<1>3. n.total_assets = s.total_assets /\ n.fee_anchor = s.fee_anchor /\ s.total_assets \in Nat
    <2> HIDE DEF s, n
    <2> QED BY <1>1, <1>2 DEF IsVault
<1> HIDE DEF n
<1>4. ProfitOf(n) <= Profit
    BY <1>2, <1>3, ProfitAfterSettling
<1> QED BY <1>4 DEF n

\* An exit takes its assets from the total, under the same anchor.
LEMMA ExitProfit ==
    ASSUME VaultInv, VaultInv', NEW o, NEW r, NEW x \in Nat,
           AtomicWithdrawAssets(o, r, x) \/ AtomicRedeemShares(o, r, x)
    PROVE  ProfitOf(vault') <= Profit
<1> DEFINE s == FeesSettled
           n == vault'
<1>1. PICK assets, burned : assets \in Nat /\ burned \in Nat /\ AtomicExit(s, o, r, assets, burned)
    <2>1. ConvertToWithdrawShares(s, x) \in Nat /\ ConvertToRedeemAssets(s, x) \in Nat
        BY SettledSound, SharesForWithdrawal, AssetsForShares
    <2>2. \/ AtomicExit(s, o, r, x, ConvertToWithdrawShares(s, x))
          \/ AtomicExit(s, o, r, ConvertToRedeemAssets(s, x), x)
        BY DEF AtomicWithdrawAssets, AtomicRedeemShares
    <2> QED BY <2>1, <2>2
<1>2. /\ n = AtomicWithdraw(s, assets, burned)
      /\ assets <= s.idle_assets /\ burned <= s.total_shares
    BY <1>1 DEF AtomicExit, CanAtomicWithdraw
<1>3. IsVault(s) /\ IsVault(n)
    BY SettledSound DEF VaultInv
<1>4. n.total_assets = s.total_assets - assets /\ n.fee_anchor = s.fee_anchor
    BY <1>1, <1>2, <1>3, AtomicWithdrawSound
<1>5. s.total_assets \in Nat
    BY <1>3 DEF IsVault
<1> HIDE DEF n
<1>6. n.total_assets <= s.total_assets
    BY <1>1, <1>4, <1>5
<1>7. ProfitOf(n) <= Profit
    BY <1>3, <1>4, <1>6, ProfitAfterSettling
<1> QED BY <1>7 DEF n

\* Collecting the fees or reconciling the balance makes no profit.
LEMMA UpkeepProfit ==
    ASSUME VaultInv, RefreshVaultFees \/ ResyncIdleBalance
    PROVE  ProfitOf(vault') <= Profit
<1> DEFINE n == vault'
<1>0. fees \in FeesSpec /\ now \in Nat /\ IsVault(vault)
    BY DEF VaultInv
<1>1. \/ n = Reconciled
      \/ CanRefreshFees(vault, fees, now) /\ n = RefreshFees(vault, fees, now)
    BY DEF RefreshVaultFees, ResyncIdleBalance, Reconciled
<1> HIDE DEF n
<1>2. CASE n = Reconciled
    BY <1>2, SettledProfit DEF n
<1>3. CASE CanRefreshFees(vault, fees, now) /\ n = RefreshFees(vault, fees, now)
    <2>1. now >= vault.fee_anchor.timestamp
        BY <1>0, <1>3 DEF CanRefreshFees, IsVault
    <2>2. n.total_assets = vault.total_assets /\ n.fee_anchor.total_assets = vault.total_assets
        BY <1>0, <1>3, <2>1, RefreshFeesSound
    <2>3. vault.total_assets \in Nat
        BY <1>0 DEF IsVault
    <2>4. ProfitOf(n) = 0
        BY <2>2, <2>3 DEF ProfitOf, Minus
    <2>5. Profit \in Nat
        BY VaultProfit
    <2> QED BY <2>4, <2>5 DEF n
<1> QED BY <1>1, <1>2, <1>3

\* New fees start from an anchor at the present total (set_fees).
LEMMA SetFeesProfit ==
    ASSUME VaultInv, NEW f, SetFees(f)
    PROVE  ProfitOf(vault') <= Profit
<1> DEFINE s == FeesSettled
           n == vault'
<1>1. \/ n = [s EXCEPT !.fee_anchor = [total_assets |-> s.total_assets, timestamp |-> now]]
      \/ n = s
    BY DEF SetFees
<1>2. IsVault(s)
    BY SettledSound
<1> HIDE DEF n
<1>3. CASE n = s
    BY <1>3, SettledProfit DEF n
<1>4. CASE n = [s EXCEPT !.fee_anchor = [total_assets |-> s.total_assets, timestamp |-> now]]
    <2> HIDE DEF s
    <2>1. n.total_assets = s.total_assets /\ n.fee_anchor.total_assets = s.total_assets
          /\ s.total_assets \in Nat
        BY <1>2, <1>4 DEF IsVault
    <2>2. ProfitOf(n) = 0
        BY <2>1 DEF ProfitOf, Minus
    <2>3. Profit \in Nat
        BY VaultProfit
    <2> QED BY <2>2, <2>3 DEF n
<1> QED BY <1>1, <1>3, <1>4

\* Steps that change neither the markets nor what is known of them make no profit.
LEMMA NextProfit ==
    ASSUME VaultInv, LedgerInv, VaultInv', LedgerInv', [Next]_vars, UNCHANGED <<value, principal>>
    PROVE  Profit' <= Profit
<1> USE SorobanAssumption
<1>0. /\ held \in Nat /\ now \in Nat /\ value \in [Markets -> Nat]
      /\ \A x \in Amounts : x \in Nat /\ x - 1 \in Nat
    BY DEF VaultInv
<1> DEFINE n == vault'
<1>00. /\ IsVault(vault) /\ IsVault(n) /\ ProfitOf(vault) \in Nat /\ ProfitOf(n) \in Nat
       /\ Profit = ProfitOf(vault) /\ Profit' = ProfitOf(n)
    BY DEF VaultInv, IsVault, Profit, ProfitOf, Minus
<1>000. ASSUME n.fee_anchor = vault.fee_anchor, n.idle_assets <= vault.idle_assets
        PROVE  Profit' <= Profit
    <2>1. n.external_assets = vault.external_assets
        <3>1. vault.external_assets = Sum(principal) /\ n.external_assets = Sum(principal')
            BY DEF LedgerInv, MarketsInv
        <3> QED BY <3>1
    <2>2. n.total_assets <= vault.total_assets
        BY <1>00, <1>000, <2>1 DEF IsVault
    <2> QED BY <1>00, <1>000, <2>2, NoMoreProfit
<1> HIDE DEF n
<1>1. CASE \E o \in Users, r \in Receivers, x \in Amounts : DepositAssets(o, r, x)
    BY <1>0, <1>00, <1>1, DepositProfit DEF n
<1>2. CASE \E o \in Holders, r \in Receivers, x \in Amounts : RequestWithdrawal(o, r, x)
    BY <1>00, <1>2, RequestProfit DEF n
<1>3. CASE \E o \in Holders, r \in Receivers, x \in Amounts :
                \/ AtomicWithdrawAssets(o, r, x) \/ AtomicRedeemShares(o, r, x)
    BY <1>0, <1>00, <1>3, ExitProfit DEF n
<1>4. CASE ExecuteWithdraw
    BY <1>000, <1>4, ExecuteLedger DEF n
<1>5. CASE \E m \in Markets, x \in Amounts : \E got \in {x, x - 1} : AllocateSupply(m, x, got)
    BY <1>0, <1>000, <1>5, SupplyLedger DEF n
<1>6. CASE \E m \in Markets, x \in Amounts : \E got \in 0..Least(x, value[m]) :
                AllocateWithdraw(m, got)
    <2>1. PICK m \in Markets, x \in Amounts : \E got \in 0..Least(x, value[m]) :
                AllocateWithdraw(m, got)
        BY <1>6, Zenon
    <2>2. PICK got \in 0..Least(x, value[m]) : AllocateWithdraw(m, got)
        BY <2>1
    <2>3. value[m] \in Nat /\ x \in Nat
        BY <1>0
    <2>4. got \in Nat /\ got <= value[m]
        BY <2>2, <2>3 DEF Least
    <2>5. n.fee_anchor = vault.fee_anchor /\ n.idle_assets = vault.idle_assets + got
        BY <2>2, <2>4, WithdrawLedger DEF n
    <2>6. got = 0
        <3>1. value' = [value EXCEPT ![m] = @ - got] /\ value' = value
            BY <2>2, Zenon DEF AllocateWithdraw
        <3>2. value[m] = value[m] - got
            BY <1>0, <3>1
        <3> QED BY <2>3, <2>4, <3>2
    <2>7. n.idle_assets <= vault.idle_assets
        BY <1>00, <2>5, <2>6 DEF IsVault
    <2> QED BY <1>000, <2>5, <2>7
<1>7. CASE \E ms \in SUBSET Markets : RefreshMarkets(ms)
    <2>1. n.fee_anchor = vault.fee_anchor /\ n.idle_assets = vault.idle_assets
        BY <1>7, RefreshLedger DEF n
    <2>2. vault.idle_assets \in Nat
        BY <1>00 DEF IsVault
    <2> QED BY <1>000, <2>1, <2>2
<1>8. CASE RefreshVaultFees \/ ResyncIdleBalance
    BY <1>00, <1>8, UpkeepProfit DEF n
<1>9. CASE \E f \in FeeSpecs : SetFees(f)
    BY <1>00, <1>9, SetFeesProfit DEF n
<1>10. CASE \/ \E a \in Holders, b \in Receivers, x \in Amounts : TransferShares(a, b, x)
            \/ \E flag \in BOOLEAN : SetPaused(flag)
            \/ \E r \in RestrictionSpecs : SetRestrictions(r)
            \/ \E flag \in TokenPauses : SetTokenPaused(flag)
            \/ \E r \in TokenRestrictionSpecs : SetTokenRestrictions(r)
            \/ \E x \in Amounts : Donate(x)
            \/ \E m \in Markets : Gain(m) \/ Loss(m)
            \/ Tick
            \/ UNCHANGED vars
    <2>1. n = vault
        BY <1>10 DEF TransferShares, SetPaused, SetRestrictions, SetTokenPaused,
                     SetTokenRestrictions, Donate, Gain, Loss, Tick, vars, n
    <2> QED BY <1>00, <2>1
<1> QED BY <1>1, <1>2, <1>3, <1>4, <1>5, <1>6, <1>7, <1>8, <1>9, <1>10 DEF Next

\* Only an observation of a market makes a profit that a fee is taken of.
THEOREM FeesOnlyOnGains == Spec => NoFeeWithoutGain
<1>1. /\ VaultInv /\ LedgerInv /\ (VaultInv /\ LedgerInv)' /\ [Next]_vars
      => [UNCHANGED <<value, principal>> => Profit' <= Profit]_vars
    BY NextProfit
<1> QED BY <1>1, LedgerInvariant, PTL DEF Spec, NoFeeWithoutGain
=============================================================================
