----------------------------- MODULE SorobanVault -----------------------------
(***************************************************************************)
(* The Soroban executor of the vault kernel (contract/vault/soroban).  One *)
(* transaction is one action: it loads the kernel state, applies kernel    *)
(* handlers, carries out their effects on the share and asset tokens and   *)
(* saves the state, and any error reverts all of it.  The share token has  *)
(* a policy of its own (soroban/share-token), which its admin sets and     *)
(* which may refuse an effect.  The markets behind the adapters, the asset *)
(* token and time are the environment.                                     *)
(***************************************************************************)
EXTENDS VaultKernel

CONSTANTS Users, FeeRecipient,     \* holders; both fee slots pay the one recipient
          BadReceivers,            \* accounts the asset token cannot be sent to
          Markets, MarketCap,      \* markets that may be supplied, and their caps
          GroupCap, GroupShare,    \* cap of their cap group, and a set of at most one
                                   \* fraction of the total assets that caps it too
          FeeSpecs, RestrictionSpecs,  \* what governance may set
          TokenPauses, TokenRestrictionSpecs,  \* what the admin of the share token may set
          MaxNavAge,               \* age at which the value of the markets is stale
          IdleResyncCooldown,
          Amounts, Receivers,      \* bounds: what callers ask for, and for whom
          MaxTime, MaxHeld, MaxGain, MaxOpId, MaxRequests   \* bounds

Fraction == [n : Nat, d : Nat \ {0}]
FeesSpec == [performance : Fraction, management : Fraction, cap : SUBSET Fraction]

ASSUME SorobanAssumption ==
    /\ FeeSpecs \subseteq FeesSpec
    /\ Amounts \subseteq Nat \ {0}
    /\ SELF \notin Users \union {FeeRecipient}
    /\ Receivers \subseteq Users \union {FeeRecipient, SELF}
    /\ IsFiniteSet(Users) /\ IsFiniteSet(Markets)
    /\ MaxTime \in Nat

VARIABLES vault,            \* kernel state
          shares,           \* share token balances
          held,             \* asset token balance of the vault
          value,            \* what each adapter reports as its total assets
          principal,        \* policy state: what was last observed of each market
          paused, restrictions, fees,
          share_token,      \* the policy of the share token
          now,
          nav_refreshed,    \* when every market was last observed together, 0 for never
          idle_resync_last,
          observed          \* history: when the principal of each market was last observed

vars == <<vault, shares, held, value, principal, paused, restrictions, fees, share_token,
          now, nav_refreshed, idle_resync_last, observed>>
tokens == <<shares, held>>
markets == <<value, principal, observed>>
policy == <<paused, restrictions, fees, share_token>>
clocks == <<now, nav_refreshed, idle_resync_last>>

Holders == Users \union {FeeRecipient}
Accounts == Holders \union {SELF}
NoRestrictions == [kind |-> "Blacklist", members |-> {}]

Sum(f) == SumFunctionOnSet(f, DOMAIN f)
Credit(a, n) == [shares EXCEPT ![a] = @ + n]

\* What the share token admits: nothing while it is paused, and transfers only
\* between accounts it does not restrict.  The vault passes for its own account
\* in the transfers that it makes, so those name only the other end.
CanMintOrBurn == ~share_token.paused
CanTransfer(accounts) ==
    /\ ~share_token.paused
    /\ \A a \in accounts : ~IsRestricted(share_token.restrictions, a)

Init ==
    /\ vault = NewVaultState
    /\ shares = [a \in Accounts |-> 0]
    /\ held = 0
    /\ value = [m \in Markets |-> 0] /\ principal = [m \in Markets |-> 0]
    /\ observed = [m \in Markets |-> 0]
    /\ paused = FALSE /\ restrictions = NoRestrictions /\ fees \in FeeSpecs
    /\ share_token = [paused |-> FALSE, restrictions |-> NoRestrictions]
    /\ now = 1 /\ nav_refreshed = 0 /\ idle_resync_last = 0

Allowed(a) == ~paused /\ ~IsRestricted(restrictions, a)

\* Mutant: tokens that came in without a deposit count as a gain.
ReconcileIdleAsGain(s, actual) ==
    IF s.idle_assets = actual THEN s
    ELSE SyncTotalAssets([s EXCEPT !.idle_assets = actual])

\* reconcile_actual_idle_assets: an inflow raises the fee anchor with the total.
ReconcileIdle(s, actual) ==
    IF s.idle_assets = actual THEN s
    ELSE SyncTotalAssets([s EXCEPT !.idle_assets = actual,
                                   !.fee_anchor.total_assets = @ + Minus(actual, s.idle_assets)])

FeesSettled == Crystallized(vault, fees, now)

\* reconcile_fees_and_current_idle_balance
Reconciled == ReconcileIdle(FeesSettled, held)

\* Share balances after the fees of s, the state after crystallization, are minted.
WithFees(s) == Credit(FeeRecipient, s.total_shares - vault.total_shares)
CanMintFees(s) == s.total_shares > vault.total_shares => CanMintOrBurn

-----------------------------------------------------------------------------
(* Share holders.                                                          *)

NavIsStale == vault.external_assets > 0 /\ (nav_refreshed = 0 \/ now - nav_refreshed > MaxNavAge)

DepositAssets(owner, receiver, assets) ==
    /\ Allowed(owner) /\ Allowed(receiver)
    /\ ~NavIsStale
    /\ CanMintOrBurn
    /\ held + assets <= MaxHeld
    /\ \E s \in {Crystallized(Reconciled, fees, now)} :
        \E minted \in {ConvertToShares(s, assets)} :
            /\ CanDeposit(s, assets, minted)
            /\ vault' = Deposit(s, assets, minted, now)
            /\ shares' = [WithFees(s) EXCEPT ![receiver] = @ + minted]
    /\ held' = held + assets
    /\ UNCHANGED <<markets, policy, clocks>>

RequestWithdrawal(owner, receiver, amount) ==
    /\ Allowed(owner) /\ Allowed(receiver)
    /\ CanTransfer({owner})
    /\ vault.total_shares > 0
    /\ vault.withdraw_queue.next_pending_withdrawal_id < MaxRequests
    /\ now + WithdrawalCooldown <= MaxTime
    /\ \E s \in {FeesSettled} : \E expected \in {ConvertToRedeemAssets(s, amount)} :
            /\ CanRequestWithdraw(s, amount, expected)
            /\ WithFees(s)[owner] >= amount
            /\ vault' = RequestWithdraw(s, owner, receiver, amount, expected, now)
            /\ shares' = [WithFees(s) EXCEPT ![owner] = @ - amount, ![SELF] = @ + amount]
    /\ UNCHANGED <<held, markets, policy, clocks>>

AtomicExit(s, owner, receiver, assets, burned) ==
    /\ CanAtomicWithdraw(s, assets, burned)
    /\ CanMintOrBurn
    /\ WithFees(s)[owner] >= burned
    /\ receiver \notin BadReceivers
    /\ vault' = AtomicWithdraw(s, assets, burned)
    /\ shares' = [WithFees(s) EXCEPT ![owner] = @ - burned]
    /\ held' = IF receiver = SELF THEN held ELSE held - assets
    /\ UNCHANGED <<markets, policy, clocks>>

AtomicWithdrawAssets(owner, receiver, assets) ==
    /\ Allowed(owner) /\ Allowed(receiver)
    /\ \E s \in {FeesSettled} : \E burned \in {ConvertToWithdrawShares(s, assets)} :
            AtomicExit(s, owner, receiver, assets, burned)

AtomicRedeemShares(owner, receiver, amount) ==
    /\ Allowed(owner) /\ Allowed(receiver)
    /\ \E s \in {FeesSettled} : \E assets \in {ConvertToRedeemAssets(s, amount)} :
            AtomicExit(s, owner, receiver, assets, amount)

\* Share balances after the escrow of the dropped requests went back.
Refund(ids) ==
    [a \in Accounts |->
        shares[a] + Escrow(vault.withdraw_queue,
                           {id \in ids : vault.withdraw_queue.pending[id].owner = a})
                  - (IF a = SELF THEN Escrow(vault.withdraw_queue, ids) ELSE 0)]

Payout(s) == WithdrawalSettled(StartWithdrawal(s), HeadRequest(s.withdraw_queue).expected,
                               HeadRequest(s.withdraw_queue).escrow)

\* Mutant: a transfer that fails fails the transaction.
SettleWithdrawalOrRevert(s, sh) ==
    /\ HeadRequest(s.withdraw_queue).receiver \notin BadReceivers
    /\ CanMintOrBurn
    /\ CanSettlePayout(Payout(s), TRUE)
    /\ vault' = SettlePayout(Payout(s), TRUE)
    /\ held' = IF HeadRequest(s.withdraw_queue).receiver = SELF THEN held
               ELSE held - HeadRequest(s.withdraw_queue).expected
    /\ shares' = [sh EXCEPT ![SELF] = @ - HeadRequest(s.withdraw_queue).escrow]

\* Mutant: the escrow of a failed payout stays with the vault.
SettleWithdrawalKeepsEscrow(s, sh) ==
    \E success \in {HeadRequest(s.withdraw_queue).receiver \notin BadReceivers} :
        /\ CanTransfer(IF success THEN {} ELSE {HeadRequest(s.withdraw_queue).owner})
        /\ CanSettlePayout(Payout(s), success)
        /\ vault' = SettlePayout(Payout(s), success)
        /\ held' = IF ~success \/ HeadRequest(s.withdraw_queue).receiver = SELF THEN held
                   ELSE held - HeadRequest(s.withdraw_queue).expected
        /\ shares' = [sh EXCEPT ![SELF] = IF success THEN @
                                          ELSE @ - HeadRequest(s.withdraw_queue).escrow]

\* complete_withdrawal_from_idle: an asset transfer that fails settles as a
\* failure, which refunds the escrow; a share token that refuses to burn it or to
\* give it back fails the transaction.
SettleWithdrawal(s, sh) ==
    \E success \in {HeadRequest(s.withdraw_queue).receiver \notin BadReceivers} :
        /\ CanTransfer(IF success THEN {} ELSE {HeadRequest(s.withdraw_queue).owner})
        /\ CanSettlePayout(Payout(s), success)
        /\ vault' = SettlePayout(Payout(s), success)
        /\ held' = IF ~success \/ HeadRequest(s.withdraw_queue).receiver = SELF THEN held
                   ELSE held - HeadRequest(s.withdraw_queue).expected
        /\ shares' = IF success THEN [sh EXCEPT ![SELF] = @ - HeadRequest(s.withdraw_queue).escrow]
                     ELSE [sh EXCEPT ![SELF] = @ - HeadRequest(s.withdraw_queue).escrow,
                                     ![HeadRequest(s.withdraw_queue).owner] =
                                            @ + HeadRequest(s.withdraw_queue).escrow]

\* Drops what has to be skipped, then pays the head out if it is ready; an
\* error when there is neither.
ExecuteWithdraw ==
    /\ ~paused
    /\ vault.op_state = Idle
    /\ vault.next_op_id < MaxOpId
    /\ \E ids \in {Skipped(vault.withdraw_queue, restrictions)} :
        \E s \in {[vault EXCEPT !.withdraw_queue = Dequeue(@, ids)]} :
            /\ ids # {} => CanTransfer({vault.withdraw_queue.pending[id].owner : id \in ids})
            /\ \/ /\ IsReady(s, now)
                  /\ SettleWithdrawal(s, Refund(ids))
               \/ /\ ~IsReady(s, now)
                  /\ ids # {}
                  /\ vault' = s
                  /\ shares' = Refund(ids)
                  /\ held' = held
    /\ UNCHANGED <<markets, policy, clocks>>

-----------------------------------------------------------------------------
(* The allocator.                                                          *)

CapsHold(m, candidate) ==
    /\ candidate <= MarketCap
    /\ Sum(principal) - principal[m] + candidate <= GroupCap
    /\ \A f \in GroupShare :
            Sum(principal) - principal[m] + candidate <= Rate(f, vault.total_assets)

\* The adapter turns the tokens it gets into a position that may be worth less;
\* what it then reports must lie between the old principal and the amount on top.
AllocateSupply(m, amount, received) ==
    /\ ~paused
    /\ vault.next_op_id < MaxOpId
    /\ CapsHold(m, principal[m] + amount)
    /\ CanBeginAllocating(vault, amount)
    /\ held >= amount
    /\ value' = [value EXCEPT ![m] = @ + received]
    /\ value'[m] >= principal[m] /\ value'[m] <= principal[m] + amount
    /\ CapsHold(m, value'[m])
    /\ principal' = [principal EXCEPT ![m] = value'[m]]
    /\ observed' = [observed EXCEPT ![m] = now]
    /\ CanSyncExternalAssets(BeginAllocating(vault, amount), Sum(principal'))
    /\ vault' = Finish(SyncExternalAssets(BeginAllocating(vault, amount), Sum(principal')))
    /\ held' = held - amount
    /\ UNCHANGED <<shares, policy, clocks>>

\* What is left in the market is observed, not computed from the books.
WithdrawnPrincipal(m, realized) == value[m] - realized

\* Marks the market at what it turned out to be worth, then moves what came
\* back to the idle assets.
AllocateWithdraw(m, realized) ==
    /\ ~paused
    /\ vault.next_op_id < MaxOpId
    /\ CanBeginAllocating(vault, 0)
    /\ value' = [value EXCEPT ![m] = @ - realized]
    /\ principal' = [principal EXCEPT ![m] = WithdrawnPrincipal(m, realized)]
    /\ observed' = [observed EXCEPT ![m] = now]
    /\ CanSyncExternalAssets(vault, Sum(principal') + realized)
    /\ \E s \in {SyncExternalAssets(BeginAllocating(vault, 0), Sum(principal') + realized)} :
            /\ CanRebalanceWithdraw(s, realized)
            /\ vault' = Finish(RebalanceWithdraw(s, realized))
    /\ held' = held + realized
    /\ held' <= MaxHeld
    /\ UNCHANGED <<shares, policy, clocks>>

\* Mutant: an observation of some of the markets counts as one of all.
CoversAllPrincipalOfSome(ms) == TRUE

CoversAllPrincipal(ms) == \A m \in Markets : principal[m] = 0 \/ m \in ms

RefreshMarkets(ms) ==
    /\ ~paused
    /\ ms # {}
    /\ vault.op_state = Idle
    /\ vault.next_op_id < MaxOpId
    /\ \A m \in ms : value[m] <= MarketCap
    /\ principal' = [m \in Markets |-> IF m \in ms THEN value[m] ELSE principal[m]]
    /\ observed' = [m \in Markets |-> IF m \in ms THEN now ELSE observed[m]]
    /\ CanSyncExternalAssets(vault, Sum(principal'))
    /\ vault' = Finish(SyncExternalAssets(BeginRefreshing(vault), Sum(principal')))
    /\ nav_refreshed' = IF CoversAllPrincipal(ms) THEN now ELSE nav_refreshed
    /\ UNCHANGED <<tokens, value, policy, now, idle_resync_last>>

-----------------------------------------------------------------------------
(* Public upkeep and governance.                                           *)

RefreshVaultFees ==
    /\ ~paused
    /\ vault.op_state = Idle
    /\ \E s \in {FeesSettled} :
        \E fresh \in {IF FeesAreDue(vault, fees, now) \/ held # vault.idle_assets
                      THEN ReconcileIdle(s, held) ELSE RefreshFees(vault, fees, now)} :
            /\ \/ FeesAreDue(vault, fees, now) \/ held # vault.idle_assets
               \/ CanRefreshFees(vault, fees, now)
            /\ CanMintFees(fresh)
            /\ vault' = fresh
            /\ shares' = WithFees(fresh)
    /\ UNCHANGED <<held, markets, policy, clocks>>

ResyncIdleBalance ==
    /\ ~paused
    /\ vault.op_state = Idle
    /\ idle_resync_last # 0 => now - idle_resync_last >= IdleResyncCooldown
    /\ CanMintFees(Reconciled)
    /\ vault' = Reconciled
    /\ shares' = WithFees(vault')
    /\ idle_resync_last' = now
    /\ UNCHANGED <<held, markets, policy, now, nav_refreshed>>

SetPaused(flag) ==
    /\ paused' = flag
    /\ UNCHANGED <<vault, tokens, markets, restrictions, fees, share_token, clocks>>

SetRestrictions(r) ==
    /\ restrictions' = r
    /\ UNCHANGED <<vault, tokens, markets, paused, fees, share_token, clocks>>

\* The window that ends is settled under the old fees.
SetFees(spec) ==
    /\ vault.op_state = Idle
    /\ \E s \in {FeesSettled} :
            /\ CanMintFees(s)
            /\ vault' = IF now > s.fee_anchor.timestamp
                        THEN [s EXCEPT !.fee_anchor = [total_assets |-> s.total_assets,
                                                       timestamp |-> now]]
                        ELSE s
            /\ shares' = WithFees(s)
    /\ fees' = spec
    /\ UNCHANGED <<held, markets, paused, restrictions, share_token, clocks>>

-----------------------------------------------------------------------------
(* The share token.                                                        *)

SetTokenPaused(flag) ==
    /\ share_token' = [share_token EXCEPT !.paused = flag]
    /\ UNCHANGED <<vault, tokens, markets, paused, restrictions, fees, clocks>>

SetTokenRestrictions(r) ==
    /\ share_token' = [share_token EXCEPT !.restrictions = r]
    /\ UNCHANGED <<vault, tokens, markets, paused, restrictions, fees, clocks>>

\* A holder's own transfer, also to the vault by mistake.
TransferShares(from, to, amount) ==
    /\ from # to
    /\ CanTransfer({from, to})
    /\ shares[from] >= amount
    /\ shares' = [shares EXCEPT ![from] = @ - amount, ![to] = @ + amount]
    /\ UNCHANGED <<vault, held, markets, policy, clocks>>

-----------------------------------------------------------------------------
(* The environment.                                                        *)

Donate(amount) ==
    /\ held + amount <= MaxHeld
    /\ held' = held + amount
    /\ UNCHANGED <<vault, shares, markets, policy, clocks>>

Gain(m) ==
    /\ value[m] > 0 /\ value[m] < principal[m] + MaxGain
    /\ value' = [value EXCEPT ![m] = @ + 1]
    /\ UNCHANGED <<vault, tokens, principal, observed, policy, clocks>>

Loss(m) ==
    /\ value[m] > 0
    /\ value' = [value EXCEPT ![m] = @ - 1]
    /\ UNCHANGED <<vault, tokens, principal, observed, policy, clocks>>

Tick ==
    /\ now < MaxTime
    /\ now' = now + 1
    /\ UNCHANGED <<vault, tokens, markets, policy, nav_refreshed, idle_resync_last>>

Next ==
    \/ \E o \in Users, r \in Receivers, x \in Amounts : DepositAssets(o, r, x)
    \/ \E o \in Holders, r \in Receivers, x \in Amounts : RequestWithdrawal(o, r, x)
    \/ \E o \in Holders, r \in Receivers, x \in Amounts : AtomicWithdrawAssets(o, r, x)
    \/ \E o \in Holders, r \in Receivers, x \in Amounts : AtomicRedeemShares(o, r, x)
    \/ ExecuteWithdraw
    \/ \E m \in Markets, x \in Amounts : \E got \in {x, x - 1} : AllocateSupply(m, x, got)
    \/ \E m \in Markets, x \in Amounts : \E got \in 0..Least(x, value[m]) :
            AllocateWithdraw(m, got)
    \/ \E ms \in SUBSET Markets : RefreshMarkets(ms)
    \/ RefreshVaultFees
    \/ ResyncIdleBalance
    \/ \E flag \in BOOLEAN : SetPaused(flag)
    \/ \E r \in RestrictionSpecs : SetRestrictions(r)
    \/ \E f \in FeeSpecs : SetFees(f)
    \/ \E flag \in TokenPauses : SetTokenPaused(flag)
    \/ \E r \in TokenRestrictionSpecs : SetTokenRestrictions(r)
    \/ \E a \in Holders, b \in Receivers, x \in Amounts : TransferShares(a, b, x)
    \/ \E x \in Amounts : Donate(x)
    \/ \E m \in Markets : Gain(m) \/ Loss(m)
    \/ Tick

Spec == Init /\ [][Next]_vars

\* Anybody may execute the queue, time passes.
LiveSpec == Spec /\ WF_vars(ExecuteWithdraw) /\ WF_vars(Tick)

-----------------------------------------------------------------------------
Request == [owner : Accounts, receiver : Accounts, escrow : Nat, expected : Nat,
            requested_at : Nat]

\* The kernel state, the share ledger, the token balance and what is known of the
\* markets have the shape the code gives them.
TypeOK ==
    /\ vault.total_assets \in Nat /\ vault.total_shares \in Nat
    /\ vault.idle_assets \in Nat /\ vault.external_assets \in Nat
    /\ vault.fee_anchor \in [total_assets : Nat, timestamp : Nat]
    /\ vault.next_op_id \in Nat
    /\ \A id \in DOMAIN vault.withdraw_queue.pending :
            id \in Nat /\ vault.withdraw_queue.pending[id] \in Request
    /\ shares \in [Accounts -> Nat] /\ held \in Nat
    /\ value \in [Markets -> Nat] /\ principal \in [Markets -> Nat]
    /\ observed \in [Markets -> Nat]
    /\ paused \in BOOLEAN /\ now \in Nat /\ nav_refreshed \in 0..now
    /\ idle_resync_last \in 0..now

\* Between transactions no operation is in flight and the books add up: what the
\* kernel takes for total assets is what is idle and what is in the markets
\* (kernel VaultState, check_invariant).
BooksBalance ==
    /\ vault.op_state = Idle
    /\ vault.total_assets = vault.idle_assets + vault.external_assets

\* The state has its shape, and what the kernel counts as external is what was
\* last observed of each market, however supplies, withdrawals and partial
\* refreshes of the markets alternate (complete_supply_allocation,
\* complete_withdraw_allocation, complete_refresh_with_positions).
ExternalIsObserved ==
    /\ TypeOK
    /\ vault.external_assets = Sum(principal)

\* What the kernel believes to be idle is held by the vault, so that a payout the
\* kernel admits cannot fail for want of tokens (entrypoints.rs allocate_impl,
\* reconcile_fees_and_current_idle_balance; curator_vault.rs
\* complete_withdrawal_from_idle).
IdleBacked == vault.idle_assets <= held

\* The waiting requests are those from the next one to execute on, without a gap,
\* and the cached totals are the totals (queue check_invariants, dequeue).
QueueExact ==
    LET q == vault.withdraw_queue
    IN  /\ DOMAIN q.pending = q.next_withdraw_to_execute..(q.next_pending_withdrawal_id - 1)
        /\ q.escrow = Escrow(q, DOMAIN q.pending)
        /\ q.expected = Expected(q, DOMAIN q.pending)

\* The supply the kernel prices shares with is the supply of the share token, and
\* the vault holds every share that a waiting request has put in escrow, whatever
\* was skipped, paid, refunded or sent to the vault by mistake.
SharesBacked ==
    /\ vault.total_shares = Sum(shares)
    /\ shares[SELF] >= vault.withdraw_queue.escrow

\* When the vault says that it has seen its markets at some time, no market with
\* money in it was last seen before: the age that admits a deposit
\* (deposit_with_min_impl) bounds the age of every price in the total.
NavIsAsFreshAsClaimed == \A m \in Markets : principal[m] > 0 => observed[m] >= nav_refreshed

\* A share of t is worth at least what a share of s is worth.
PriceAtLeast(t, s) ==
    EffectiveAssets(t) * EffectiveSupply(s) >= EffectiveAssets(s) * EffectiveSupply(t)

\* Nobody's entry, exit, request, donation, transfer or upkeep makes the shares of
\* the others worth less, fees that are due anyway aside: conversions round for
\* the vault.  Only an operation may, which observes a market anew or pays out what
\* was agreed on earlier.
HoldersKeepTheirPrice ==
    [][vault'.next_op_id = vault.next_op_id => PriceAtLeast(vault', FeesSettled)]_vars

\* What a performance fee would be taken of.
Profit == Minus(vault.total_assets, vault.fee_anchor.total_assets)

\* Only an observation of a market makes a profit: deposits, donations, exits,
\* payouts, upkeep and changes of the fees never add to what performance fees are
\* taken of (FeeAccrualAnchor, reconcile_actual_idle_assets).
NoFeeWithoutGain == [][UNCHANGED <<value, principal>> => Profit' <= Profit]_vars

\* The share token is paused, or there is a request that it does not let the
\* vault refund although a refund is the only way it can end: its owner is
\* restricted there, and it is to be skipped or its receiver cannot be paid.
RefundRefused ==
    \/ share_token.paused
    \/ \E id \in DOMAIN vault.withdraw_queue.pending :
            LET r == vault.withdraw_queue.pending[id]
            IN  /\ IsRestricted(share_token.restrictions, r.owner)
                /\ r.receiver \in BadReceivers \/ MustSkip(r, restrictions)

\* A waiting request is eventually settled, whoever receives and whatever is in
\* front of it, if the vault does not stay paused and the share token does not stay
\* in the way of a refund (complete_withdrawal_from_idle: a receiver that cannot be
\* paid "must not wedge the FIFO queue").  An owner whom the token restricts is
\* served all the same as long as a payout needs no refund.
RequestsServed ==
    (<>[](~paused /\ ~RefundRefused)) =>
        \A id \in 0..(MaxRequests - 1) :
            id \in DOMAIN vault.withdraw_queue.pending
                ~> id \notin DOMAIN vault.withdraw_queue.pending
=============================================================================
