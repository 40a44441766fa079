--------------------------- MODULE NearVaultSystem ---------------------------
(***************************************************************************)
(* The NEAR vault among the contracts it calls.  Entry points are          *)
(* transactions; one that panics does nothing and is no step.  Callbacks   *)
(* run when the token or a market has answered.                            *)
(*                                                                         *)
(* The token handles the vault's receipts in the order they were sent, and *)
(* the vault sees the token's in the order they were made; receipts of     *)
(* different contracts interleave freely.  A market's payout and a refund  *)
(* of a supply it does not take are one step with the answer to the vault. *)
(***************************************************************************)
EXTENDS NearVault

CONSTANTS Amounts,             \* amounts of deposits, allocations and requests
          Routes,              \* routes the allocator passes
          Payees,              \* accounts that shares are sent to
          MaxHeld,             \* bound on the tokens the vault and its positions hold
          MaxWork,             \* bound on operations and withdrawal requests together
          MaxLeases,           \* bound on fencing tokens
          MaxReceipts,         \* bound on receipts between vault and token
          MaxTime,             \* bound on block time
          MaxMishaps           \* bound on failing receipts and calls of unbrick

ASSUME SystemAssumption ==
    /\ Markets \subseteq Nat /\ Amounts \subseteq Nat \ {0}
    /\ \A route \in Routes : IsInjective(route) /\ Range(route) \subseteq Markets
    /\ Payees \subseteq Accounts
    /\ MaxMishaps \in Nat

Send(r) ==
    /\ vault' = r.vault
    /\ to_token' = to_token \o r.token
    /\ calls' = calls \union r.market

Held == balance + MapThenSumSet(LAMBDA m : position[m] + yield[m], Markets)

MoreWork ==
    (vault.next_op_id - 1) + vault.withdraw_queue.next_pending_withdrawal_id < MaxWork

-----------------------------------------------------------------------------
(* Entry points.                                                           *)

\* A user asks to exit with shares, or for an amount that shares are computed from.
Redeem(user, receiver, shares) ==
    LET s == InternalAccrueFee(vault)
        expected == ConvertToRedeemAssets(Mirror(s), shares)
        k == RequestWithdraw(Mirror(s), user, receiver, shares, expected, now)
    IN  /\ vault.idle_resync_inflight_op_id = 0
        /\ ~AccruePanics(vault)
        /\ 0 < shares /\ shares <= vault.shares[user]
        /\ expected > 0
        /\ CanRequestWithdraw(Mirror(s), shares, expected)
        /\ vault' = [s EXCEPT !.shares[user] = @ - shares, !.shares[SELF] = @ + shares,
                              !.withdraw_queue = k.withdraw_queue,
                              !.address_book = (@ \union {user, receiver})
                                    \intersect LiveAccounts(k.withdraw_queue, s.op_state)]
        /\ UNCHANGED <<now, balance, position, yield, requested, to_token, to_vault, calls,
                       replies, delivered, mishaps>>

RedeemShares(user, receiver, shares) ==
    /\ MoreWork
    /\ Redeem(user, receiver, shares)

Withdraw(user, receiver, amount) ==
    /\ MoreWork
    /\ Redeem(user, receiver,
              ConvertToWithdrawShares(Mirror(InternalAccrueFee(vault)), amount))

\* Shares are an ordinary token: a holder may send them to anybody but a market,
\* and so to the vault itself by mistake.
TransferShares(from, to, amount) ==
    /\ from # to
    /\ amount <= vault.shares[from]
    /\ vault' = [vault EXCEPT !.shares[from] = @ - amount, !.shares[to] = @ + amount,
                              !.strays = IF to = SELF THEN @ + amount ELSE @]
    /\ UNCHANGED <<now, balance, position, yield, requested, to_token, to_vault, calls,
                   replies, delivered, mishaps>>

\* An operation starts only in Idle, and accrues fees first.
MayStart == vault.op_state = Idle /\ MoreWork

Rest == <<now, balance, position, yield, requested, to_vault, replies, delivered>>

\* The route is used once the head of the queue has cooled down.  Every request
\* is worth something (Redeem), so none is skipped as dust.
ExecuteWithdrawal(route) ==
    LET s == InternalAccrueFee(vault)
        cooled == HasHead(s.withdraw_queue)
                  /\ now >= HeadRequest(s.withdraw_queue).requested_at + WithdrawalCooldown
    IN  /\ MayStart
        /\ Send(IF cooled THEN StartWithdraw(s, route) ELSE Done(s))
        /\ UNCHANGED <<Rest, mishaps>>

ExecuteMarketWithdrawal(m) ==
    LET op == vault.op_state
        at == CHOOSE i \in DOMAIN vault.withdraw_route : vault.withdraw_route[i] = m
        s == [vault EXCEPT !.op_state.index = at - 1]
    IN  /\ op.kind = "Withdrawing"
        /\ vault.next_fencing_token <= MaxLeases
        /\ IF m \notin Range(vault.withdraw_route) THEN Send(StopAndExit(vault))
           ELSE /\ MayLock(vault, m, op.op_id)
                /\ Send(AsksToken(Lock(s, m, op.op_id),
                                  BalanceOf([at |-> "withdraw_01", chain |-> "withdraw",
                                             market |-> m, op_id |-> op.op_id,
                                             fencing_token |-> s.next_fencing_token])))
        /\ UNCHANGED <<Rest, mishaps>>

ExecuteRebalanceWithdrawal(m) ==
    LET s == InternalAccrueFee(vault)
    IN  /\ MayStart
        /\ vault.next_fencing_token <= MaxLeases
        /\ s.principal[m] > 0
        /\ MayLock(s, m, s.next_op_id)
        /\ Send(AsksToken(SetOpState([Lock(s, m, s.next_op_id) EXCEPT !.next_op_id = @ + 1],
                                     Placeholder(s.next_op_id)),
                          BalanceOf([at |-> "withdraw_01", chain |-> "rebalance", market |-> m,
                                     op_id |-> s.next_op_id,
                                     fencing_token |-> s.next_fencing_token,
                                     before_principal |-> s.principal[m]])))
        /\ UNCHANGED <<Rest, mishaps>>

RefreshMarkets(markets) ==
    /\ MayStart
    /\ markets # {}
    /\ vault.last_refresh_ns # 0 => now >= vault.last_refresh_ns + RefreshCooldown
    /\ Send(RefreshStep(
            [SetOpState(vault, [kind |-> "Refreshing", op_id |-> vault.next_op_id, index |-> 0,
                                plan |-> SetToSortSeq(markets, <)])
             EXCEPT !.next_op_id = @ + 1]))
    /\ UNCHANGED <<Rest, mishaps>>

ResyncIdleBalance ==
    LET s == InternalAccrueFee(vault)
    IN  /\ MayStart
        /\ vault.idle_resync_inflight_op_id = 0
        /\ now - vault.idle_resync_last_ns >= ResyncCooldown
        /\ Send(AsksToken(
                [SetOpState(s, Placeholder(s.next_op_id))
                 EXCEPT !.next_op_id = @ + 1, !.idle_resync_last_ns = now,
                        !.idle_resync_inflight_op_id = s.next_op_id],
                BalanceOf([at |-> "resync_01", op_id |-> s.next_op_id,
                           before_idle |-> s.idle_balance])))
        /\ UNCHANGED <<Rest, mishaps>>

AllocateSupply(m, amount) ==
    LET s == InternalAccrueFee(vault)
    IN  /\ MayStart
        /\ Send(StartAllocation(s, m, Least(amount, Least(s.idle_balance, GetMaxDeposit(s)))))
        /\ UNCHANGED <<Rest, mishaps>>

\* The request stays at the market; the vault's callback changes nothing.
AllocateWithdraw(m, amount) ==
    LET s == InternalAccrueFee(vault)
        to_request == Least(s.principal[m], amount)
    IN  /\ MayStart
        /\ to_request > 0
        /\ Send(AsksMarket(s, [kind |-> "create_supply_withdrawal_request", market |-> m,
                               amount |-> to_request]))
        /\ UNCHANGED <<Rest, mishaps>>

\* determine_recovery_action, forced: the operation is aborted whatever its age,
\* and a payout counts as failed unless its answer comes first.
Unbrick ==
    /\ mishaps < MaxMishaps
    /\ mishaps' = mishaps + 1
    /\ vault.op_state # Idle
    /\ Len(to_token) + Len(to_vault) < MaxReceipts
    /\ Send(StopAndExit(vault))
    /\ UNCHANGED Rest

-----------------------------------------------------------------------------
(* The token contract (external): it handles the vault's receipts one by   *)
(* one, and may fail any of them.                                          *)

Asked(kind) == to_token # <<>> /\ Head(to_token).kind = kind
Answer(result) ==
    to_vault' = Append(to_vault, [kind |-> "answer", then |-> Head(to_token).then,
                                  result |-> result])
ContractRest == <<vault, now, yield, requested, replies>>

\* The answer of an external call: its outcome, or, within the bound, a failure.
Or(outcome) == IF mishaps < MaxMishaps THEN {outcome, Failed} ELSE {outcome}
Counted(result) ==
    mishaps' = IF result = Failed THEN Least(mishaps + 1, MaxMishaps) ELSE mishaps

TokenBalanceOf ==
    /\ Asked("balance_of")
    /\ \E result \in Or(balance) : Answer(result) /\ Counted(result)
    /\ to_token' = Tail(to_token)
    /\ UNCHANGED <<balance, position, calls, delivered>> /\ UNCHANGED ContractRest

TokenTransfer ==
    LET receipt == Head(to_token)
    IN  /\ Asked("transfer")
        /\ \E result \in Or(IF receipt.amount <= balance THEN receipt.amount ELSE Failed) :
              /\ Answer(result) /\ Counted(result)
              /\ IF result = Failed THEN UNCHANGED <<balance, delivered>>
                 ELSE /\ balance' = balance - receipt.amount
                      /\ delivered' = delivered \union {receipt.request}
        /\ to_token' = Tail(to_token)
        /\ UNCHANGED <<position, calls>> /\ UNCHANGED ContractRest

\* The tokens are the market's while it decides; a transfer that fails is
\* answered at once.
TokenTransferCall ==
    LET receipt == Head(to_token)
    IN  /\ Asked("transfer_call")
        /\ \E result \in Or(IF receipt.amount <= balance THEN receipt.amount ELSE Failed) :
              /\ Counted(result)
              /\ IF result = Failed THEN Answer(Failed) /\ UNCHANGED <<balance, calls>>
                 ELSE /\ balance' = balance - receipt.amount
                      /\ calls' = calls \union
                            {[kind |-> "ft_on_transfer", market |-> receipt.market,
                              amount |-> receipt.amount, then |-> receipt.then]}
                      /\ UNCHANGED to_vault
        /\ to_token' = Tail(to_token)
        /\ UNCHANGED <<position, delivered>> /\ UNCHANGED ContractRest

\* ft_resolve_transfer of a deposit: what the vault did not use goes back.
TokenRefund ==
    /\ Asked("resolve")
    /\ balance' = Minus(balance, Head(to_token).unused)
    /\ to_token' = Tail(to_token)
    /\ UNCHANGED <<position, to_vault, calls, delivered, mishaps>> /\ UNCHANGED ContractRest

\* A user deposits with ft_transfer_call, or donates with ft_transfer.
Deposits(user, amount) ==
    /\ Held + amount <= MaxHeld
    /\ Len(to_token) + Len(to_vault) < MaxReceipts
    /\ balance' = balance + amount
    /\ to_vault' = Append(to_vault, [kind |-> "ft_on_transfer", user |-> user,
                                     amount |-> amount])
    /\ UNCHANGED <<position, to_token, calls, delivered, mishaps>> /\ UNCHANGED ContractRest

Donates ==
    /\ Held < MaxHeld
    /\ balance' = balance + 1
    /\ UNCHANGED <<position, to_token, to_vault, calls, delivered, mishaps>>
    /\ UNCHANGED ContractRest

-----------------------------------------------------------------------------
(* The markets, seen from the vault.  A supply is taken whole or not at    *)
(* all, and yield is paid out before the deposit.  Reading a position may  *)
(* fail.                                                                   *)

Found(m) == IF position'[m] + yield'[m] = 0 THEN Missing ELSE position'[m]
Reply(call) ==
    \E result \in Or(Found(call.market)) :
        /\ Counted(result)
        /\ replies' = replies \union {[market |-> call.market, then |-> call.then,
                                       result |-> result]}

MarketTakesSupply(m) ==
    \E call \in calls, taken \in BOOLEAN :
        /\ call.market = m /\ call.kind = "ft_on_transfer"
        /\ calls' = calls \ {call}
        /\ position' = IF taken THEN [position EXCEPT ![m] = @ + call.amount] ELSE position
        /\ balance' = IF taken THEN balance ELSE balance + call.amount
        /\ to_vault' = Append(to_vault, [kind |-> "answer", then |-> call.then,
                                         result |-> IF taken THEN call.amount ELSE 0])
        /\ UNCHANGED <<to_token, delivered, mishaps>> /\ UNCHANGED ContractRest

MarketReadsPosition(m) ==
    \E call \in calls :
        /\ call.market = m /\ call.kind = "get_supply_position"
        /\ calls' = calls \ {call}
        /\ UNCHANGED <<vault, now, balance, position, yield, requested, to_token, to_vault,
                       delivered>>
        /\ Reply(call)

MarketTakesRequest(m) ==
    \E call \in calls :
        /\ call.market = m /\ call.kind = "create_supply_withdrawal_request"
        /\ calls' = calls \ {call}
        /\ requested' = [requested EXCEPT ![m] = Least(call.amount, position[m] + yield[m])]
        /\ UNCHANGED <<vault, now, balance, position, yield, to_token, to_vault, replies,
                       delivered, mishaps>>

\* The market pays any part of the open request, as its liquidity allows.
\* Its first step, the transfer and its last step are one here: the vault
\* hears of the request only when all three are done.
MarketExecutesRequest(m) ==
    \E call \in calls :
        /\ call.market = m /\ call.kind = "execute_next_supply_withdrawal_request"
        /\ calls' = calls \ {call}
        /\ \E paid \in 0..requested[m] :
              /\ yield' = [yield EXCEPT ![m] = Minus(@, paid)]
              /\ position' = [position EXCEPT ![m] = @ - Minus(paid, yield[m])]
              /\ requested' = [requested EXCEPT ![m] = @ - paid]
              /\ balance' = balance + paid
        /\ UNCHANGED <<vault, now, to_token, to_vault, delivered>>
        /\ Reply(call)

MarketEarnsYield(m) ==
    /\ position[m] > 0 /\ Held < MaxHeld
    /\ yield' = [yield EXCEPT ![m] = @ + 1]
    /\ UNCHANGED <<vault, now, balance, position, requested, to_token, to_vault, calls, replies,
                   delivered, mishaps>>

-----------------------------------------------------------------------------
(* Receipts that reach the vault.                                          *)

Callback(s, cb, result) ==
    CASE cb.at = "supply_01"        -> Supply01(s, cb, result)
      [] cb.at = "supply_02"        -> Supply02(s, cb, result)
      [] cb.at = "withdraw_01"      -> ExecuteWithdraw01(s, cb, result)
      [] cb.at = "withdraw_02"      -> ExecuteWithdraw02(s, cb, result)
      [] cb.at = "withdraw_03"      -> IF cb.chain = "withdraw"
                                       THEN ExecuteWithdraw03(s, cb, result)
                                       ELSE RebalanceWithdraw03(s, cb, result)
      [] cb.at = "payment_01"       -> Payment01(s, cb, result)
      [] cb.at = "payout_reconcile" -> PayoutReconcile(s, cb, result)
      [] cb.at = "refresh_01"       -> Refresh01(s, cb, result)
      [] cb.at = "resync_01"        -> Resync01(s, cb, result)

TokenAnswered ==
    /\ to_vault # <<>> /\ Head(to_vault).kind = "answer"
    /\ Send(Callback(vault, Head(to_vault).then, Head(to_vault).result))
    /\ to_vault' = Tail(to_vault)
    /\ UNCHANGED <<now, balance, position, yield, requested, replies, delivered, mishaps>>

MarketAnswered(m) ==
    \E reply \in replies :
        /\ reply.market = m
        /\ Send(Callback(vault, reply.then, reply.result))
        /\ replies' = replies \ {reply}
        /\ UNCHANGED <<now, balance, position, yield, requested, to_vault, delivered, mishaps>>

DepositArrives ==
    LET receipt == Head(to_vault)
        unused == receipt.amount - Accepts(vault, receipt.amount)
    IN  /\ to_vault # <<>> /\ receipt.kind = "ft_on_transfer"
        /\ vault' = OnTransfer(vault, receipt.user, receipt.amount)
        /\ to_vault' = Tail(to_vault)
        /\ to_token' = IF unused = 0 THEN to_token
                       ELSE Append(to_token, [kind |-> "resolve", unused |-> unused])
        /\ UNCHANGED <<now, balance, position, yield, requested, calls, replies, delivered,
                       mishaps>>

Tick ==
    /\ now < MaxTime
    /\ now' = now + 1
    /\ UNCHANGED <<vault, balance, position, yield, requested, to_token, to_vault, calls,
                   replies, delivered, mishaps>>

-----------------------------------------------------------------------------

NewVault ==
    [idle_balance |-> 0, principal |-> [m \in Markets |-> 0], op_state |-> Idle,
     next_op_id |-> 1, withdraw_queue |-> EmptyQueue, withdraw_route |-> <<>>,
     leases |-> [m \in Markets |-> NoLease], next_fencing_token |-> 1,
     idle_resync_inflight_op_id |-> 0, idle_resync_last_ns |-> 0, last_refresh_ns |-> 0,
     fee_anchor |-> [total_assets |-> 0, timestamp |-> now],
     shares |-> [a \in Accounts |-> 0], address_book |-> {},
     outcomes |-> [id \in {} |-> ""], strays |-> 0]

Init ==
    /\ now = 1
    /\ vault = NewVault
    /\ balance = 0
    /\ position = [m \in Markets |-> 0] /\ yield = [m \in Markets |-> 0]
    /\ requested = [m \in Markets |-> 0]
    /\ to_token = <<>> /\ to_vault = <<>> /\ calls = {} /\ replies = {}
    /\ delivered = {} /\ mishaps = 0

UserActs ==
    \/ \E user \in Users :
        \/ \E amount \in Amounts : Deposits(user, amount)
        \/ \E receiver \in Users, shares \in Amounts : RedeemShares(user, receiver, shares)
        \/ \E receiver \in Users, amount \in Amounts : Withdraw(user, receiver, amount)
    \/ \E from \in Accounts \ {SELF}, to \in Payees, shares \in Amounts :
            TransferShares(from, to, shares)

AllocatorActs ==
    \/ \E route \in Routes : ExecuteWithdrawal(route)
    \/ \E m \in Markets : ExecuteMarketWithdrawal(m)
    \/ \E m \in Markets : ExecuteRebalanceWithdrawal(m)
    \/ \E markets \in SUBSET Markets : RefreshMarkets(markets)
    \/ ResyncIdleBalance
    \/ \E m \in Markets, amount \in Amounts : AllocateSupply(m, amount)
    \/ \E m \in Markets, amount \in Amounts : AllocateWithdraw(m, amount)
    \/ Unbrick

TokenActs == TokenBalanceOf \/ TokenTransfer \/ TokenTransferCall \/ TokenRefund

MarketActs(m) ==
    \/ MarketTakesSupply(m)
    \/ MarketReadsPosition(m)
    \/ MarketTakesRequest(m)
    \/ MarketExecutesRequest(m)

VaultReceives == TokenAnswered \/ DepositArrives

Next ==
    \/ UserActs
    \/ AllocatorActs
    \/ TokenActs
    \/ \E m \in Markets : MarketActs(m) \/ MarketAnswered(m) \/ MarketEarnsYield(m)
    \/ VaultReceives
    \/ Donates
    \/ Tick

Spec == Init /\ [][Next]_vars
=============================================================================
