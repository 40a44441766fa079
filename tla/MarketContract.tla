--------------------------- MODULE MarketContract ---------------------------
(***************************************************************************)
(* The market contract (contract/market/src): the calls an account makes,  *)
(* and the callbacks that the oracle's and the tokens' receipts bring back *)
(* later, in any order.  Between a call and its callback the market goes on*)
(* serving others, so every step works on the state it finds.              *)
(*                                                                         *)
(* The oracle and the two token contracts are outside the repository: the  *)
(* oracle answers with any price of Prices or fails, a transfer succeeds   *)
(* or fails, and a transfer-call gives back what the market does not keep. *)
(* A receipt that panics leaves the market as it was.                      *)
(***************************************************************************)
EXTENDS SupplyPositions, BorrowPositions, Bags

\* What the environment offers to a behaviour, chosen once: the accounts, the
\* oracle's answers, the amounts that each kind of call may carry, the limits
\* that callers pass, the tokens in existence, and the bounds on time and on
\* receipts in flight.
CONSTANT Workloads

ASSUME ContractAssumption ==
    \A w \in Workloads :
        /\ \A call \in DOMAIN w.amounts : w.amounts[call] \subseteq Nat \ {0}
        /\ w.batch_limits \cup w.snapshot_limits \subseteq Nat \ {0}
        /\ {w.borrow_tokens, w.collateral_tokens, w.max_time, w.max_pending} \subseteq Nat

VARIABLES
    market,             \* the contract's state
    now,                \* current time chunk
    pending,            \* bag of the receipts in flight
    borrow_token,       \* the market's account at the borrow asset's contract
    collateral_token,   \* the market's account at the collateral's contract
    workload            \* the environment of this behaviour

vars == <<market, now, pending, borrow_token, collateral_token, workload>>

Suppliers == workload.suppliers
Borrowers == workload.borrowers
Prices == workload.prices
Amounts == workload.amounts
SnapshotLimits == workload.snapshot_limits  \* snapshots an accumulation call may pass over
BatchLimits == workload.batch_limits        \* batch limits of queue executions
BorrowTokens == workload.borrow_tokens      \* borrow asset in existence
CollateralTokens == workload.collateral_tokens
MaxTime == workload.max_time                \* last time chunk of a behaviour
MaxPending == workload.max_pending          \* receipts in flight at the same time

NoLimit == MaxTime      \* u32::MAX: there are never more snapshots

\* held: tokens on the market's account; escrow: the part a transfer-call has
\* put there without having been resolved; outgoing: the part that receipts in
\* flight are about to send; unclaimed: collateral a liquidator failed to take.
Init ==
    /\ workload \in Workloads
    /\ market = InitMarket(1)
    /\ now = 1
    /\ pending = EmptyBag
    /\ borrow_token = [held |-> 0, escrow |-> 0, outgoing |-> 0]
    /\ collateral_token = [held |-> 0, escrow |-> 0, outgoing |-> 0, unclaimed |-> 0]

Snapshotted == Snapshot(market, now)

Tick ==
    /\ now < MaxTime
    /\ now' = now + 1
    /\ UNCHANGED <<market, pending, borrow_token, collateral_token>>

-----------------------------------------------------------------------------
(* Receipts.                                                               *)

HasRoom == BagCardinality(pending) < MaxPending

Schedule(r) == pending' = pending (+) SetToBag({r})
Resolve(r) == pending' = pending (-) SetToBag({r})
Follow(r, s) == pending' = (pending (-) SetToBag({r})) (+) SetToBag({s})
Pending(kind) == {r \in BagToSet(pending) : r.kind = kind}

\* Tokens arrive with a transfer-call: the market accepts some of them, and the
\* rest goes back to the sender when the call is resolved.
Escrow(token, amount) == [token EXCEPT !.held = @ + amount, !.escrow = @ + amount]
Accept(token, amount) == [token EXCEPT !.escrow = @ - amount]
Return(token, amount) == [token EXCEPT !.held = @ - amount, !.escrow = @ - amount]

\* Tokens leave with a transfer; a transfer of nothing fails.
Send(token, amount) == [token EXCEPT !.outgoing = @ + amount]
Deliver(token, amount, success) ==
    [token EXCEPT !.outgoing = @ - amount, !.held = @ - (IF success THEN amount ELSE 0)]
Outcomes(amount) == IF amount > 0 THEN BOOLEAN ELSE {FALSE}

-----------------------------------------------------------------------------
(* Supply.                                                                 *)

RecordSupply(m, a, amount) ==
    /\ CanAddIncoming(m.supply_positions[a], SnapshotCount(m) + 1)
    /\ InRange(SupplyRange, TotalDeposit(m.supply_positions[a]) + amount)
    /\ market' = RecordDeposit(m, a, amount, now)

Supply(a, amount) ==
    /\ borrow_token.held + amount <= BorrowTokens
    /\ RecordSupply(AccumulateYield(GetOrCreateSupplyPosition(Snapshotted, a), a, NoLimit),
                    a, amount)
    /\ borrow_token' = [borrow_token EXCEPT !.held = @ + amount]
    /\ UNCHANGED <<now, pending, collateral_token>>

HarvestYield(a, limit) ==
    /\ market' = IF a \in DOMAIN market.supply_positions
                 THEN AccumulateYield(Snapshotted, a, limit) ELSE Snapshotted
    /\ UNCHANGED <<now, pending, borrow_token, collateral_token>>

Dequeue(queue, a) == SelectSeq(queue, LAMBDA r : r.account # a)

CreateSupplyWithdrawalRequest(a, amount) ==
    /\ a \in DOMAIN market.supply_positions
    /\ TotalDeposit(market.supply_positions[a]) >= amount
    /\ InRange(WithdrawalRange, amount)
    /\ market' = [market EXCEPT !.withdrawal_queue =
                    Append(Dequeue(@, a), [account |-> a, amount |-> amount])]
    /\ UNCHANGED <<now, pending, borrow_token, collateral_token>>

CancelSupplyWithdrawalRequest(a) ==
    /\ market' = [market EXCEPT !.withdrawal_queue = Dequeue(@, a)]
    /\ UNCHANGED <<now, pending, borrow_token, collateral_token>>

\* One turn of the loop over the queue.  `run.market` is the market so far,
\* `run.batch` the withdrawals to pay, `run.state` whether the loop goes on.
Popped(m) == [m EXCEPT !.withdrawal_queue = Tail(@)]

Attempted(run, attempt) ==
    CASE attempt.outcome = "EmptyPosition" -> [run EXCEPT !.market = Popped(attempt.market)]
      [] attempt.outcome = "NoLiquidity" ->
            [run EXCEPT !.market = attempt.market, !.state = "done"]
      [] attempt.outcome = "Full" ->
            [run EXCEPT !.market = Popped(attempt.market),
                        !.batch = Append(@, attempt.withdrawal)]
      [] attempt.outcome = "Partial" ->
            [market |-> [attempt.market EXCEPT !.withdrawal_queue[1].amount = attempt.remaining],
             batch  |-> Append(run.batch, attempt.withdrawal),
             state  |-> "done"]

TryWithdraw(run, m, head) ==
    IF CanRecordWithdrawalInitial(m, head.account, head.amount, now)
    THEN Attempted(run, RecordWithdrawalInitial(m, head.account, head.amount, now))
    ELSE [run EXCEPT !.state = "panic"]

ServeHead(run) ==
    LET head == Head(run.market.withdrawal_queue)
    IN  IF run.state # "running" THEN run
        ELSE IF run.market.withdrawal_queue = << >> THEN [run EXCEPT !.state = "done"]
        ELSE IF head.account \notin DOMAIN run.market.supply_positions
        THEN [run EXCEPT !.market = Popped(run.market)]
        ELSE TryWithdraw(run, AccumulateYield(run.market, head.account, NoLimit), head)

Serve[turns \in Nat] ==
    IF turns = 0 THEN [market |-> Snapshotted, batch |-> << >>, state |-> "running"]
    ELSE ServeHead(Serve[turns - 1])

PayBatch(run) ==
    /\ run.state # "panic"
    /\ market' = run.market
    /\ IF run.batch = << >>
       THEN UNCHANGED <<pending, borrow_token>>
       ELSE /\ HasRoom
            /\ Schedule([kind |-> "withdrawals", batch |-> run.batch])
            /\ borrow_token' = Send(borrow_token,
                    SumOver(DOMAIN run.batch, LAMBDA i : run.batch[i].to_account))
    /\ UNCHANGED <<now, collateral_token>>

ExecuteNextSupplyWithdrawalRequest(limit) == PayBatch(Serve[limit])

\* The callback settles the withdrawals of the batch one after the other.
ExecuteNextSupplyWithdrawalRequest01Finalize(r, success) ==
    LET batch == r.batch
        settle(m, i) ==
            LET w == batch[i]
                n == IF w.account \in DOMAIN m.supply_positions
                     THEN RecordWithdrawalFinal(m, w, success[i]) ELSE m
            IN  IF success[i] THEN CleanupSupplyPosition(n, w.account) ELSE n
        total(S) == SumOver(S, LAMBDA i : batch[i].to_account)
    IN  /\ market' = FoldLeftDomain(settle, Snapshotted, batch)
        /\ Resolve(r)
        /\ borrow_token' = [borrow_token EXCEPT
                !.outgoing = @ - total(DOMAIN batch),
                !.held = @ - total({i \in DOMAIN batch : success[i]})]
        /\ UNCHANGED <<now, collateral_token>>

-----------------------------------------------------------------------------
(* Static yield of the protocol account.                                   *)

AccumulateStaticYieldCall(limit) ==
    /\ market' = AccumulateStaticYield(market, limit)
    /\ UNCHANGED <<now, pending, borrow_token, collateral_token>>

WithdrawStaticYield(amount) ==
    /\ HasRoom
    /\ amount <= market.static_yield.total
    /\ amount <= market.balance
    /\ market' = [market EXCEPT !.static_yield.total = @ - amount, !.balance = @ - amount]
    /\ Schedule([kind |-> "static_yield", amount |-> amount])
    /\ borrow_token' = Send(borrow_token, amount)
    /\ UNCHANGED <<now, collateral_token>>

WithdrawStaticYield01Finalize(r, success) ==
    /\ market' = IF success THEN market
                 ELSE [market EXCEPT !.static_yield.total = @ + r.amount,
                                     !.balance = @ + r.amount]
    /\ Resolve(r)
    /\ borrow_token' = Deliver(borrow_token, r.amount, success)
    /\ UNCHANGED <<now, collateral_token>>

-----------------------------------------------------------------------------
(* Calls of borrowers, repayers and liquidators.  The ones that need a     *)
(* price ask the oracle and go on in a callback.                           *)

Collateralize(b, amount) ==
    /\ HasRoom
    /\ collateral_token.held + amount <= CollateralTokens
    /\ Schedule([kind |-> "collateralize", account |-> b, amount |-> amount])
    /\ collateral_token' = Escrow(collateral_token, amount)
    /\ UNCHANGED <<market, now, borrow_token>>

Repay(b, amount) ==
    /\ HasRoom
    /\ borrow_token.held + amount <= BorrowTokens
    /\ Schedule([kind |-> "repay", account |-> b, amount |-> amount])
    /\ borrow_token' = Escrow(borrow_token, amount)
    /\ UNCHANGED <<market, now, collateral_token>>

\* `request` is the collateral asked for; zero stands for none named.
Liquidate(b, amount, request) ==
    /\ HasRoom
    /\ borrow_token.held + amount <= BorrowTokens
    /\ Schedule([kind |-> "liquidate", account |-> b, amount |-> amount, request |-> request])
    /\ borrow_token' = Escrow(borrow_token, amount)
    /\ UNCHANGED <<market, now, collateral_token>>

Borrow(b, amount) ==
    /\ HasRoom
    /\ b \in DOMAIN market.borrow_positions
    /\ Schedule([kind |-> "borrow", account |-> b, amount |-> amount])
    /\ UNCHANGED <<market, now, borrow_token, collateral_token>>

\* Without liability there is no need for a price.
WithdrawCollateral(b, amount) ==
    LET acc == AccumulateInterest(Snapshotted, b, NoLimit)
    IN  /\ HasRoom
        /\ b \in DOMAIN market.borrow_positions
        /\ IF Liability(Snapshotted.borrow_positions[b]) = 0
           THEN /\ CanRecordCollateralWithdrawalInitial(acc, b, amount)
                /\ market' = RecordCollateralWithdrawalInitial(acc, b, amount)
                /\ Schedule([kind |-> "collateral_out", account |-> b, amount |-> amount])
                /\ collateral_token' = Send(collateral_token, amount)
           ELSE /\ market' = Snapshotted
                /\ Schedule([kind |-> "withdraw_collateral", account |-> b, amount |-> amount])
                /\ UNCHANGED collateral_token
        /\ UNCHANGED <<now, borrow_token>>

ApplyInterest(b, limit) ==
    /\ market' = IF b \in DOMAIN market.borrow_positions
                 THEN AccumulateInterest(Snapshotted, b, limit) ELSE Snapshotted
    /\ UNCHANGED <<now, pending, borrow_token, collateral_token>>

-----------------------------------------------------------------------------
(* Callbacks with a price.                                                 *)

PriceKinds == {"collateralize", "repay", "liquidate", "borrow", "withdraw_collateral"}

\* The oracle fails, or the callback panics: nothing is recorded, and what a
\* transfer-call brought goes back.
PriceCallbackFails(r) ==
    /\ Resolve(r)
    /\ collateral_token' = IF r.kind = "collateralize"
                           THEN Return(collateral_token, r.amount) ELSE collateral_token
    /\ borrow_token' = IF r.kind \in {"repay", "liquidate"}
                       THEN Return(borrow_token, r.amount) ELSE borrow_token
    /\ UNCHANGED <<market, now>>

CollateralizeTransferCall01ConsumePrice(r, price) ==
    LET b == r.account
        m == AccumulateInterest(GetOrCreateBorrowPosition(Snapshotted, b), b, NoLimit)
        n == RecordCollateralDeposit(m, b, r.amount)
    IN  /\ ~IsLiquidation(BorrowStatus(n.borrow_positions[b], price, now))
        /\ market' = n
        /\ Resolve(r)
        /\ collateral_token' = Accept(collateral_token, r.amount)
        /\ UNCHANGED <<now, borrow_token>>

AcceptRepayment(m, r, price, refund) ==
    /\ ~IsLiquidation(BorrowStatus(m.borrow_positions[r.account], price, now))
    /\ CanReduceLiability(m, r.account, r.amount)
    /\ market' = RecordRepay(m, r.account, r.amount)
    /\ borrow_token' = Return(Accept(borrow_token, r.amount - refund), refund)

RepayTransferCall01ConsumePrice(r, price) ==
    LET m == AccumulateInterest(Snapshotted, r.account, NoLimit)
    IN  /\ IF r.account \in DOMAIN market.borrow_positions
           THEN AcceptRepayment(m, r, price, RepayRefund(m, r.account, r.amount))
           ELSE /\ market' = Snapshotted
                /\ borrow_token' = Return(borrow_token, r.amount)
        /\ Resolve(r)
        /\ UNCHANGED <<now, collateral_token>>

Seize(m, r, price, recovered, liquidated) ==
    /\ CanRecordLiquidation(m, r.account, r.amount, liquidated, price, now)
    /\ CanReduceLiability(m, r.account, recovered)
    /\ market' = CleanupBorrowPosition(
                    RecordLiquidation(m, r.account, r.amount, recovered, liquidated), r.account)
    /\ Follow(r, [kind |-> "liquidated", collateral |-> liquidated,
                  refund |-> r.amount - recovered])
    /\ borrow_token' = Accept(borrow_token, recovered)
    /\ collateral_token' = Send(collateral_token, liquidated)

LiquidateTransferCall01ConsumePrice(r, price) ==
    LET m == AccumulateInterest(Snapshotted, r.account, NoLimit)
        liquidated == IF r.request # 0 THEN r.request
                      ELSE Liquidatable(m.borrow_positions[r.account], price, now)
    IN  /\ r.account \in DOMAIN market.borrow_positions
        /\ Seize(m, r, price, Recovered(r.amount, liquidated, price), liquidated)
        /\ UNCHANGED now

Borrow01ConsumePrice(r, price) ==
    LET b == r.account
        m == AccumulateInterest(Snapshotted, b, NoLimit)
    IN  /\ b \in DOMAIN market.borrow_positions
        /\ CanRecordBorrowInitial(m, b, r.amount, price, now)
        /\ market' = RecordBorrowInitial(m, b, r.amount)
        /\ Follow(r, [kind |-> "borrow_out", account |-> b, amount |-> r.amount])
        /\ borrow_token' = Send(borrow_token, r.amount)
        /\ UNCHANGED <<now, collateral_token>>

WithdrawCollateral01ConsumePrice(r, price) ==
    LET b == r.account
        m == AccumulateInterest(Snapshotted, b, NoLimit)
        n == RecordCollateralWithdrawalInitial(m, b, r.amount)
    IN  /\ b \in DOMAIN market.borrow_positions
        /\ CanRecordCollateralWithdrawalInitial(m, b, r.amount)
        /\ BorrowStatus(n.borrow_positions[b], price, now) = "Healthy"
        /\ market' = n
        /\ Follow(r, [kind |-> "collateral_out", account |-> b, amount |-> r.amount])
        /\ collateral_token' = Send(collateral_token, r.amount)
        /\ UNCHANGED <<now, borrow_token>>

-----------------------------------------------------------------------------
(* Callbacks after a transfer.                                             *)

Borrow02Finalize(r, success) ==
    /\ r.account \in DOMAIN market.borrow_positions
    /\ market' = RecordBorrowFinal(AccumulateInterest(Snapshotted, r.account, NoLimit),
                                   r.account, r.amount, success, now)
    /\ Resolve(r)
    /\ borrow_token' = Deliver(borrow_token, r.amount, success)
    /\ UNCHANGED <<now, collateral_token>>

WithdrawCollateral02Finalize(r, success) ==
    LET m == AccumulateInterest(Snapshotted, r.account, NoLimit)
        n == RecordCollateralWithdrawalFinal(m, r.account, r.amount, success)
    IN  /\ r.account \in DOMAIN market.borrow_positions
        /\ market' = IF success THEN CleanupBorrowPosition(n, r.account) ELSE n
        /\ Resolve(r)
        /\ collateral_token' = Deliver(collateral_token, r.amount, success)
        /\ UNCHANGED <<now, borrow_token>>

\* Whether the liquidator got the collateral or not, only the refund goes back;
\* collateral that was not taken stays with the market, on no one's account.
LiquidateTransferCall02Finalize(r, success) ==
    /\ market' = market
    /\ Resolve(r)
    /\ borrow_token' = Return(borrow_token, r.refund)
    /\ collateral_token' = [Deliver(collateral_token, r.collateral, success) EXCEPT
                              !.unclaimed = @ + (IF success THEN 0 ELSE r.collateral)]
    /\ UNCHANGED now

-----------------------------------------------------------------------------
SupplierCall ==
    \/ \E a \in Suppliers, x \in Amounts.supply : Supply(a, x)
    \/ \E a \in Suppliers, limit \in SnapshotLimits : HarvestYield(a, limit)
    \/ \E a \in Suppliers, x \in Amounts.request : CreateSupplyWithdrawalRequest(a, x)
    \/ \E a \in Suppliers : CancelSupplyWithdrawalRequest(a)
    \/ \E limit \in BatchLimits : ExecuteNextSupplyWithdrawalRequest(limit)
    \/ \E limit \in SnapshotLimits : AccumulateStaticYieldCall(limit)
    \/ \E x \in Amounts.static : WithdrawStaticYield(x)

BorrowerCall ==
    \/ \E b \in Borrowers, x \in Amounts.collateralize : Collateralize(b, x)
    \/ \E b \in Borrowers, x \in Amounts.repay : Repay(b, x)
    \/ \E b \in Borrowers, x \in Amounts.liquidate, y \in Amounts.seize \cup {0} :
           Liquidate(b, x, y)
    \/ \E b \in Borrowers, x \in Amounts.borrow : Borrow(b, x)
    \/ \E b \in Borrowers, x \in Amounts.withdraw_collateral : WithdrawCollateral(b, x)
    \/ \E b \in Borrowers, limit \in SnapshotLimits : ApplyInterest(b, limit)

PriceCallback ==
    \/ \E r \in BagToSet(pending) : r.kind \in PriceKinds /\ PriceCallbackFails(r)
    \/ \E r \in Pending("collateralize"), p \in Prices :
           CollateralizeTransferCall01ConsumePrice(r, p)
    \/ \E r \in Pending("repay"), p \in Prices : RepayTransferCall01ConsumePrice(r, p)
    \/ \E r \in Pending("liquidate"), p \in Prices : LiquidateTransferCall01ConsumePrice(r, p)
    \/ \E r \in Pending("borrow"), p \in Prices : Borrow01ConsumePrice(r, p)
    \/ \E r \in Pending("withdraw_collateral"), p \in Prices :
           WithdrawCollateral01ConsumePrice(r, p)

TransferCallback ==
    \/ \E r \in Pending("withdrawals") :
          \E success \in [DOMAIN r.batch -> BOOLEAN] :
              /\ \A i \in DOMAIN r.batch : success[i] \in Outcomes(r.batch[i].to_account)
              /\ ExecuteNextSupplyWithdrawalRequest01Finalize(r, success)
    \/ \E r \in Pending("static_yield") :
          \E success \in Outcomes(r.amount) : WithdrawStaticYield01Finalize(r, success)
    \/ \E r \in Pending("borrow_out") :
          \E success \in Outcomes(r.amount) : Borrow02Finalize(r, success)
    \/ \E r \in Pending("collateral_out") :
          \E success \in Outcomes(r.amount) : WithdrawCollateral02Finalize(r, success)
    \/ \E r \in Pending("liquidated") :
          \E success \in Outcomes(r.collateral) : LiquidateTransferCall02Finalize(r, success)

Next ==
    /\ Tick \/ SupplierCall \/ BorrowerCall \/ PriceCallback \/ TransferCallback
    /\ UNCHANGED workload

Spec == Init /\ [][Next]_vars
=============================================================================
