------------------------- MODULE SorobanLedgerProofs -------------------------
(***************************************************************************)
(* The ledgers of the Soroban vault, for any users, markets and bounds:    *)
(* the cached totals of the withdrawal queue, the supply of the share      *)
(* token and the principals of the markets are the sums they stand for.    *)
(***************************************************************************)
EXTENDS SorobanVaultProofs, FiniteSums

\* Leaves that name no prover go to SMT, with half a minute each, then to Zenon.
USE SMTT(30), Zenon

-----------------------------------------------------------------------------
(* The withdrawal queue.                                                   *)

\* A queue without gaps whose cached totals are exact.
ExactQueue(q) ==
    /\ q.next_withdraw_to_execute \in Nat /\ q.next_pending_withdrawal_id \in Nat
    /\ q.next_withdraw_to_execute <= q.next_pending_withdrawal_id
    /\ DOMAIN q.pending = q.next_withdraw_to_execute..(q.next_pending_withdrawal_id - 1)
    /\ \A id \in DOMAIN q.pending : q.pending[id] \in Request
    /\ q.escrow = Escrow(q, DOMAIN q.pending)
    /\ q.expected = Expected(q, DOMAIN q.pending)

\* The amounts of the waiting requests, the one way and the other.
EscrowOf(q) == [id \in DOMAIN q.pending |-> q.pending[id].escrow]
ExpectedOf(q) == [id \in DOMAIN q.pending |-> q.pending[id].expected]

\* Totals over part of the queue.
LEMMA QueueSums ==
    ASSUME NEW q, ExactQueue(q)
    PROVE  /\ IsFiniteSet(DOMAIN q.pending)
           /\ \A id \in DOMAIN q.pending : id \in Nat /\ EscrowOf(q)[id] \in Nat
                                                      /\ ExpectedOf(q)[id] \in Nat
           /\ \A ids \in SUBSET DOMAIN q.pending :
                 /\ Escrow(q, ids) \in Nat /\ Expected(q, ids) \in Nat
                 /\ Escrow(q, ids) <= q.escrow
<1>1. IsFiniteSet(DOMAIN q.pending)
    BY FS_Interval DEF ExactQueue
<1>2. \A id \in DOMAIN q.pending : id \in Nat /\ EscrowOf(q)[id] \in Nat
                                              /\ ExpectedOf(q)[id] \in Nat
    BY DEF ExactQueue, Request, EscrowOf, ExpectedOf
<1>3. ASSUME NEW ids \in SUBSET DOMAIN q.pending
      PROVE  /\ Escrow(q, ids) \in Nat /\ Expected(q, ids) \in Nat
             /\ Escrow(q, ids) <= q.escrow
    <2>1. IsFiniteSet(ids)
        BY <1>1, FS_Subset
    <2>2. /\ SumFunctionOnSet(EscrowOf(q), ids) \in Nat
          /\ SumFunctionOnSet(ExpectedOf(q), ids) \in Nat
        BY <1>2, <2>1, SumNat
    <2>3. SumFunctionOnSet(EscrowOf(q), ids) <= SumFunctionOnSet(EscrowOf(q), DOMAIN q.pending)
        BY <1>1, <1>2, SumPart
    <2> QED BY <2>2, <2>3 DEF ExactQueue, Escrow, Expected, EscrowOf, ExpectedOf
<1> QED BY <1>1, <1>2, <1>3

\* A new queue is exact (WithdrawQueue::new).
LEMMA EmptyQueueExact == ExactQueue(EmptyQueue)
<1>1. DOMAIN EmptyQueue.pending = {}
    BY DEF EmptyQueue
<1>2. Escrow(EmptyQueue, {}) = 0 /\ Expected(EmptyQueue, {}) = 0
    BY SumEmpty DEF Escrow, Expected
<1> QED BY <1>1, <1>2 DEF ExactQueue, EmptyQueue

\* A request at the end keeps it exact (enqueue).
LEMMA EnqueueExact ==
    ASSUME NEW q, ExactQueue(q), NEW r \in Request
    PROVE  /\ ExactQueue(Enqueue(q, r))
           /\ Enqueue(q, r).escrow = q.escrow + r.escrow
<1> DEFINE D == DOMAIN q.pending
           b == q.next_pending_withdrawal_id
           e == Enqueue(q, r)
<1>1. /\ DOMAIN e.pending = D \cup {b} /\ b \notin D /\ b \in Nat
      /\ e.next_withdraw_to_execute = q.next_withdraw_to_execute
      /\ e.next_pending_withdrawal_id = b + 1
      /\ e.escrow = q.escrow + r.escrow /\ e.expected = q.expected + r.expected
      /\ e.pending[b] = r
      /\ \A id \in D : e.pending[id] = q.pending[id]
    BY DEF Enqueue, ExactQueue
<1>2. D \cup {b} = q.next_withdraw_to_execute..b
    BY DEF ExactQueue
<1>3. r.escrow \in Nat /\ r.expected \in Nat
    BY DEF Request
<1>4. /\ IsFiniteSet(D)
      /\ \A id \in D : EscrowOf(q)[id] \in Nat /\ ExpectedOf(q)[id] \in Nat
    BY QueueSums
<1> HIDE DEF e, b
<1>5. /\ \A id \in D : EscrowOf(e)[id] = EscrowOf(q)[id] /\ ExpectedOf(e)[id] = ExpectedOf(q)[id]
      /\ EscrowOf(e)[b] = r.escrow /\ ExpectedOf(e)[b] = r.expected
    BY <1>1 DEF EscrowOf, ExpectedOf
<1> HIDE DEF D
<1>6. /\ SumFunctionOnSet(EscrowOf(e), D) = SumFunctionOnSet(EscrowOf(q), D)
      /\ SumFunctionOnSet(ExpectedOf(e), D) = SumFunctionOnSet(ExpectedOf(q), D)
    BY <1>4, <1>5, SumSame
<1>7. SumFunctionOnSet(EscrowOf(e), D \cup {b}) = SumFunctionOnSet(EscrowOf(e), D) + r.escrow
    BY <1>1, <1>3, <1>4, <1>5, SumAdd
<1>8. SumFunctionOnSet(ExpectedOf(e), D \cup {b}) = SumFunctionOnSet(ExpectedOf(e), D) + r.expected
    BY <1>1, <1>3, <1>4, <1>5, SumAdd
<1>9. e.escrow = Escrow(e, DOMAIN e.pending) /\ e.expected = Expected(e, DOMAIN e.pending)
    BY <1>1, <1>6, <1>7, <1>8 DEF ExactQueue, Escrow, Expected, EscrowOf, ExpectedOf, D
<1>10. \A id \in DOMAIN e.pending : e.pending[id] \in Request
    BY <1>1 DEF ExactQueue, D
<1>11. q.next_withdraw_to_execute \in Nat /\ q.next_withdraw_to_execute <= b
    BY DEF ExactQueue, b
<1>12. ExactQueue(e)
    BY <1>1, <1>2, <1>9, <1>10, <1>11 DEF ExactQueue
<1> QED BY <1>1, <1>12 DEF e

\* Requests of a run from the head on that leave keep it exact (dequeue).
LEMMA DequeueExact ==
    ASSUME NEW q, IsQueue(q), ExactQueue(q), NEW ids \in SUBSET DOMAIN q.pending,
           \A i \in ids, j \in DOMAIN q.pending : j <= i => j \in ids
    PROVE  /\ ExactQueue(Dequeue(q, ids))
           /\ Dequeue(q, ids).escrow = q.escrow - Escrow(q, ids)
           /\ DOMAIN Dequeue(q, ids).pending = DOMAIN q.pending \ ids
           /\ \A id \in DOMAIN q.pending \ ids : Dequeue(q, ids).pending[id] = q.pending[id]
<1> DEFINE D == DOMAIN q.pending
           R == D \ ids
           b == q.next_pending_withdrawal_id
           first == FirstOf(R, b)
           e == Dequeue(q, ids)
<1>1. /\ DOMAIN e.pending = R
      /\ e.next_withdraw_to_execute = first
      /\ e.next_pending_withdrawal_id = b
      /\ e.escrow = q.escrow - Escrow(q, ids) /\ e.expected = q.expected - Expected(q, ids)
      /\ \A id \in R : e.pending[id] = q.pending[id]
    BY DEF Dequeue, IsQueue
<1>2. first \in Nat /\ first <= b /\ R = first..(b - 1) /\ b \in Nat
    <2>1. R \in SUBSET Nat /\ b \in Nat
        BY DEF ExactQueue
    <2>2. CASE R = {}
        <3>1. first = b
            BY <2>2 DEF FirstOf
        <3> HIDE DEF b, R, first
        <3>2. b..(b - 1) = {}
            BY <2>1
        <3> QED BY <2>1, <2>2, <3>1, <3>2
    <2>3. CASE R # {}
        <3>1. PICK m \in R : \A y \in R : m <= y
            <4> HIDE DEF R
            <4> QED BY <2>1, <2>3, LeastExists
        <3>2. first \in R /\ \A y \in R : first <= y
            <4>1. first = CHOOSE x \in R : \A y \in R : x <= y
                BY <2>3 DEF FirstOf, Min
            <4> HIDE DEF first, R
            <4> QED BY <3>1, <4>1
        <3> HIDE DEF first
        <3>3. /\ q.next_withdraw_to_execute \in Nat
              /\ D = q.next_withdraw_to_execute..(b - 1)
            BY DEF ExactQueue
        <3>4. first \in Nat /\ first < b
            BY <2>1, <3>2, <3>3
        <3>5. \A x \in R : x \in first..(b - 1)
            BY <2>1, <3>2, <3>3
        <3>6. ASSUME NEW x \in first..(b - 1) PROVE x \in R
            <4>1. x \in D
                BY <2>1, <3>2, <3>3
            <4>2. x \notin ids
                BY <3>2, <3>4
            <4> QED BY <4>1, <4>2
        <3> QED BY <2>1, <3>4, <3>5, <3>6
    <2> QED BY <2>2, <2>3, Zenon
<1>3. /\ IsFiniteSet(D)
      /\ \A id \in D : EscrowOf(q)[id] \in Nat /\ ExpectedOf(q)[id] \in Nat
    BY QueueSums
<1>4. IsFiniteSet(R)
    BY <1>3, FS_Subset
<1> HIDE DEF e, b, first
<1>5. \A id \in R : EscrowOf(e)[id] = EscrowOf(q)[id] /\ ExpectedOf(e)[id] = ExpectedOf(q)[id]
    BY <1>1 DEF EscrowOf, ExpectedOf
<1>6. /\ SumFunctionOnSet(EscrowOf(e), R) = SumFunctionOnSet(EscrowOf(q), R)
      /\ SumFunctionOnSet(ExpectedOf(e), R) = SumFunctionOnSet(ExpectedOf(q), R)
    <2> HIDE DEF R
    <2> QED BY <1>4, <1>5, SumSame
<1>7. /\ SumFunctionOnSet(EscrowOf(q), R) =
            SumFunctionOnSet(EscrowOf(q), D) - SumFunctionOnSet(EscrowOf(q), ids)
      /\ SumFunctionOnSet(ExpectedOf(q), R) =
            SumFunctionOnSet(ExpectedOf(q), D) - SumFunctionOnSet(ExpectedOf(q), ids)
    BY <1>3, SumDifference
<1> HIDE DEF R
<1>8. e.escrow = Escrow(e, DOMAIN e.pending) /\ e.expected = Expected(e, DOMAIN e.pending)
    BY <1>1, <1>6, <1>7 DEF ExactQueue, Escrow, Expected, EscrowOf, ExpectedOf
<1>9. \A id \in DOMAIN e.pending : e.pending[id] \in Request
    BY <1>1 DEF ExactQueue, R
<1>10. ExactQueue(e)
    BY <1>1, <1>2, <1>8, <1>9 DEF ExactQueue
<1> QED BY <1>1, <1>10 DEF e, R

-----------------------------------------------------------------------------
(* The invariants.                                                         *)

\* The waiting requests that a run drops are a run from the head on.
LEMMA SkippedIsRun ==
    ASSUME NEW q, NEW list, \A id \in DOMAIN q.pending : id \in Nat
    PROVE  /\ Skipped(q, list) \in SUBSET DOMAIN q.pending
           /\ \A i \in Skipped(q, list), j \in DOMAIN q.pending : j <= i => j \in Skipped(q, list)
<1>1. Skipped(q, list) = {id \in DOMAIN q.pending :
                            \A j \in DOMAIN q.pending : j <= id => MustSkip(q.pending[j], list)}
    BY DEF Skipped
<1>2. \A i \in DOMAIN q.pending, j \in DOMAIN q.pending, k \in DOMAIN q.pending :
            j <= i /\ k <= j => k <= i
    OBVIOUS
<1> QED BY <1>1, <1>2

\* What is known of the markets.
MarketsInv ==
    /\ principal \in [Markets -> Nat] /\ observed \in [Markets -> Nat]
    /\ paused \in BOOLEAN
    /\ nav_refreshed \in 0..now /\ idle_resync_last \in 0..now
    /\ vault.external_assets = Sum(principal)
    /\ NavIsAsFreshAsClaimed

\* The share ledger.
SharesInv ==
    /\ shares \in [Accounts -> Nat]
    /\ vault.total_shares = Sum(shares)
    /\ shares[SELF] >= vault.withdraw_queue.escrow

LedgerInv == MarketsInv /\ ExactQueue(vault.withdraw_queue) /\ SharesInv

\* Accounts and markets are finitely many.
LEMMA FiniteLedgers ==
    /\ IsFiniteSet(Accounts) /\ IsFiniteSet(Markets)
    /\ SELF \in Accounts /\ FeeRecipient \in Accounts /\ SELF \notin Holders
    /\ Holders \subseteq Accounts /\ Receivers \subseteq Accounts /\ Users \subseteq Holders
<1>1. IsFiniteSet(Users \union {FeeRecipient})
    BY SorobanAssumption, FS_AddElement
<1>2. IsFiniteSet((Users \union {FeeRecipient}) \union {SELF})
    BY <1>1, FS_AddElement
<1> QED BY <1>2, SorobanAssumption DEF Accounts, Holders

\* A new vault.
LEMMA InitLedger == Init => LedgerInv
<1> SUFFICES ASSUME Init PROVE LedgerInv
    OBVIOUS
<1>1. /\ vault.external_assets = 0 /\ vault.total_shares = 0
      /\ vault.withdraw_queue = EmptyQueue /\ EmptyQueue.escrow = 0
    BY DEF Init, NewVaultState, EmptyQueue
<1>2. /\ principal = [m \in Markets |-> 0] /\ shares = [a \in Accounts |-> 0]
      /\ observed = [m \in Markets |-> 0]
      /\ now = 1 /\ nav_refreshed = 0 /\ idle_resync_last = 0
    BY DEF Init
<1>3. Sum(principal) = 0 /\ Sum(shares) = 0
    BY <1>2, FiniteLedgers, SumZero DEF Sum
<1>4. MarketsInv
    <2>1. paused \in BOOLEAN
        BY Zenon DEF Init
    <2> QED BY <1>1, <1>2, <1>3, <2>1 DEF MarketsInv, NavIsAsFreshAsClaimed
<1>5. SharesInv
    BY <1>1, <1>2, <1>3, FiniteLedgers DEF SharesInv
<1> QED BY <1>1, <1>4, <1>5, EmptyQueueExact DEF LedgerInv

-----------------------------------------------------------------------------
(* Moves of shares.                                                        *)

\* Shares that are minted to, or burned from, one account.
LEMMA OneBalance ==
    ASSUME NEW sh \in [Accounts -> Nat], NEW new \in [Accounts -> Nat], NEW a \in Accounts,
           \A x \in Accounts \ {a} : new[x] = sh[x]
    PROVE  Sum(new) = Sum(sh) + new[a] - sh[a]
BY FiniteLedgers, SumChange DEF Sum

\* The supply is a number of shares.
LEMMA SumIsNat == ASSUME NEW sh \in [Accounts -> Nat] PROVE Sum(sh) \in Nat
BY FiniteLedgers, SumNat DEF Sum

\* Shares that move between two accounts.
LEMMA TwoBalances ==
    ASSUME NEW sh \in [Accounts -> Nat], NEW new \in [Accounts -> Nat],
           NEW a \in Accounts, NEW b \in Accounts, a # b, NEW n \in Nat,
           new[a] = sh[a] - n, new[b] = sh[b] + n,
           \A x \in Accounts \ {a, b} : new[x] = sh[x]
    PROVE  Sum(new) = Sum(sh)
<1> DEFINE out == [sh EXCEPT ![a] = new[a]]
<1>1. /\ out \in [Accounts -> Nat] /\ out[a] = new[a] /\ out[b] = sh[b]
      /\ \A x \in Accounts \ {a} : out[x] = sh[x]
    OBVIOUS
<1>2. \A x \in Accounts \ {b} : new[x] = out[x]
    OBVIOUS
<1> HIDE DEF out
<1>3. Sum(out) = Sum(sh) + out[a] - sh[a]
    BY <1>1, OneBalance, Zenon
<1>4. Sum(new) = Sum(out) + new[b] - out[b]
    BY <1>1, <1>2, OneBalance
<1>5. Sum(sh) \in Nat /\ sh[a] \in Nat /\ sh[b] \in Nat
    BY SumIsNat
<1> QED BY <1>1, <1>3, <1>4, <1>5

\* The fees of a state after crystallization.
LEMMA FeesBalance ==
    ASSUME VaultInv, SharesInv, NEW s, s.total_shares \in Nat,
           s.total_shares >= vault.total_shares
    PROVE  /\ WithFees(s) \in [Accounts -> Nat] /\ Sum(WithFees(s)) = s.total_shares
           /\ WithFees(s)[SELF] = shares[SELF]
<1> DEFINE n == s.total_shares - vault.total_shares
           new == WithFees(s)
<1>1. vault.total_shares \in Nat /\ n \in Nat /\ shares \in [Accounts -> Nat]
    BY DEF VaultInv, IsVault, SharesInv
<1>2. new = [shares EXCEPT ![FeeRecipient] = shares[FeeRecipient] + n]
    BY DEF WithFees, Credit
<1>3. n = s.total_shares - vault.total_shares
    OBVIOUS
<1> HIDE DEF n, new
<1>4. /\ new \in [Accounts -> Nat] /\ new[FeeRecipient] = shares[FeeRecipient] + n
      /\ \A x \in Accounts \ {FeeRecipient} : new[x] = shares[x]
      /\ shares[FeeRecipient] \in Nat
    BY <1>1, <1>2, FiniteLedgers
<1>5. Sum(new) = Sum(shares) + new[FeeRecipient] - shares[FeeRecipient]
    BY <1>1, <1>4, FiniteLedgers, OneBalance
<1>6. Sum(shares) = vault.total_shares
    BY DEF SharesInv
<1>7. Sum(new) = s.total_shares
    BY <1>1, <1>3, <1>4, <1>5, <1>6
<1>8. new[SELF] = shares[SELF]
    BY <1>4, FiniteLedgers DEF Holders
<1> QED BY <1>4, <1>7, <1>8 DEF new

-----------------------------------------------------------------------------
(* Transactions.                                                           *)

\* A step that leaves the markets as they are.
LEMMA MarketsStay ==
    ASSUME VaultInv, MarketsInv, vault'.external_assets = vault.external_assets,
           UNCHANGED <<principal, observed, nav_refreshed>>,
           paused' \in BOOLEAN, now' \in Nat, now' >= now,
           idle_resync_last' \in {idle_resync_last, now}
    PROVE  MarketsInv'
<1>1. now \in Nat
    BY DEF VaultInv
<1>2. /\ principal' = principal /\ observed' = observed /\ nav_refreshed' = nav_refreshed
    OBVIOUS
<1>3. nav_refreshed' \in 0..now' /\ idle_resync_last' \in 0..now'
    BY <1>1, <1>2 DEF MarketsInv
<1>4. NavIsAsFreshAsClaimed'
    BY <1>2 DEF MarketsInv, NavIsAsFreshAsClaimed
<1>5. vault'.external_assets = Sum(principal')
    BY <1>2 DEF MarketsInv
<1> QED BY <1>2, <1>3, <1>4, <1>5, Zenon DEF MarketsInv

\* A deposit mints to the fee recipient and to the receiver.
LEMMA DepositLedger ==
    ASSUME VaultInv, LedgerInv, NEW o, NEW r \in Receivers, NEW assets \in Nat,
           DepositAssets(o, r, assets)
    PROVE  LedgerInv'
<1> DEFINE s == Crystallized(Reconciled, fees, now)
           minted == ConvertToShares(s, assets)
           sh == WithFees(s)
<1>1. /\ vault' = Deposit(s, assets, minted, now)
      /\ shares' = [sh EXCEPT ![r] = sh[r] + minted]
      /\ UNCHANGED <<principal, observed, nav_refreshed, now, idle_resync_last, paused>>
    BY DEF DepositAssets, markets, policy, clocks
<1>2. /\ IsVault(s) /\ s.total_shares \in Nat /\ s.total_shares >= vault.total_shares
      /\ s.external_assets = vault.external_assets
      /\ s.withdraw_queue = vault.withdraw_queue
    BY SettledSame
<1>3. sh \in [Accounts -> Nat] /\ Sum(sh) = s.total_shares /\ sh[SELF] = shares[SELF]
    BY <1>2, FeesBalance DEF LedgerInv
<1> HIDE DEF s, sh
<1>4. minted \in Nat /\ now \in Nat
    BY <1>2, SharesForAssets DEF VaultInv
<1> HIDE DEF minted
<1>5. /\ vault'.total_shares = s.total_shares + minted
      /\ vault'.external_assets = vault.external_assets
      /\ vault'.withdraw_queue = vault.withdraw_queue
    <2> DEFINE d == Deposit(s, assets, minted, now)
    <2>1. /\ d.total_shares = s.total_shares + minted
          /\ d.external_assets = s.external_assets
          /\ d.withdraw_queue = s.withdraw_queue
        <3>1. IsVault(s) BY <1>2
        <3> QED BY ONLY <1>4, <3>1, assets \in Nat, DepositSound
    <2> HIDE DEF d
    <2> QED BY <1>1, <1>2, <2>1 DEF d
<1>6. MarketsInv'
    <2>1. paused' \in BOOLEAN
        BY <1>1 DEF LedgerInv, MarketsInv
    <2> QED BY <1>1, <1>4, <1>5, <2>1, MarketsStay DEF LedgerInv
<1>7. r \in Accounts /\ SELF \in Accounts
    BY FiniteLedgers
<1>8. /\ shares' \in [Accounts -> Nat] /\ shares'[r] = sh[r] + minted
      /\ \A x \in Accounts \ {r} : shares'[x] = sh[x]
      /\ sh[r] \in Nat
    BY <1>1, <1>3, <1>4, <1>7
<1>9. Sum(shares') = Sum(sh) + shares'[r] - sh[r]
    BY <1>3, <1>7, <1>8, OneBalance
<1>10. Sum(shares') = vault'.total_shares
    BY <1>2, <1>3, <1>4, <1>5, <1>8, <1>9
<1>11. shares'[SELF] >= shares[SELF] /\ shares[SELF] \in Nat /\ shares'[SELF] \in Nat
    BY <1>3, <1>4, <1>7, <1>8
<1>12. shares[SELF] >= vault.withdraw_queue.escrow /\ vault.withdraw_queue.escrow \in Nat
    BY QueueSums DEF LedgerInv, SharesInv, ExactQueue
<1>13. SharesInv'
    BY <1>5, <1>8, <1>10, <1>11, <1>12 DEF SharesInv
<1> QED BY <1>5, <1>6, <1>13 DEF LedgerInv

\* A request moves shares into escrow.
LEMMA RequestLedger ==
    ASSUME VaultInv, LedgerInv, NEW o \in Holders, NEW r \in Receivers, NEW x \in Nat,
           RequestWithdrawal(o, r, x)
    PROVE  LedgerInv'
<1> DEFINE s == FeesSettled
           expected == ConvertToRedeemAssets(s, x)
           request == [owner |-> o, receiver |-> r, escrow |-> x, expected |-> expected,
                       requested_at |-> now]
           queue == Enqueue(s.withdraw_queue, request)
           sh == WithFees(s)
<1>1. /\ vault' = [s EXCEPT !.withdraw_queue = queue]
      /\ shares' = [sh EXCEPT ![o] = sh[o] - x, ![SELF] = sh[SELF] + x]
      /\ sh[o] >= x
      /\ UNCHANGED <<principal, observed, nav_refreshed, now, idle_resync_last, paused>>
    <2>1. /\ vault' = [s EXCEPT !.withdraw_queue = queue]
          /\ shares' = [sh EXCEPT ![o] = @ - x, ![SELF] = @ + x]
          /\ sh[o] >= x
          /\ UNCHANGED <<principal, observed, nav_refreshed, now, idle_resync_last, paused>>
        BY DEF RequestWithdrawal, RequestWithdraw, markets, policy, clocks
    <2>2. o # SELF
        BY FiniteLedgers
    <2>3. [sh EXCEPT ![o] = @ - x, ![SELF] = @ + x]
            = [sh EXCEPT ![o] = sh[o] - x, ![SELF] = sh[SELF] + x]
        BY <2>2
    <2> QED BY <2>1, <2>3
<1>2. /\ IsVault(s) /\ s.total_shares \in Nat /\ s.total_shares >= vault.total_shares
      /\ s.external_assets = vault.external_assets
      /\ s.withdraw_queue = vault.withdraw_queue
    BY SettledSame
<1>3. sh \in [Accounts -> Nat] /\ Sum(sh) = s.total_shares /\ sh[SELF] = shares[SELF]
    BY <1>2, FeesBalance DEF LedgerInv
<1> HIDE DEF s, sh
<1>4. expected \in Nat /\ now \in Nat
    BY <1>2, AssetsForShares DEF VaultInv
<1> HIDE DEF expected
<1>5. request \in Request /\ request.escrow = x /\ request.expected \in Nat
    BY <1>4, FiniteLedgers DEF Request
<1> HIDE DEF request
<1>6. ExactQueue(queue) /\ queue.escrow = vault.withdraw_queue.escrow + x /\ IsQueue(queue)
    BY <1>2, <1>5, EnqueueExact, EnqueueIsQueue DEF LedgerInv, VaultInv, IsVault
<1> HIDE DEF queue
<1>7. /\ vault'.total_shares = s.total_shares
      /\ vault'.external_assets = vault.external_assets
      /\ vault'.withdraw_queue = queue
    BY <1>1, <1>2, <1>6, RequeuedSound
<1>8. MarketsInv'
    <2>1. paused' \in BOOLEAN
        BY <1>1 DEF LedgerInv, MarketsInv
    <2> QED BY <1>1, <1>4, <1>7, <2>1, MarketsStay DEF LedgerInv
<1>9. o \in Accounts /\ SELF \in Accounts /\ o # SELF
    BY FiniteLedgers
<1>10. /\ shares' \in [Accounts -> Nat] /\ shares'[o] = sh[o] - x
       /\ shares'[SELF] = sh[SELF] + x
       /\ \A a \in Accounts \ {o, SELF} : shares'[a] = sh[a]
    BY <1>1, <1>3, <1>9
<1>11. Sum(shares') = Sum(sh)
    BY <1>3, <1>9, <1>10, TwoBalances
<1>12. /\ shares[SELF] >= vault.withdraw_queue.escrow /\ vault.withdraw_queue.escrow \in Nat
       /\ shares[SELF] \in Nat
    BY QueueSums, FiniteLedgers DEF LedgerInv, SharesInv, ExactQueue
<1>13. shares'[SELF] >= queue.escrow
    BY <1>3, <1>6, <1>10, <1>12
<1>14. SharesInv'
    BY <1>3, <1>7, <1>10, <1>11, <1>13 DEF SharesInv
<1> QED BY <1>6, <1>7, <1>8, <1>14 DEF LedgerInv

\* An atomic exit burns the owner's shares.
LEMMA ExitLedger ==
    ASSUME VaultInv, LedgerInv, NEW o \in Holders, NEW r, NEW assets \in Nat, NEW burned \in Nat,
           AtomicExit(FeesSettled, o, r, assets, burned)
    PROVE  LedgerInv'
<1> DEFINE s == FeesSettled
           sh == WithFees(s)
<1>1. /\ vault' = AtomicWithdraw(s, assets, burned)
      /\ shares' = [sh EXCEPT ![o] = sh[o] - burned]
      /\ sh[o] >= burned
      /\ assets <= s.idle_assets /\ burned <= s.total_shares
      /\ UNCHANGED <<principal, observed, nav_refreshed, now, idle_resync_last, paused>>
    BY DEF AtomicExit, CanAtomicWithdraw, markets, policy, clocks
<1>2. /\ IsVault(s) /\ s.total_shares \in Nat /\ s.total_shares >= vault.total_shares
      /\ s.external_assets = vault.external_assets
      /\ s.withdraw_queue = vault.withdraw_queue
    BY SettledSame
<1>3. sh \in [Accounts -> Nat] /\ Sum(sh) = s.total_shares /\ sh[SELF] = shares[SELF]
    BY <1>2, FeesBalance DEF LedgerInv
<1> HIDE DEF s, sh
<1>4. /\ vault'.total_shares = s.total_shares - burned
      /\ vault'.external_assets = vault.external_assets
      /\ vault'.withdraw_queue = vault.withdraw_queue
    BY <1>1, <1>2, AtomicWithdrawSound
<1>5. MarketsInv'
    <2>1. paused' \in BOOLEAN /\ now \in Nat
        BY <1>1 DEF LedgerInv, MarketsInv, VaultInv
    <2> QED BY <1>1, <1>4, <2>1, MarketsStay DEF LedgerInv
<1>6. o \in Accounts /\ SELF \in Accounts /\ o # SELF
    BY FiniteLedgers
<1>7. /\ shares' \in [Accounts -> Nat] /\ shares'[o] = sh[o] - burned
      /\ \A a \in Accounts \ {o} : shares'[a] = sh[a]
      /\ sh[o] \in Nat
    BY <1>1, <1>3, <1>6
<1>8. Sum(shares') = Sum(sh) + shares'[o] - sh[o]
    BY <1>3, <1>6, <1>7, OneBalance
<1>9. Sum(shares') = vault'.total_shares
    BY <1>2, <1>3, <1>4, <1>7, <1>8
<1>10. shares'[SELF] = shares[SELF]
    BY <1>3, <1>6, <1>7
<1>11. SharesInv'
    BY <1>4, <1>7, <1>9, <1>10 DEF LedgerInv, SharesInv
<1> QED BY <1>4, <1>5, <1>11 DEF LedgerInv

\* The escrow of dropped requests goes back to their owners.
LEMMA RefundBalance ==
    ASSUME VaultInv, LedgerInv, NEW ids \in SUBSET DOMAIN vault.withdraw_queue.pending
    PROVE  /\ Refund(ids) \in [Accounts -> Nat] /\ Sum(Refund(ids)) = Sum(shares)
           /\ Refund(ids)[SELF] >= shares[SELF] - Escrow(vault.withdraw_queue, ids)
<1> DEFINE q == vault.withdraw_queue
           D == DOMAIN q.pending
           f == EscrowOf(q)
           own == [id \in D |-> q.pending[id].owner]
           back == [a \in Accounts |-> SumFunctionOnSet(f, {id \in ids : own[id] = a})]
           total == Escrow(q, ids)
           mid == [a \in Accounts |-> shares[a] + back[a]]
           new == Refund(ids)
<1>0. /\ IsFiniteSet(Accounts) /\ SELF \in Accounts /\ shares \in [Accounts -> Nat]
      /\ ExactQueue(q)
    BY FiniteLedgers DEF LedgerInv, SharesInv
<1>1. /\ IsFiniteSet(D) /\ \A id \in D : f[id] \in Nat /\ own[id] \in Accounts
    <2>1. \A id \in D : own[id] \in Accounts
        BY <1>0 DEF ExactQueue, Request
    <2> QED BY <1>0, <2>1, QueueSums
<1>2. total \in Nat /\ total <= q.escrow /\ shares[SELF] >= q.escrow /\ q.escrow \in Nat
    BY <1>0, QueueSums, Zenon DEF LedgerInv, SharesInv, ExactQueue
<1>3. \A t \in SUBSET D : IsFiniteSet(t) /\ SumFunctionOnSet(f, t) \in Nat
    <2> TAKE t \in SUBSET D
    <2>1. IsFiniteSet(t)
        BY <1>1, FS_Subset
    <2> HIDE DEF f
    <2> QED BY <1>1, <2>1, SumNat, Zenon
<1>4. \A a \in Accounts : back[a] \in Nat
    <2> TAKE a \in Accounts
    <2>1. {id \in ids : own[id] = a} \in SUBSET D
        OBVIOUS
    <2> QED BY <1>3, <2>1, Zenon
<1>5. SumFunctionOnSet(back, Accounts) = total
    <2>1. SumFunctionOnSet(back, Accounts) = SumFunctionOnSet(f, ids)
        <3>1. IsFiniteSet(ids) /\ \A id \in ids : f[id] \in Int /\ own[id] \in Accounts
            BY <1>1, <1>3
        <3> HIDE DEF f, own
        <3> QED BY <1>0, <3>1, SumByOwner
    <2> QED BY <2>1 DEF Escrow, EscrowOf
<1>6. \A a \in Accounts : new[a] = mid[a] - (IF a = SELF THEN total ELSE 0)
    <2> TAKE a \in Accounts
    <2>1. {id \in ids : q.pending[id].owner = a} = {id \in ids : own[id] = a}
        OBVIOUS
    <2>2. back[a] = Escrow(q, {id \in ids : q.pending[id].owner = a})
        BY <2>1, Zenon DEF Escrow, EscrowOf
    <2>3. new[a] = shares[a] + Escrow(q, {id \in ids : q.pending[id].owner = a})
                      - (IF a = SELF THEN total ELSE 0)
        BY DEF Refund
    <2>4. mid[a] = shares[a] + back[a] /\ shares[a] \in Nat /\ back[a] \in Nat
        BY <1>0, <1>4
    <2> HIDE DEF new, mid, back, total
    <2> QED BY <1>2, <2>2, <2>3, <2>4
<1>7. DOMAIN new = Accounts /\ new = [a \in Accounts |-> new[a]]
    BY DEF Refund
<1>8. /\ mid \in [Accounts -> Nat] /\ mid[SELF] >= shares[SELF]
      /\ \A a \in Accounts : shares[a] \in Int /\ back[a] \in Int /\ mid[a] = shares[a] + back[a]
    BY <1>0, <1>4
<1> HIDE DEF q, D, f, own, back, total, mid, new
<1>9. SumFunctionOnSet(mid, Accounts) = SumFunctionOnSet(shares, Accounts) + total
    BY <1>0, <1>5, <1>8, SumPlus
<1>10. /\ new \in [Accounts -> Nat] /\ new[SELF] = mid[SELF] - total
       /\ \A a \in Accounts \ {SELF} : new[a] = mid[a]
    <2>1. ASSUME NEW a \in Accounts PROVE new[a] \in Nat
        <3>1. mid[a] \in Nat /\ mid[SELF] \in Nat /\ shares[SELF] \in Nat
            BY <1>0, <1>8
        <3> QED BY <1>2, <1>6, <1>8, <3>1
    <2>2. /\ new[SELF] = mid[SELF] - total
          /\ \A a \in Accounts \ {SELF} : new[a] = mid[a]
        <3>1. \A a \in Accounts : mid[a] \in Nat
            BY <1>8
        <3> QED BY <1>0, <1>6, <3>1
    <2> QED BY <1>7, <2>1, <2>2
<1>11. Sum(new) = Sum(mid) + new[SELF] - mid[SELF]
    BY <1>0, <1>8, <1>10, OneBalance
<1>12. Sum(mid) = Sum(shares) + total /\ Sum(shares) \in Nat
    <2>1. DOMAIN mid = Accounts /\ DOMAIN shares = Accounts
        BY <1>0, <1>8
    <2> QED BY <1>0, <1>9, <2>1, SumIsNat DEF Sum
<1>13. mid[SELF] \in Nat /\ shares[SELF] \in Nat
    BY <1>0, <1>8
<1>14. Sum(new) = Sum(shares) /\ new[SELF] >= shares[SELF] - total
    BY <1>2, <1>8, <1>10, <1>11, <1>12, <1>13
<1> QED BY <1>10, <1>14 DEF new, total, q

\* Paying the head of the queue burns its escrow, or gives it back.
LEMMA SettleLedger ==
    ASSUME NEW s, IsVault(s), ExactQueue(s.withdraw_queue), HasHead(s.withdraw_queue),
           NEW sh \in [Accounts -> Nat], Sum(sh) = s.total_shares,
           sh[SELF] >= s.withdraw_queue.escrow, SettleWithdrawal(s, sh)
    PROVE  /\ ExactQueue(vault'.withdraw_queue) /\ SharesInv'
           /\ vault'.external_assets = s.external_assets
           /\ vault'.fee_anchor = s.fee_anchor /\ vault'.idle_assets <= s.idle_assets
<1> DEFINE q == s.withdraw_queue
           h == HeadRequest(q)
           head == q.next_withdraw_to_execute
           ok == h.receiver \notin BadReceivers
           p == Payout(s)
<1>1. /\ CanSettlePayout(p, ok)
      /\ vault' = SettlePayout(p, ok)
      /\ shares' = IF ok THEN [sh EXCEPT ![SELF] = @ - h.escrow]
                   ELSE [sh EXCEPT ![SELF] = @ - h.escrow, ![h.owner] = @ + h.escrow]
    BY Zenon DEF SettleWithdrawal
<1>2. h.escrow \in Nat /\ h.expected \in Nat /\ h.owner \in Accounts /\ head \in DOMAIN q.pending
      /\ h.escrow = EscrowOf(q)[head]
    BY DEF HasHead, HeadRequest, ExactQueue, Request, EscrowOf
<1>3. /\ IsVault(p) /\ p.total_shares = s.total_shares /\ p.withdraw_queue = q
      /\ p.external_assets = s.external_assets /\ p.fee_anchor = s.fee_anchor
      /\ p.op_state.amount = h.expected /\ p.op_state.burn = h.escrow
      /\ p.op_state.request_id = head /\ p.idle_assets = s.idle_assets
    BY PayoutSound
<1>4. Escrow(q, {head}) = h.escrow /\ h.escrow <= q.escrow /\ q.escrow \in Nat
    <2>1. SumFunctionOnSet(EscrowOf(q), {} \cup {head})
            = SumFunctionOnSet(EscrowOf(q), {}) + EscrowOf(q)[head]
        BY <1>2, FS_EmptySet, SumAdd
    <2>2. {} \cup {head} = {head} /\ SumFunctionOnSet(EscrowOf(q), {}) = 0
        BY SumEmpty
    <2>3. SumFunctionOnSet(EscrowOf(q), {head}) = h.escrow
        BY <1>2, <2>1, <2>2
    <2>4. Escrow(q, {head}) = h.escrow
        BY <2>3 DEF Escrow, EscrowOf
    <2>5. {head} \in SUBSET DOMAIN q.pending
        BY <1>2
    <2>6. Escrow(q, {head}) <= q.escrow /\ q.escrow \in Nat
        BY <2>5, QueueSums DEF ExactQueue
    <2> QED BY <2>4, <2>6
<1>5. /\ ExactQueue(Dequeue(q, {head}))
      /\ Dequeue(q, {head}).escrow = q.escrow - h.escrow
    <2>1. IsQueue(q) /\ {head} \in SUBSET DOMAIN q.pending
        BY <1>2 DEF IsVault
    <2>2. \A i \in {head}, j \in DOMAIN q.pending : j <= i => j \in {head}
        BY DEF ExactQueue
    <2>3. ExactQueue(q)
        OBVIOUS
    <2> HIDE DEF q, h, head
    <2>4. /\ ExactQueue(Dequeue(q, {head}))
          /\ Dequeue(q, {head}).escrow = q.escrow - Escrow(q, {head})
        BY <2>1, <2>2, <2>3, DequeueExact
    <2> QED BY <1>4, <2>4
<1>6. ok \in BOOLEAN
    OBVIOUS
<1> HIDE DEF p, h, ok
<1>13. vault'.idle_assets <= s.idle_assets
    <2>1. p.op_state.amount \in Nat /\ p.op_state.burn \in Nat
        BY <1>2, <1>3
    <2>2. vault'.idle_assets = IF ok THEN p.idle_assets - p.op_state.amount ELSE p.idle_assets
        BY <1>1, <1>3, <1>6, <2>1, SettlePayoutSound, Zenon
    <2>3. s.idle_assets \in Nat
        BY DEF IsVault
    <2> QED BY <1>2, <1>3, <2>2, <2>3
<1>7. /\ vault'.total_shares = IF ok THEN s.total_shares - h.escrow ELSE s.total_shares
      /\ vault'.withdraw_queue = Dequeue(q, {head})
      /\ vault'.external_assets = s.external_assets /\ vault'.fee_anchor = s.fee_anchor
    <2>1. p.op_state.amount \in Nat /\ p.op_state.burn \in Nat
        BY <1>2, <1>3
    <2>2. /\ vault'.total_shares = IF ok THEN p.total_shares - p.op_state.burn ELSE p.total_shares
          /\ vault'.withdraw_queue = Dequeue(p.withdraw_queue, {p.op_state.request_id})
          /\ vault'.external_assets = p.external_assets /\ vault'.fee_anchor = p.fee_anchor
        BY <1>1, <1>3, <1>6, <2>1, SettlePayoutSound, Zenon
    <2> QED BY <1>3, <2>2, Zenon
<1>8. SELF \in Accounts /\ sh[SELF] \in Nat
    BY FiniteLedgers
<1> DEFINE esc == h.escrow
           own == h.owner
<1>9. esc \in Nat /\ own \in Accounts /\ esc <= sh[SELF]
    BY <1>2, <1>4, <1>8
<1> HIDE DEF esc, own, q, head
<1>10. CASE ok
    <2>1. shares' = [sh EXCEPT ![SELF] = sh[SELF] - esc]
        BY <1>1, <1>10 DEF esc
    <2>2. /\ shares' \in [Accounts -> Nat] /\ shares'[SELF] = sh[SELF] - esc
          /\ \A a \in Accounts \ {SELF} : shares'[a] = sh[a]
        BY <1>8, <1>9, <2>1
    <2>3. Sum(shares') = Sum(sh) + shares'[SELF] - sh[SELF]
        BY <1>8, <2>2, OneBalance
    <2>4. Sum(sh) \in Nat
        BY SumIsNat
    <2>5. Sum(shares') = vault'.total_shares
        BY <1>7, <1>8, <1>9, <1>10, <2>2, <2>3, <2>4 DEF esc
    <2>6. shares'[SELF] >= vault'.withdraw_queue.escrow
        BY <1>4, <1>5, <1>7, <1>8, <1>9, <2>2 DEF esc, q
    <2> QED BY <1>5, <1>7, <1>13, <2>2, <2>5, <2>6 DEF SharesInv
<1>11. CASE ~ok
    <2>1. shares' = [sh EXCEPT ![SELF] = @ - esc, ![own] = @ + esc]
        BY <1>1, <1>11 DEF esc, own
    <2>2. shares' \in [Accounts -> Nat] /\ Sum(shares') = Sum(sh) /\ shares'[SELF] >= sh[SELF] - esc
        <3>1. CASE own = SELF
            <4>1. shares' = sh
                <5>1. shares' \in [Accounts -> Nat] /\ \A a \in Accounts : shares'[a] = sh[a]
                    BY <1>8, <1>9, <2>1, <3>1
                <5> QED BY <5>1
            <4> QED BY <1>8, <1>9, <4>1
        <3>2. CASE own # SELF
            <4>1. /\ shares' \in [Accounts -> Nat] /\ shares'[SELF] = sh[SELF] - esc
                  /\ shares'[own] = sh[own] + esc
                  /\ \A a \in Accounts \ {SELF, own} : shares'[a] = sh[a]
                BY <1>8, <1>9, <2>1, <3>2
            <4>2. Sum(shares') = Sum(sh)
                BY <1>8, <1>9, <3>2, <4>1, TwoBalances
            <4> QED BY <1>8, <1>9, <4>1, <4>2
        <3> QED BY <3>1, <3>2
    <2>3. Sum(shares') = vault'.total_shares
        BY <1>7, <1>11, <2>2
    <2>4. shares'[SELF] >= vault'.withdraw_queue.escrow
        <3>1. shares'[SELF] \in Nat
            BY <1>8, <2>2
        <3> QED BY <1>4, <1>5, <1>7, <1>8, <1>9, <2>2, <3>1 DEF esc, q
    <2> QED BY <1>5, <1>7, <1>13, <2>2, <2>3, <2>4 DEF SharesInv
<1> QED BY <1>10, <1>11

\* A withdrawal run.
LEMMA ExecuteLedger ==
    ASSUME VaultInv, LedgerInv, ExecuteWithdraw
    PROVE  /\ LedgerInv' /\ vault'.fee_anchor = vault.fee_anchor
           /\ vault'.idle_assets <= vault.idle_assets
           /\ vault'.external_assets = vault.external_assets
<1> DEFINE ids == Skipped(vault.withdraw_queue, restrictions)
           s == [vault EXCEPT !.withdraw_queue = Dequeue(@, ids)]
           queue == Dequeue(vault.withdraw_queue, ids)
           sh == Refund(ids)
<1>1. /\ \/ IsReady(s, now) /\ SettleWithdrawal(s, sh)
         \/ vault' = s /\ shares' = sh
      /\ UNCHANGED <<principal, observed, nav_refreshed, now, idle_resync_last, paused>>
    BY Zenon DEF ExecuteWithdraw, markets, policy, clocks
<1>2. IsVault(vault) /\ IsQueue(vault.withdraw_queue) /\ ExactQueue(vault.withdraw_queue)
    BY DEF VaultInv, LedgerInv, IsVault
<1>3. /\ ids \in SUBSET DOMAIN vault.withdraw_queue.pending
      /\ \A i \in ids, j \in DOMAIN vault.withdraw_queue.pending : j <= i => j \in ids
    <2>1. \A id \in DOMAIN vault.withdraw_queue.pending : id \in Nat
        BY <1>2, QueueSums
    <2> QED BY <2>1, SkippedIsRun
<1>4. s = [vault EXCEPT !.withdraw_queue = queue]
    OBVIOUS
<1> HIDE DEF ids, s
<1>5. /\ ExactQueue(queue) /\ IsQueue(queue)
      /\ queue.escrow = vault.withdraw_queue.escrow - Escrow(vault.withdraw_queue, ids)
    BY <1>2, <1>3, DequeueExact, DequeueIsQueue
<1> HIDE DEF queue
<1>6. /\ IsVault(s) /\ s.withdraw_queue = queue /\ s.total_shares = vault.total_shares
      /\ s.external_assets = vault.external_assets /\ s.fee_anchor = vault.fee_anchor
      /\ s.idle_assets = vault.idle_assets /\ vault.idle_assets \in Nat
    BY <1>2, <1>4, <1>5, RequeuedSound DEF IsVault
<1>7. /\ sh \in [Accounts -> Nat] /\ Sum(sh) = s.total_shares
      /\ sh[SELF] >= s.withdraw_queue.escrow
    <2>1. /\ sh \in [Accounts -> Nat] /\ Sum(sh) = Sum(shares)
          /\ sh[SELF] >= shares[SELF] - Escrow(vault.withdraw_queue, ids)
        BY <1>3, RefundBalance
    <2>2. /\ Sum(shares) = vault.total_shares /\ shares[SELF] >= vault.withdraw_queue.escrow
          /\ shares[SELF] \in Nat /\ sh[SELF] \in Nat
        BY <2>1, FiniteLedgers DEF LedgerInv, SharesInv
    <2>3. Escrow(vault.withdraw_queue, ids) \in Nat /\ vault.withdraw_queue.escrow \in Nat
        BY <1>2, <1>3, QueueSums DEF ExactQueue
    <2> HIDE DEF sh
    <2>4. sh[SELF] >= queue.escrow
        BY <1>5, <2>1, <2>2, <2>3
    <2> QED BY <1>6, <2>1, <2>2, <2>4
<1> HIDE DEF sh
<1>8. /\ ExactQueue(vault'.withdraw_queue) /\ SharesInv'
      /\ vault'.external_assets = vault.external_assets
      /\ vault'.fee_anchor = vault.fee_anchor
      /\ vault'.idle_assets <= vault.idle_assets
    <2>1. CASE IsReady(s, now) /\ SettleWithdrawal(s, sh)
        BY <1>5, <1>6, <1>7, <2>1, SettleLedger DEF IsReady
    <2>2. CASE vault' = s /\ shares' = sh
        BY <1>5, <1>6, <1>7, <2>2 DEF SharesInv
    <2> QED BY <1>1, <2>1, <2>2
<1>9. MarketsInv'
    <2>1. paused' \in BOOLEAN /\ now \in Nat
        BY <1>1 DEF LedgerInv, MarketsInv, VaultInv
    <2> QED BY <1>1, <1>8, <2>1, MarketsStay DEF LedgerInv
<1> QED BY <1>8, <1>9 DEF LedgerInv

\* A step that leaves the queue, the supply and the share ledger as they are.
LEMMA SharesStay ==
    ASSUME LedgerInv, shares' = shares, vault'.total_shares = vault.total_shares,
           vault'.withdraw_queue = vault.withdraw_queue
    PROVE  ExactQueue(vault'.withdraw_queue) /\ SharesInv'
BY DEF LedgerInv, SharesInv

\* A market that is observed is at least as fresh as the vault claims.
LEMMA ObservedIsFresh ==
    ASSUME VaultInv, MarketsInv, NEW m \in Markets, NEW n \in Nat,
           principal' = [principal EXCEPT ![m] = n], observed' = [observed EXCEPT ![m] = now],
           vault'.external_assets = Sum(principal'),
           UNCHANGED <<now, nav_refreshed, idle_resync_last, paused>>
    PROVE  MarketsInv'
<1>1. /\ now \in Nat /\ nav_refreshed \in 0..now /\ idle_resync_last \in 0..now
      /\ principal \in [Markets -> Nat] /\ observed \in [Markets -> Nat]
      /\ \A k \in Markets : principal[k] > 0 => observed[k] >= nav_refreshed
    BY DEF VaultInv, MarketsInv, NavIsAsFreshAsClaimed
<1>2. principal' \in [Markets -> Nat] /\ observed' \in [Markets -> Nat]
    BY <1>1
<1>3. \A k \in Markets : principal'[k] > 0 => observed'[k] >= nav_refreshed'
    BY <1>1
<1>4. nav_refreshed' \in 0..now' /\ idle_resync_last' \in 0..now'
    BY <1>1
<1>5. paused' \in BOOLEAN
    BY DEF MarketsInv
<1> QED BY <1>2, <1>3, <1>4, <1>5, Zenon DEF MarketsInv, NavIsAsFreshAsClaimed

\* Supplying a market.
LEMMA SupplyLedger ==
    ASSUME VaultInv, LedgerInv, NEW m \in Markets, NEW amount \in Nat, NEW received \in Nat,
           AllocateSupply(m, amount, received)
    PROVE  /\ LedgerInv' /\ vault'.fee_anchor = vault.fee_anchor
           /\ vault'.idle_assets <= vault.idle_assets
<1> DEFINE b == BeginAllocating(vault, amount)
           external == Sum(principal')
           e == SyncExternalAssets(b, external)
<1>1. /\ vault' = Finish(e) /\ amount <= vault.idle_assets /\ external \in Nat
      /\ value' = [value EXCEPT ![m] = @ + received]
      /\ principal' = [principal EXCEPT ![m] = value'[m]]
      /\ observed' = [observed EXCEPT ![m] = now]
      /\ UNCHANGED <<shares, now, nav_refreshed, idle_resync_last, paused>>
    BY KernelAssumption
       DEF AllocateSupply, CanBeginAllocating, CanSyncExternalAssets, policy, clocks
<1>2. external = Sum(principal')
    OBVIOUS
<1> HIDE DEF external
<1>3. IsVault(vault) /\ value \in [Markets -> Nat]
    BY DEF VaultInv
<1>4. /\ IsVault(b) /\ b.total_shares = vault.total_shares /\ b.fee_anchor = vault.fee_anchor
      /\ b.withdraw_queue = vault.withdraw_queue /\ b.idle_assets = vault.idle_assets - amount
    BY <1>1, <1>3, BeginAllocatingSound
<1> HIDE DEF b
<1>5. /\ IsVault(e) /\ e.total_shares = b.total_shares /\ e.fee_anchor = b.fee_anchor
      /\ e.withdraw_queue = b.withdraw_queue /\ e.external_assets = external
      /\ e.idle_assets = b.idle_assets
    BY <1>1, <1>4, SyncExternalAssetsSound
<1> HIDE DEF e
<1>6. /\ vault'.total_shares = vault.total_shares /\ vault'.fee_anchor = vault.fee_anchor
      /\ vault'.withdraw_queue = vault.withdraw_queue /\ vault'.external_assets = external
      /\ vault'.idle_assets = vault.idle_assets - amount
    BY <1>1, <1>4, <1>5, FinishSound
<1>7. value'[m] \in Nat
    BY <1>1, <1>3
<1>8. MarketsInv'
    BY <1>1, <1>2, <1>6, <1>7, ObservedIsFresh, Zenon DEF LedgerInv
<1>9. vault.idle_assets - amount <= vault.idle_assets
    BY <1>3 DEF IsVault
<1> QED BY <1>1, <1>6, <1>8, <1>9, SharesStay DEF LedgerInv

\* Withdrawing from a market.
LEMMA WithdrawLedger ==
    ASSUME VaultInv, LedgerInv, NEW m \in Markets, NEW realized \in Nat, realized <= value[m],
           AllocateWithdraw(m, realized)
    PROVE  /\ LedgerInv' /\ vault'.fee_anchor = vault.fee_anchor
           /\ vault'.idle_assets = vault.idle_assets + realized
<1> DEFINE b == BeginAllocating(vault, 0)
           external == Sum(principal') + realized
           e == SyncExternalAssets(b, external)
           w == RebalanceWithdraw(e, realized)
           left == value[m] - realized
<1>1. /\ vault' = Finish(w) /\ external \in Nat
      /\ principal' = [principal EXCEPT ![m] = left]
      /\ observed' = [observed EXCEPT ![m] = now]
      /\ realized <= e.external_assets
      /\ UNCHANGED <<shares, now, nav_refreshed, idle_resync_last, paused>>
    BY KernelAssumption
       DEF AllocateWithdraw, WithdrawnPrincipal, CanSyncExternalAssets, CanRebalanceWithdraw,
           policy, clocks
<1>2. /\ IsVault(vault) /\ value[m] \in Nat /\ left \in Nat /\ 0 <= vault.idle_assets
      /\ vault.idle_assets \in Nat
    BY DEF VaultInv, IsVault
<1> HIDE DEF left
<1>3. principal' \in [Markets -> Nat]
    BY <1>1, <1>2 DEF LedgerInv, MarketsInv
<1>4. Sum(principal') \in Nat
    BY <1>3, FiniteLedgers, SumNat DEF Sum
<1>5. external - realized = Sum(principal')
    BY <1>4
<1> HIDE DEF external
<1>6. /\ IsVault(b) /\ b.total_shares = vault.total_shares /\ b.fee_anchor = vault.fee_anchor
      /\ b.withdraw_queue = vault.withdraw_queue /\ b.idle_assets = vault.idle_assets - 0
    BY <1>2, BeginAllocatingSound
<1> HIDE DEF b
<1>7. /\ IsVault(e) /\ e.total_shares = b.total_shares /\ e.fee_anchor = b.fee_anchor
      /\ e.withdraw_queue = b.withdraw_queue /\ e.external_assets = external
      /\ e.idle_assets = b.idle_assets
    BY <1>1, <1>6, SyncExternalAssetsSound
<1> HIDE DEF e
<1>8. /\ IsVault(w) /\ w.total_shares = e.total_shares /\ w.fee_anchor = e.fee_anchor
      /\ w.withdraw_queue = e.withdraw_queue /\ w.external_assets = e.external_assets - realized
      /\ w.idle_assets = e.idle_assets + realized
    BY <1>1, <1>7, RebalanceWithdrawSound
<1> HIDE DEF w
<1>9. /\ vault'.total_shares = vault.total_shares /\ vault'.fee_anchor = vault.fee_anchor
      /\ vault'.withdraw_queue = vault.withdraw_queue
      /\ vault'.external_assets = Sum(principal')
      /\ vault'.idle_assets = vault.idle_assets + realized
    BY <1>1, <1>2, <1>5, <1>6, <1>7, <1>8, FinishSound
<1>10. MarketsInv'
    BY <1>1, <1>2, <1>9, ObservedIsFresh, Zenon DEF LedgerInv
<1> QED BY <1>1, <1>9, <1>10, SharesStay DEF LedgerInv

\* Observing markets anew.
LEMMA RefreshLedger ==
    ASSUME VaultInv, LedgerInv, NEW ms \in SUBSET Markets, RefreshMarkets(ms)
    PROVE  /\ LedgerInv' /\ vault'.fee_anchor = vault.fee_anchor
           /\ vault'.idle_assets = vault.idle_assets
<1> DEFINE b == BeginRefreshing(vault)
           external == Sum(principal')
           e == SyncExternalAssets(b, external)
<1>1. /\ vault' = Finish(e) /\ external \in Nat
      /\ principal' = [m \in Markets |-> IF m \in ms THEN value[m] ELSE principal[m]]
      /\ observed' = [m \in Markets |-> IF m \in ms THEN now ELSE observed[m]]
      /\ nav_refreshed' = IF CoversAllPrincipal(ms) THEN now ELSE nav_refreshed
      /\ UNCHANGED <<shares, now, idle_resync_last, paused>>
    BY KernelAssumption DEF RefreshMarkets, CanSyncExternalAssets, tokens, policy
<1>2. external = Sum(principal')
    OBVIOUS
<1> HIDE DEF external
<1>3. IsVault(vault)
    BY DEF VaultInv
<1>4. /\ IsVault(b) /\ b.total_shares = vault.total_shares /\ b.fee_anchor = vault.fee_anchor
      /\ b.withdraw_queue = vault.withdraw_queue /\ b.idle_assets = vault.idle_assets
    BY <1>3, BeginRefreshingSound
<1> HIDE DEF b
<1>5. /\ IsVault(e) /\ e.total_shares = b.total_shares /\ e.fee_anchor = b.fee_anchor
      /\ e.withdraw_queue = b.withdraw_queue /\ e.external_assets = external
      /\ e.idle_assets = b.idle_assets
    BY <1>1, <1>4, SyncExternalAssetsSound
<1> HIDE DEF e
<1>6. /\ vault'.total_shares = vault.total_shares /\ vault'.fee_anchor = vault.fee_anchor
      /\ vault'.withdraw_queue = vault.withdraw_queue /\ vault'.external_assets = external
      /\ vault'.idle_assets = vault.idle_assets
    BY <1>1, <1>4, <1>5, FinishSound
<1>7. /\ now \in Nat /\ nav_refreshed \in 0..now /\ idle_resync_last \in 0..now
      /\ principal \in [Markets -> Nat] /\ observed \in [Markets -> Nat]
      /\ value \in [Markets -> Nat]
      /\ \A k \in Markets : principal[k] > 0 => observed[k] >= nav_refreshed
    BY DEF VaultInv, LedgerInv, MarketsInv, NavIsAsFreshAsClaimed
<1>8. principal' \in [Markets -> Nat] /\ observed' \in [Markets -> Nat]
    BY <1>1, <1>7
<1>9. ASSUME NEW k \in Markets, principal'[k] > 0 PROVE observed'[k] >= nav_refreshed'
    <2>1. CASE k \in ms
        <3>1. observed'[k] = now
            BY <1>1, <2>1
        <3> QED BY <1>1, <1>7, <3>1
    <2>2. CASE k \notin ms
        <3>1. principal[k] > 0 /\ observed'[k] = observed[k] /\ principal[k] \in Nat
            BY <1>1, <1>7, <1>9, <2>2
        <3>2. ~CoversAllPrincipal(ms)
            BY <2>2, <3>1 DEF CoversAllPrincipal
        <3> QED BY <1>1, <1>7, <3>1, <3>2
    <2> QED BY <2>1, <2>2
<1>10. nav_refreshed' \in 0..now' /\ idle_resync_last' \in 0..now'
    BY <1>1, <1>7
<1>11. paused' \in BOOLEAN
    BY <1>1 DEF LedgerInv, MarketsInv
<1>12. MarketsInv'
    BY <1>2, <1>6, <1>8, <1>9, <1>10, <1>11, Zenon DEF MarketsInv, NavIsAsFreshAsClaimed
<1> QED BY <1>1, <1>6, <1>12, SharesStay DEF LedgerInv

\* A transaction that mints the fees of s and nothing else.
LEMMA FeesLedger ==
    ASSUME VaultInv, LedgerInv, NEW s, s.total_shares \in Nat,
           s.total_shares >= vault.total_shares, shares' = WithFees(s),
           vault'.total_shares = s.total_shares,
           vault'.withdraw_queue = vault.withdraw_queue,
           vault'.external_assets = vault.external_assets,
           UNCHANGED <<principal, observed, nav_refreshed, now, paused>>,
           idle_resync_last' \in {idle_resync_last, now}
    PROVE  LedgerInv'
<1>1. /\ shares' \in [Accounts -> Nat] /\ Sum(shares') = s.total_shares
      /\ shares'[SELF] = shares[SELF]
    BY FeesBalance DEF LedgerInv
<1>2. SharesInv'
    BY <1>1 DEF SharesInv, LedgerInv
<1>3. paused' \in BOOLEAN /\ now \in Nat
    BY DEF LedgerInv, MarketsInv, VaultInv
<1>4. MarketsInv'
    BY <1>3, MarketsStay DEF LedgerInv
<1> QED BY <1>2, <1>4 DEF LedgerInv

\* Upkeep of the fees.
LEMMA RefreshFeesLedger ==
    ASSUME VaultInv, LedgerInv, RefreshVaultFees
    PROVE  LedgerInv'
<1>1. PICK s : /\ \/ s = Reconciled
                  \/ CanRefreshFees(vault, fees, now) /\ s = RefreshFees(vault, fees, now)
               /\ vault' = s /\ shares' = WithFees(s)
               /\ UNCHANGED <<principal, observed, nav_refreshed, now, paused, idle_resync_last>>
    BY DEF RefreshVaultFees, Reconciled, markets, policy, clocks
<1>2. /\ s.total_shares \in Nat /\ s.total_shares >= vault.total_shares
      /\ s.external_assets = vault.external_assets
      /\ s.withdraw_queue = vault.withdraw_queue
    <2>1. CASE s = Reconciled
        BY <2>1, SettledSame
    <2>2. CASE CanRefreshFees(vault, fees, now) /\ s = RefreshFees(vault, fees, now)
        <3>1. IsVault(vault) /\ fees \in FeesSpec /\ now \in Nat
            BY DEF VaultInv
        <3>2. now >= vault.fee_anchor.timestamp
            BY <2>2, <3>1 DEF CanRefreshFees, IsVault
        <3> QED BY <2>2, <3>1, <3>2, RefreshFeesSound DEF IsVault
    <2> QED BY <1>1, <2>1, <2>2
<1> QED BY <1>1, <1>2, FeesLedger

\* New fees settle the old ones.
LEMMA SetFeesLedger ==
    ASSUME VaultInv, LedgerInv, NEW spec \in FeeSpecs, SetFees(spec)
    PROVE  LedgerInv'
<1> DEFINE s == FeesSettled
           anchor == [total_assets |-> s.total_assets, timestamp |-> now]
<1>1. /\ vault' = [s EXCEPT !.fee_anchor = anchor] \/ vault' = s
      /\ shares' = WithFees(s)
      /\ UNCHANGED <<principal, observed, nav_refreshed, now, paused, idle_resync_last>>
    BY DEF SetFees, markets, clocks
<1>2. /\ IsVault(s) /\ s.total_shares \in Nat /\ s.total_shares >= vault.total_shares
      /\ s.external_assets = vault.external_assets
      /\ s.withdraw_queue = vault.withdraw_queue
    BY SettledSame
<1> HIDE DEF s, anchor
<1>3. /\ vault'.total_shares = s.total_shares /\ vault'.withdraw_queue = vault.withdraw_queue
      /\ vault'.external_assets = vault.external_assets
    BY <1>1, <1>2 DEF IsVault
<1> QED BY <1>1, <1>2, <1>3, FeesLedger

\* A transfer of shares.
LEMMA TransferLedger ==
    ASSUME VaultInv, LedgerInv, NEW a \in Holders, NEW b \in Receivers, NEW x \in Nat,
           TransferShares(a, b, x)
    PROVE  LedgerInv'
<1>1. /\ a # b /\ shares[a] >= x /\ vault' = vault
      /\ shares' = [shares EXCEPT ![a] = @ - x, ![b] = @ + x]
      /\ UNCHANGED <<principal, observed, nav_refreshed, now, paused, idle_resync_last>>
    BY DEF TransferShares, markets, policy, clocks
<1>2. /\ a \in Accounts /\ b \in Accounts /\ a # SELF /\ SELF \in Accounts
      /\ shares \in [Accounts -> Nat]
    BY FiniteLedgers DEF LedgerInv, SharesInv
<1>3. /\ shares' \in [Accounts -> Nat]
      /\ shares'[a] = shares[a] - x /\ shares'[b] = shares[b] + x
      /\ \A k \in Accounts \ {a, b} : shares'[k] = shares[k]
    BY <1>1, <1>2
<1>4. Sum(shares') = Sum(shares)
    BY <1>1, <1>2, <1>3, TwoBalances, Zenon
<1>5. shares'[SELF] >= vault.withdraw_queue.escrow
    <2>1. /\ shares[SELF] >= vault.withdraw_queue.escrow /\ vault.withdraw_queue.escrow \in Nat
        BY QueueSums DEF LedgerInv, SharesInv, ExactQueue
    <2>2. shares'[SELF] \in Nat /\ shares[SELF] \in Nat /\ shares'[SELF] >= shares[SELF]
        BY <1>2, <1>3
    <2> QED BY <2>1, <2>2
<1>6. SharesInv'
    BY <1>1, <1>3, <1>4, <1>5 DEF LedgerInv, SharesInv
<1>7. paused' \in BOOLEAN /\ now \in Nat
    BY <1>1 DEF LedgerInv, MarketsInv, VaultInv
<1>8. MarketsInv'
    BY <1>1, <1>7, MarketsStay DEF LedgerInv
<1> QED BY <1>1, <1>6, <1>8 DEF LedgerInv

\* Steps that touch neither the kernel state nor the share ledger.
LEMMA QuietLedger ==
    ASSUME VaultInv, LedgerInv, vault' = vault, shares' = shares,
           UNCHANGED <<principal, observed, nav_refreshed, idle_resync_last>>,
           paused' \in BOOLEAN, now' \in Nat, now' >= now
    PROVE  LedgerInv'
<1>1. MarketsInv'
    BY MarketsStay DEF LedgerInv
<1> QED BY <1>1, SharesStay DEF LedgerInv

\* Every transaction and every step of the environment keeps the ledgers.
LEMMA NextLedger == VaultInv /\ LedgerInv /\ [Next]_vars => LedgerInv'
<1> SUFFICES ASSUME VaultInv, LedgerInv, [Next]_vars PROVE LedgerInv'
    OBVIOUS
<1> USE SorobanAssumption
<1>0. /\ held \in Nat /\ now \in Nat /\ value \in [Markets -> Nat]
      /\ \A x \in Amounts : x \in Nat /\ x - 1 \in Nat
    BY DEF VaultInv
<1>00. paused \in BOOLEAN
    BY DEF LedgerInv, MarketsInv
<1>1. CASE \E o \in Users, r \in Receivers, x \in Amounts : DepositAssets(o, r, x)
    BY <1>0, <1>1, DepositLedger
<1>2. CASE \E o \in Holders, r \in Receivers, x \in Amounts : RequestWithdrawal(o, r, x)
    BY <1>0, <1>2, RequestLedger
<1>3. CASE \E o \in Holders, r \in Receivers, x \in Amounts : AtomicWithdrawAssets(o, r, x)
    <2>1. PICK o \in Holders, r \in Receivers, x \in Amounts : AtomicWithdrawAssets(o, r, x)
        BY <1>3
    <2>2. AtomicExit(FeesSettled, o, r, x, ConvertToWithdrawShares(FeesSettled, x))
        BY <2>1 DEF AtomicWithdrawAssets
    <2>3. ConvertToWithdrawShares(FeesSettled, x) \in Nat
        BY <1>0, SettledSound, SharesForWithdrawal
    <2> QED BY <1>0, <2>2, <2>3, ExitLedger
<1>4. CASE \E o \in Holders, r \in Receivers, x \in Amounts : AtomicRedeemShares(o, r, x)
    <2>1. PICK o \in Holders, r \in Receivers, x \in Amounts : AtomicRedeemShares(o, r, x)
        BY <1>4
    <2>2. AtomicExit(FeesSettled, o, r, ConvertToRedeemAssets(FeesSettled, x), x)
        BY <2>1 DEF AtomicRedeemShares
    <2>3. ConvertToRedeemAssets(FeesSettled, x) \in Nat
        BY <1>0, SettledSound, AssetsForShares
    <2> QED BY <1>0, <2>2, <2>3, ExitLedger
<1>5. CASE ExecuteWithdraw
    BY <1>5, ExecuteLedger
<1>6. CASE \E m \in Markets, x \in Amounts : \E got \in {x, x - 1} : AllocateSupply(m, x, got)
    BY <1>0, <1>6, SupplyLedger, Zenon
<1>7. CASE \E m \in Markets, x \in Amounts : \E got \in 0..Least(x, value[m]) :
                AllocateWithdraw(m, got)
    <2>1. PICK m \in Markets, x \in Amounts : \E got \in 0..Least(x, value[m]) :
                AllocateWithdraw(m, got)
        BY <1>7
    <2>2. PICK got \in 0..Least(x, value[m]) : AllocateWithdraw(m, got)
        BY <2>1
    <2>3. value[m] \in Nat /\ x \in Nat
        BY <1>0
    <2>4. got \in Nat /\ got <= value[m]
        BY <2>2, <2>3 DEF Least
    <2> QED BY <2>2, <2>4, WithdrawLedger
<1>8. CASE \E ms \in SUBSET Markets : RefreshMarkets(ms)
    BY <1>8, RefreshLedger
<1>9. CASE RefreshVaultFees
    BY <1>9, RefreshFeesLedger
<1>10. CASE ResyncIdleBalance
    <2>1. /\ vault' = Reconciled /\ shares' = WithFees(Reconciled) /\ idle_resync_last' = now
          /\ UNCHANGED <<principal, observed, nav_refreshed, now, paused>>
        BY <1>10 DEF ResyncIdleBalance, WithFees, markets, policy
    <2>2. /\ Reconciled.total_shares \in Nat /\ Reconciled.total_shares >= vault.total_shares
          /\ Reconciled.external_assets = vault.external_assets
          /\ Reconciled.withdraw_queue = vault.withdraw_queue
        BY SettledSame
    <2> QED BY <2>1, <2>2, FeesLedger
<1>11. CASE \E f \in FeeSpecs : SetFees(f)
    BY <1>11, SetFeesLedger
<1>12. CASE \E a \in Holders, b \in Receivers, x \in Amounts : TransferShares(a, b, x)
    BY <1>0, <1>12, TransferLedger
<1>13. CASE \E flag \in BOOLEAN : SetPaused(flag)
    <2>1. paused' \in BOOLEAN
        BY <1>13 DEF SetPaused
    <2> QED BY <1>0, <1>13, <2>1, QuietLedger DEF SetPaused, tokens, markets, clocks
<1>14. CASE \/ \E r \in RestrictionSpecs : SetRestrictions(r)
            \/ \E flag \in TokenPauses : SetTokenPaused(flag)
            \/ \E r \in TokenRestrictionSpecs : SetTokenRestrictions(r)
            \/ \E x \in Amounts : Donate(x)
            \/ \E m \in Markets : Gain(m) \/ Loss(m)
            \/ Tick
            \/ UNCHANGED vars
    <2>1. /\ vault' = vault /\ shares' = shares
          /\ UNCHANGED <<principal, observed, nav_refreshed, idle_resync_last, paused>>
          /\ now' \in {now, now + 1}
        BY <1>14 DEF SetRestrictions, SetTokenPaused, SetTokenRestrictions, Donate, Gain, Loss,
                     Tick, vars, tokens, markets, policy, clocks
    <2>2. paused' \in BOOLEAN
        BY <1>00, <2>1
    <2>3. now' \in Nat /\ now' >= now
        BY <1>0, <2>1
    <2> QED BY <2>1, <2>2, <2>3, QuietLedger
<1> QED BY <1>1, <1>2, <1>3, <1>4, <1>5, <1>6, <1>7, <1>8, <1>9, <1>10, <1>11, <1>12,
           <1>13, <1>14 DEF Next

\* The ledgers are exact in every reachable state.
THEOREM LedgerInvariant == Spec => [](VaultInv /\ LedgerInv)
<1>1. Init => VaultInv /\ LedgerInv
    BY InitEstablishes, InitLedger
<1>2. VaultInv /\ LedgerInv /\ [Next]_vars => (VaultInv /\ LedgerInv)'
    BY NextKeeps, NextLedger
<1> QED BY <1>1, <1>2, PTL DEF Spec

\* What the kernel counts as external is what was last observed of the markets.
THEOREM ExternalAlwaysObserved == Spec => []ExternalIsObserved
<1>1. VaultInv /\ LedgerInv => ExternalIsObserved
    <2> SUFFICES ASSUME VaultInv, LedgerInv PROVE ExternalIsObserved
        OBVIOUS
    <2>1. /\ vault.total_assets \in Nat /\ vault.total_shares \in Nat
          /\ vault.idle_assets \in Nat /\ vault.external_assets \in Nat
          /\ vault.fee_anchor \in [total_assets : Nat, timestamp : Nat]
          /\ vault.next_op_id \in Nat
        BY DEF VaultInv, IsVault
    <2>2. \A id \in DOMAIN vault.withdraw_queue.pending :
                id \in Nat /\ vault.withdraw_queue.pending[id] \in Request
        BY QueueSums DEF LedgerInv, ExactQueue
    <2>3. paused \in BOOLEAN
        BY DEF LedgerInv, MarketsInv
    <2>4. /\ shares \in [Accounts -> Nat] /\ held \in Nat
          /\ value \in [Markets -> Nat] /\ principal \in [Markets -> Nat]
          /\ observed \in [Markets -> Nat]
          /\ now \in Nat /\ nav_refreshed \in 0..now /\ idle_resync_last \in 0..now
          /\ vault.external_assets = Sum(principal)
        BY DEF VaultInv, LedgerInv, MarketsInv, SharesInv
    <2> QED BY <2>1, <2>2, <2>3, <2>4, Zenon DEF ExternalIsObserved, TypeOK
<1> QED BY <1>1, LedgerInvariant, PTL

\* The queue has no gap and its cached totals are the totals.
THEOREM QueueAlwaysExact == Spec => []QueueExact
<1>1. LedgerInv => QueueExact
    BY DEF LedgerInv, ExactQueue, QueueExact
<1> QED BY <1>1, LedgerInvariant, PTL

\* The supply the kernel prices with is that of the share token, and the vault
\* holds the escrow.
THEOREM SharesAlwaysBacked == Spec => []SharesBacked
<1>1. LedgerInv => SharesBacked
    BY DEF LedgerInv, SharesInv, SharesBacked
<1> QED BY <1>1, LedgerInvariant, PTL

\* The age that admits a deposit bounds the age of every observation.
THEOREM NavAlwaysFresh == Spec => []NavIsAsFreshAsClaimed
<1>1. LedgerInv => NavIsAsFreshAsClaimed
    BY DEF LedgerInv, MarketsInv
<1> QED BY <1>1, LedgerInvariant, PTL
=============================================================================
