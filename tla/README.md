# Verification of the Templar contracts

TLA+ models of the Templar lending protocol, TLC instances that check them, and TLAPS proofs of what matters most
about them for every value of their constants. Paths are relative to the root of the repository.

- [The system](#the-system)
- [Modules and the code they model](#modules-and-the-code-they-model)
- [Runs](#runs)
- [Bounds and fairness](#bounds-and-fairness)
- [Proofs](#proofs)
- [Where code and documentation disagree](#where-code-and-documentation-disagree)
- [What is left out](#what-is-left-out)

## The system

Templar is an overcollateralized lending protocol. Its **markets** run on NEAR: one contract per pair of assets, in
which suppliers deposit the borrow asset, borrowers deposit collateral and borrow against it, anybody may liquidate a
position that is under water or expired, and suppliers leave through a **withdrawal queue** when there is liquidity.
Prices come from **proxy oracles** that aggregate sources behind circuit breakers, governed by timelocked proposals.
**Curated vaults** pool deposits into shares and spread them over markets; one accounting **kernel** is shared by a
NEAR and a **Soroban** (Stellar) executor. Off-chain a **gateway** drives multi-step operations through the chain, and
a **relayer** on top of it pays for the operations of others out of allowances.

What makes it hard:

- On NEAR a call ends with a promise. The transfer or the oracle's answer arrives in a later receipt, receipts of
  different calls arrive in any order, and each may fail. Contracts lock amounts in a first step and settle them in a
  callback, while others (the position's owner included) go on; a callback may find that what it belongs to has ended.
- Interest and yield are lazy. The market finalizes a snapshot when it is first touched in a new time chunk; each
  position passes over the finalized snapshots when it is next touched, possibly in several partial passes. Totals are
  eager, positions are lazy, and both must agree.
- A vault prices shares from the books of its kernel, which must follow token balances it does not control (donations,
  failed transfers), market values it only sees when it looks, and fees that accrue between transactions.
- A proposal of the oracle's governance waits under the policy of the day it was filed, while policy, roles and the
  oracle's configuration change under it.
- The gateway and the relayer crash between any two steps, and must not sign a second time what may still land, nor
  release a charge for something that executed.

## Modules and the code they model

| Modules | Model | State |
|---|---|---|
| `WithdrawalQueue` | `common/src/withdrawal_queue.rs` | nodes with links, account index, head, tail, length, id counter |
| `RequestFifo` | what the queue promises: first in, first out | one sequence of requests |
| `Market`, `SupplyPositions`, `BorrowPositions` | `common/src/market`, `snapshot.rs`, `accumulator.rs`, `supply.rs`, `borrow.rs` | operators on the market record |
| `MarketContract` | `contract/market/src` | `market`, `now`, bag `pending` of receipts, the two token accounts |
| `VaultKernel` | `contract/vault/kernel/src` | operators on the kernel state |
| `SorobanVault` | `contract/vault/soroban/src`, and of `contract/vault/curator-primitives` what it uses | kernel state, share and asset balances, the share token's pause and restrictions, policy, clocks |
| `NearVault` | the handlers of `contract/vault/near/src` | operators on the contract's storage |
| `NearVaultSystem` | its entry points and callbacks among token and markets | storage, receipts in flight, token and market accounts |
| `GatewayStore`, `GatewayDriver` | `gateway/core/src` and the Postgres store | rows, tasks in flight, signed transactions and their fates |
| `RelayerCharges` | `service/relayer/src` | requests, charges, allowances, the broom, startup recovery |
| `MeteredExecution` | what the relayer promises: steps execute once, in order, and are paid for | charges, executed steps, allowances |
| `CircuitBreakers`, `PriceAggregation` | `contract/proxy-oracle/kernel` | operators on breaker sets and answers |
| `ProxyOracleState`, `NearProxyOracle`, `SorobanProxyOracle` | `contract/proxy-oracle/near/{contract,common}`, `.../soroban/contract` | proxy, breaker set, cache; epochs and updates in flight (NEAR); served history (Soroban) |
| `GovernanceKernel`, `NearGovernance`, `SorobanGovernance` | `contract/proxy-oracle/governance-kernel` and both governance contracts | proposal ledger, policy, roles, target calls in flight |
| `ProxyOracleSystem` | the four deployments: either oracle, owned by an account or governed | the above |
| `MarketProperties`, `NearVaultProperties`, `RelayerProperties`, `ProxyOracleProperties` | properties, with their history variables | |
| `MCWithdrawalQueue`, `MCMarket`, `MCVault`, `MCNearVault`, `MCRelayer`, `MCProxyOracle` | values for TLC | |

**The withdrawal queue.** `AddNew`, `UpdateExisting`, `Remove`, `Pop` and `MutHead` are the operations of the linked
list, statement by statement as far as links are concerned. `MarketContract` uses the abstract queue, a sequence of
requests with one per account; `ImplementsFifo` says that the linked list implements it.

**The market.** A market is one record, as in the code; `Market`, `SupplyPositions` and `BorrowPositions` translate
the methods of `Market`, `SupplyPositionGuard` and `BorrowPositionGuard` into operators from market to market, with an
operator `Can...` for the panics and errors of each. `MarketContract` turns every entry point and every callback into
one action. A receipt in flight is a record in the bag `pending`, and `Next` may take any of them. The oracle answers
with a price or not at all, and a transfer succeeds or fails (`PriceCallbackFails`, `Outcomes`); a receipt that panics
leaves the market as it was, and a transfer-call gives back what was not accepted. `borrow_token` and
`collateral_token` are the market's accounts at the token contracts, which the code cannot see: they are what its
books are compared with. Interest is kept in units of `1/UNIT` token, so that fractions are exact and the rounding is
the code's. The rate curve, the fees and the ranges are constants. A price is the pair of ends of the confidence
intervals that the code compares with, the low one of the collateral and the high one of the borrow asset. `Serve` is
the loop over the queue, as a recursive function of the number of turns.

**The vault kernel and the Soroban vault.** `VaultKernel` has an operator per kernel handler (`Deposit`,
`AtomicWithdraw`, `RequestWithdraw`, `SettlePayout`, `BeginAllocating`, `SyncExternalAssets`, `RebalanceWithdraw`,
`RefreshFees`, ...), with the op-state transitions they make and a `Can...` operator for their errors. In
`SorobanVault` a transaction is one action: Soroban reverts a failed transaction as a whole, so what is interesting
lies between transactions: whatever order they come in, tokens sent to the vault uninvited (`Donate`), markets that
gain and lose (`Gain`, `Loss`), time. The exception is a payout that fails: the executor catches it and settles the
request as failed (`SettleWithdrawal`). Shares live in a token contract with a pause and restrictions of its own,
which the vault neither sets nor reads (`share_token`, `SetTokenPaused`, `SetTokenRestrictions`): every mint, burn,
transfer and refund it refuses (`CanMintOrBurn`, `CanTransfer`, `CanMintFees`) reverts the transaction it is part of.
`MulDiv` and `MulDivCeil` are the kernel's roundings; the two-basis quotes of exits and the fee anchor with its growth
cap are modelled as they are. Skipping requests drops the longest prefix of requests that must be skipped; that is the
loop of the code because the head is the least waiting id (`QueueExact`).

**The NEAR vault.** The same kernel, but an operation spans many receipts. A handler of `NearVault` is an operator
from the contract's storage to a result: the storage it leaves and the receipts it sends; one that panics leaves the
storage and sends nothing. `NearVaultSystem` has an action per entry point and per callback. The token handles the
vault's receipts in order, markets answer in any order, a receipt may fail (`mishaps`), `unbrick` may end an operation
whose callbacks are still under way, and a callback compares op id and fencing token of its market lease with what it
finds. `Mirror` is the conversion between the executor's storage and the kernel's state. Shares can be transferred, to
the vault itself too, where nobody can redeem them; the history field `strays` counts those, so that the escrow can be
compared exactly. The markets are modelled as the vault meets them: what they do of a supply withdrawal in three
receipts is one action here, because the vault hears of it at the end.

**Gateway and relayer.** `GatewayStore` has an operation in memory (`StoredOperation`), the rows the store keeps of
it, and the conversion in both directions (`save_steps`, `rows_to_stored_operation`) with what each refuses.
`GatewayDriver` cuts every method of the driver at its awaits: lease a key, sign, save, submit, poll primary and
archival nodes, reconcile. A transaction has a fate (signed, submitted, in flight, executed), an age on the chain and
a time since its submission on the driver's clock; the chain may apply it up to the age `Validity`, and the driver
takes silence of all archival nodes beyond `Horizon` for proof that it never landed. The two are different clocks: a
chain that stands still makes `Validity` larger. Nonces are handed out by the process that signs, so a process that
starts again reads the next one from the chain and may sign one that an earlier process has signed too.
`RelayerCharges` locks, settles and releases a charge around each operation, with the sweep of the broom, startup
recovery and crashes, which keep rows, chain and ledger and lose everything else. A sweep takes the oldest charges, at
most `BatchSize`; a charge is an estimate, so a settlement may take more than was locked, down to an allowance of
zero.

**Proxy oracle.** `CircuitBreakers` has the four breaker rules, all edits of a breaker set and `try_accept_price`;
`PriceAggregation` the filters and the Priority, MedianLow and MedianHigh aggregators. The median sorts with an
unstable sort, so `Aggregate` is the set of prices the build may return. `update_prices` on NEAR stores nothing and
hands the proxy and the cache epoch it read to a callback; a refresh on Soroban is one transaction. Governance is the
proposal ledger shared by both, with NEAR's policy table and its detached target calls, and Soroban's timelock per
action and calls inside the execution. Both refuse ill-formed proposals when they are filed and when they are executed
(`NearValid`, `SorobanValid`), and `set_proxy` on Soroban refuses what `validate_proxy_config` and
`validate_source_decimals` refuse (`ValidProxyConfig`, `SourcesReadable`).

Comments that begin with "Mutant:" mark deliberate wrong versions of the definition below them. They are used by no
specification; each shows that a property would notice the mistake.

## Runs

States are distinct states; times are with two workers.

| Run | Instance | What it shows |
|---|---|---|
| `withdrawal_queue` | 3 accounts, 2 amounts, 3200 states | Links, index and length are exact (`QueueInv`), so are the place and depth reported for an account (`StatusIsExact`), and the list implements `RequestFifo`. |
| `market_receipts` | four workloads: suppliers leaving in batches, one leaving by parts, three receipts of one borrower in flight, two suppliers sharing a loan in partial passes, at most 2 incoming deposits per position; 189 842 states, 40 s | Tokens held are the tokens booked (`TokensAccounted`); the market's totals are the sums over its positions (`TotalsExact`); every lock has a callback that can release it (`LocksMatchCallbacks`); no finalized snapshot pays out more than it has, whoever accumulates when (`SharesBounded`). |
| `market_value` | three workloads: a loan from collateral to repayment or liquidation over 4 chunks and 2 prices, two receipts of such a loan in flight at once, and the protocol account taking its yield; 83 766 states, 40 s | To the last fraction of a token the market never promises more than it has, is owed or wrote off (`Solvent`), and no step takes value out of it (`NetWorthNeverFalls`). |
| `vault_exits` | 2 users, one who cannot be paid, black and white lists, a share token that pauses and restricts on its own, 2 requests, 122 280 states, 45 s | Queue totals, escrow and share supply agree after every transaction (`QueueExact`, `SharesBacked`); every request is settled unless the vault stays paused or the share token refuses the head's refund for ever (`RequestsServed`). |
| `vault_funds` | 2 markets that gain and lose, both fees with a cap, donations, 228 730 states, 25 s | Books and custody agree (`BooksBalance`, `IdleBacked`); external assets are what was last observed of each market (`ExternalIsObserved`); the vault never claims to have looked at its markets later than it did (`NavIsAsFreshAsClaimed`); nobody's entry or exit makes the shares of others worth less (`HoldersKeepTheirPrice`); only a gain of a market bears a performance fee (`NoFeeWithoutGain`). |
| `near_vault` | 1 user, 1 market, share transfers to the vault, 3 operations and requests, 2 receipts between vault and token, one mishap, 606 302 states, 45 s | Escrow, address book, leases and totals are exact (`BooksExact`); a market's answer is booked against the principal it was computed from (`SettlesOnCurrentPrincipal`); a request is paid or refunded, never both (`PaidXorRefunded`); only an allocation whose supply was given back is ever left without a callback that ends it, and then its tokens are with the vault (`OnlySuppliesStrand`). |
| `relayer_recovery` | one operation of up to two steps, any two mishaps or crashes, with and without an archival node, 100 471 states, 1 min | What the store holds is what the driver knew (`RowsFaithful`); a rejected transaction never lands, as long as the chain does not stand still longer than the horizon allows (`RejectionIsProof`); a finished operation stays finished (`TerminalIsFinal`); the whole implements `MeteredExecution` (`MeteredSpec`); every charge is resolved unless its own operation hangs on a step no node can confirm or its reservation leaked (`EveryChargeResolves`). |
| `relayer_concurrent` | two operations on one key, of one account or another, estimates that fall short, one mishap, 793 580 states, 1 min | The nonces one process signs reach the network in order (`LaneOrder`); every account pays exactly what the chain executed for it, down to zero (`BilledExactly`); an allowance is overcommitted by estimates that fell short and by nothing else (`ReservationsCovered`). |
| `proxy_oracle` | both runtimes, owned and governed, 245 768 states, 1 min | No price is served while breakers block (`BlockedIsNeverServed`); histories advance (`HistoriesAdvance`); what is served is within the step of its breakers (`ServedWithinStep`); a majority of the weight bounds the median (`MajorityBoundsTheMedian`); breaker sets stay valid and ids keep their meaning (`BreakerSetsStaySound`); updates begun before a reconfiguration leave no trace (`SupersededUpdatesAreIgnored`); an expired answer comes back only with a refresh (`ExpiredStaysExpired`); the proposal ledger is exact and an administrator remains (`GovernanceStaysOperable`); ids are spent once (`IdsAreSpentOnce`); a lock is only weakened by a proposal that waited it out (`LocksAreWaitedOut`). |
| `market_active_covers_borrowed`, `near_orphan`, `relayer_starved` | violations | See [below](#where-code-and-documentation-disagree). |

The hazards behind these properties, with the line at which each bites, are in `PROJECT.json`.

## Bounds and fairness

- *Market.* A run explores several workloads (`Workloads`), each with its own accounts, amounts and limits. `max_time`
  is 2 to 4 time chunks: a deposit made in one chunk is active from the next snapshot on and earns in the one after,
  so three chunks hold a whole cycle and the fourth a second pass over snapshots. `max_pending`, the receipts in
  flight, is 1 in the longest workload and 2 or 3 where receipts race. `MAX_INCOMING` is 4 in the code; 2 in
  `market_receipts` is the number its workloads fill, so the refusal of one more deposit and the put-back of a failed
  withdrawal are met at the limit. Amounts are chosen such that requests are served fully, partly and not at all,
  debts are paid off and left, and a doubled price makes a position liquidatable. `snapshot_limits` are the lengths of
  partial passes, `batch_limits` those of batches.
- *Soroban vault.* `MaxHeld` bounds tokens, `MaxOpId` operations, `MaxRequests` requests, `MaxTime` time, `MaxGain`
  gains. A request is only made when its cooldown ends before `MaxTime`, as otherwise the end of time would keep it
  waiting. Offsets, cooldowns and minimum amounts of 0 or 1 provoke the extreme roundings; the proofs cover all
  others.
- *NEAR vault.* `MaxWork` operations and withdrawal requests together, `MaxLeases` fencing tokens, `MaxReceipts`
  receipts on the way between vault and token, `MaxMishaps` failing receipts and calls of `unbrick`: two operations
  suffice for a callback to arrive after its operation ended and another one holds its market, and the third may be
  the request one of them pays.
- *Relayer.* `MaxMishaps` bounds failed calls and crashes; with two, a crash can interrupt the recovery from another.
  Ages are capped at one more than `Validity` and `Horizon`; with a horizon of 0 a transaction is out of date after
  the first tick, and whether the answer, the tick or a crash comes first is open. `ArchivalNodes` lists the numbers
  of archival endpoints considered: none for the relayer as it is set up, one for the gateway's own service.
  `SlowInserts` lets a reservation take longer than `MIN_PENDING_AGE` to insert (see
  [below](#where-code-and-documentation-disagree)).
- *Proxy oracle.* `MaxNow`, `MaxEpoch`, `MaxOwnerCalls`, `MaxProposals`, `MaxBreakerIds`; two updates in flight, two
  breakers, histories of two or three prices, proposals that overtake each other. The limits of
  `validate_proxy_config` are small enough that some configurations are refused by each of them.
- *Symmetry* is used between suppliers, between markets and between updates in flight, in runs that check only safety.
- *Fairness.* `LiveSpec` of the Soroban vault: weak fairness of `ExecuteWithdraw`, an entry point anybody may call and
  that depends on nobody else, and of time. Nothing is assumed of users, allocators or governance, which is why
  `RequestsServed` speaks of vaults that do not stay paused and of share tokens that do not refuse the head's refund
  for ever, and is checked without markets and fees: a request is a fixed claim, so after a loss or dilution its head
  may be larger than what will be idle until an allocator recalls liquidity. `FairSpec` of the relayer: the process
  keeps running what it has in hand (requests, driver tasks, the broom's timer, recovery after a restart) and time
  passes. Nothing is assumed of clients, of the chain (a broadcast transaction may never be applied) or of mishaps,
  except that there are only so many of them.
- *Deadlock* is checked where the system cannot stop; the queue, the NEAR vault, the relayer and the oracle may, when
  identifiers, receipts or time are used up.

## Proofs

The theorems below hold for every value of the constants that satisfies the named assumptions next to their
declarations (`QueueAssumption`, `KernelAssumption`, `SorobanAssumption`, `GovernanceBounds`, `MethodBound`,
`HistoryBound`, `OracleBounds`, `CallBound`, `WorkloadShape`): amounts, bounds and offsets are natural numbers, sets
that are summed over are finite, names are apart, inputs have the types the contracts accept. TLC evaluates them on
its instances. Every theorem about a specification has the same form: an inductive invariant holds initially and is
kept by each action (one step per action), it implies the property or, for an action property, allows only steps that
satisfy it, and a last temporal step puts these together.

| Module | Theorems | Inductive invariant |
|---|---|---|
| `FiniteSums` | (lemmas) sums over finite sets | |
| `WithdrawalQueueProofs` | `QueueSafe`, `StatusAlwaysExact`, `ListImplementsFifo` | `QueueInv` |
| `SorobanVaultProofs` | `BooksAlwaysBalance`, `IdleAlwaysBacked` | `VaultInv` |
| `SorobanLedgerProofs` | `ExternalAlwaysObserved`, `QueueAlwaysExact`, `SharesAlwaysBacked`, `NavAlwaysFresh` | `VaultInv /\ LedgerInv` |
| `SorobanPriceProofs` | `PriceNeverFalls`, `FeesOnlyOnGains` | `VaultInv /\ LedgerInv` |
| `ProxyKernelProofs` | (lemmas) histories, breaker sets, median, proposal ledger, policies, roles | |
| `ProxyOracleProofs` | `BlockedNeverServed`, `SupersededIgnored`, `GovernanceOperable`, `IdsSpentOnce`, `LocksWaitedOut` | `BreakersInv`, `EpochInv`, `GovernanceInv` |
| `ProxyPriceProofs` | `HistoriesAlwaysAdvance`, `ServedAlwaysWithinStep`, `BreakersStaySound`, `ExpiredNeverResurrected`, `MajorityAlwaysBounds` | `OracleInv` |

**Sums.** The models add up balances, principals, escrows and weights with `SumFunctionOnSet`, a fold whose order
`CHOOSE` gives. The provers here cannot instantiate an induction theorem, since it takes an operator as a parameter.
`FiniteSums` therefore argues from a smallest counterexample: the subsets of a finite set are well founded under
inclusion, so if a statement about finite sets fails, it fails on a set that contains no other one it fails on, and
removing one element from that set is a contradiction. This shows that the fold does not depend on the order
(`SumAdd`), and from it what the ledgers need: adding, removing and changing one summand, sums of parts, pointwise
sums, grouping by owner. `LeastExists` and `GreatestExists` are the same argument for numbers.

**The withdrawal queue.** `QueueInv` is inductive as it stands. Identifiers only grow, so "in order of arrival" is "in
order of identifier", and the neighbours of each node determine the order of the whole list: an operation that relinks
two nodes disturbs the clauses of these two only. For `StatusAlwaysExact` and the refinement one more fact is needed:
the walk along the links, which is a recursive function of the number of steps, lists the live nodes in increasing
order (`Lists`). Its first deviation from that order is a contradiction. A set of numbers has only one such list, so
after every operation the new walk is the old one with the head removed, an element appended, a place removed or an
amount changed, which are the steps of `RequestFifo`.

**The Soroban vault.** `VaultInv` adds to `BooksBalance` and `IdleBacked` what the handlers rely on: all totals are
natural numbers, the fee anchor is one of an earlier moment, each waiting request has an escrow and an expected
amount. A first layer of lemmas says of every kernel handler which fields it changes and by how much (`DepositSound`,
`SettlePayoutSound`, `CrystallizedSound`, ...), a second composes them into transactions. `PriceNeverFalls` compares
fractions by cross-multiplication: an entry at a price rounded down, or an exit at one rounded up, leaves (assets +
offset) / (shares + offset) at least where it was once due fees are settled; the roundings are those of `MulDiv` and
`MulDivCeil`, with the offsets arbitrary. `LedgerInv` says that external assets are the sum of the principals, that
the waiting requests are an interval of ids whose sums are the cached totals, that the supply is the sum of all
balances and that the vault holds the escrow. It is the strengthening the four invariants need together: a settlement
burns, refunds and dequeues at once, and the refund to an owner who may be the fee recipient or the vault itself is
covered by the escrow only because the cached total is exact. For `FeesOnlyOnGains` each transaction is shown not to
raise the profit above the fee anchor unless it looks at a market.

**The proxy oracle.** `ProxyKernelProofs` is about values: `try_accept_price` and every edit of a breaker set keep
histories strictly increasing and within capacity and keep the meaning of ids (`IsStoredSet`, `Evolves`); what it
accepts is within the step of each armed breaker (`WithinStep`); whichever way ties are sorted, a majority of the
weight bounds the weighted median; the ledger of proposals changes only by `LedgerStep`. `BreakersInv` and `EpochInv`
carry the first two theorems: the epoch grows with every change of configuration, so an update that a change has
overtaken holds an older epoch than the present one and its callback returns early. `GovernanceInv` relates every
pending proposal to the policy it was filed under, because the policy may have changed since: that is why a weakened
lock was waited out as it was at filing. `OracleInv` adds types, the cache, and that what is served agrees with the
histories; it is inductive across all four deployments.

**What is only model-checked, and why.**

- `RequestsServed` and `EveryChargeResolves` are liveness properties, out of reach of the prover here.
- The market (`TokensAccounted`, `TotalsExact`, `LocksMatchCallbacks`, `SharesBounded`, `Solvent`,
  `NetWorthNeverFalls`): the queue is served by a recursive loop, finalized snapshots are folded over sequences and
  the receipts in flight are a bag, so the inductive invariants are about what recursive definitions compute, which
  needs induction over data. `Solvent` and `NetWorthNeverFalls` add to that the rounding of interest over all
  positions.
- The NEAR vault (`BooksExact`, `SettlesOnCurrentPrincipal`, `PaidXorRefunded`, `OnlySuppliesStrand`): routes are
  walked and requests skipped by recursive loops, and receipts in flight are folded over as well.
- The gateway and the relayer (`RowsFaithful`, `RejectionIsProof`, `TerminalIsFinal`, `LaneOrder`, `BilledExactly`,
  `ReservationsCovered`, `MeteredSpec`): these relate the contents of the rows, step by step, to the chain's record of
  every signature. The inductive invariant they need describes each row in each state of a save, and the case analysis
  over it is larger than all the other proofs together; TLC explores these states exhaustively for small plans.

## Where code and documentation disagree

With a run that shows it:

- `common/src/market/impl.rs:52` says that active deposits always cover what is borrowed and in flight. A withdrawal
  does not count borrows in flight as taken (`common/src/supply.rs:362`), so for a while they do not
  (`market_active_covers_borrowed`). Tokens stay accounted for and the market stays solvent.
- `contract/vault/near/README.md:180`, `:235` and `:353` say that any error stops an operation and returns to idle.
  When a market gives a supply back, the kernel refuses the step, the callback panics
  (`contract/vault/near/src/impl_callbacks.rs:225`), and the operation stays allocating until `unbrick`
  (`near_orphan`). Nothing is lost: that is what `OnlySuppliesStrand` says.
- `service/relayer/src/broom.rs:94` says that the driver ages out an unknown transaction on its own. It does so only
  with an archival endpoint, and the relayer sets its gateway client up without one. The charge of a transaction that
  never landed stays locked, at the front of the order in which sweeps take charges; as many of those as a sweep takes
  keep it from every younger charge, also one whose operation succeeded (`relayer_starved`).

Plain from the text, without a run:

- `docs/src/contract/market/liquidate.md:10` says "no refunds!" of liquidations; `record_liquidation` refunds what
  exceeds the collateral's value.
- `contract/market/src/impl_market_external.rs:386` calls it an invariant violation when a withdrawal of static yield
  exceeds the market's balance. Static yield accrues from interest that is owed, not paid, so a withdrawal within the
  accumulated total can get there. It fails and changes nothing.
- `contract/vault/kernel/src/state/op_state/mod.rs:184` says that the idle balance "decreases only on payout success";
  atomic exits and allocations lower it too.
- `contract/vault/near/README.md:263`, `:265` and `:277` describe a withdrawal over a route as visiting its markets
  from the first on. When idle assets cover a part, the executor credits them as the first step and the index advances
  (`contract/vault/near/src/lib.rs:2143-2150`), so the first market of the route is passed over.
- `docs/src/architecture.md:93` says that repayments never depend on the oracle. A repayment asks for a price and is
  returned without one (`contract/market/src/impl_token_receiver.rs:69`).
- `contract/vault/soroban/src/contract/curator_vault.rs:600` says that a receiver who cannot accept the asset "must
  not wedge the FIFO queue". The share token can: while it is paused, or restricts the head's owner, the refund of
  that request reverts and nobody behind it is served. `RequestsServed` has that as its premise.
- `service/relayer/src/broom.rs:11-13` and `service/relayer/src/client/database.rs:108-113` say that a charge that is
  still mid-submission is never mistaken for an abandoned one. Nothing bounds how long the reservation takes to reach
  the store; when that takes longer than `MIN_PENDING_AGE`, the sweep releases the charge and the operation executes
  unpaid. With `SlowInserts = TRUE`, TLC refutes `MeteredSpec` on just this, so the property is checked without.
- `contract/proxy-oracle/kernel/src/proxy/circuit_breaker/set.rs:26-27` says that rules evaluate sampled candidates.
  They evaluate candidates that are not sampled as well, as the tests (`tests.rs:709`, `:746`) and
  `soroban/RUNBOOK.md:312` have it; `ServedWithinStep` depends on it.
- `contract/proxy-oracle/kernel/src/proxy/circuit_breaker/set.rs:31-34` and `contract/proxy-oracle/README.md:28` speak
  of installed breakers with a zero or too small history. A set in which a rule has too little history does not
  validate, and every edit that would make one is refused (`BreakerSetsStaySound`).
- `contract/proxy-oracle/soroban/README.md:10` speaks of a persisted acceptance deadline. None is stored: an answer
  expires by the proxy's present `max_age`. That it does not come back is due to `set_proxy` dropping the cache
  (`ExpiredStaysExpired`).
- `service/relayer/src/broom.rs:21-22` says that the sweep drops a stale reservation; `reconcile_operation` leaves
  reservations untouched (`gateway/core/src/operation_driver.rs:551-553`).

Worth knowing, and contradicted by no document: on NEAR the cache may be overwritten with an accepted price of an
older publication time when callbacks of two updates land out of order (the accepted history ignores it), and a
proposal's timelock is fixed when it is filed, so raising a lock does not slow down proposals already waiting.

## What is left out

- *Market*: storage deposits and refunds (NEP-145), view methods, events; more than one static-yield account; the
  token standards' own behaviour beyond "succeeds or fails"; gas, except that a receipt may fail.
- *Soroban vault*: minimum amounts in calls, which only refuse; roles, since every action is enabled for somebody who
  may take it; changes of caps and of adapters; skim, migration and upgrades; aborts and emergency reset, which the
  executor cannot need because no operation outlives a transaction (`BooksBalance`); overflow of 128-bit amounts; the
  share token's allowances and roles.
- *NEAR vault*: skim, storage registration, state migration, views, governance with transfer restrictions and cap
  groups, and `withdraw_01_handle_create_request`, which nothing schedules.
- *Gateway and relayer*: `submit_next_step_unchecked` and `create_planned_operation`, request fingerprints, the
  in-memory store (same interface, no crash); request parsing, allow-lists, price updates, market cache and storage
  top-up, which is another caller of the same path.
- *Proxy oracle*: one asset only, since no operation on one touches another, and hence the list of registered assets
  and its limit; storage lifetimes, exponents and overflow, metadata of trips, events; proxies without sources on
  NEAR; decoding of source answers; Soroban's ownership and upgrade actions; the batcher, the SEP-40 adapter and the
  liquid-staking reader, which keep no state of interest.
- *Elsewhere*: vault governance and role tables, the custodial adapter's report nonces, price source adapters
  (signature verification and parsing), registry, universal account, patch-state, the other services, clients and
  tools. `PROJECT.json` lists every part with its status and the reason.
