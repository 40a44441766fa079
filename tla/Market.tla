------------------------------- MODULE Market -------------------------------
(***************************************************************************)
(* The record a lending market keeps (common/src/market/impl.rs), its      *)
(* snapshots and its accumulators.  SupplyPositions and BorrowPositions    *)
(* add the methods of the two kinds of positions.  A method is an operator *)
(* from a market record to a market record; the conditions under which the *)
(* code panics are operators named Can..., because a panic on NEAR undoes  *)
(* everything the receipt did.                                             *)
(*                                                                         *)
(* Amounts are natural numbers.  A Decimal is a natural number of units,   *)
(* UNIT of which make one: UNIT stands for the 2^128 of the code, and every*)
(* division truncates as the code's does.  Time is counted in time chunks. *)
(***************************************************************************)
EXTENDS Integers, Sequences, FiniteSets, FiniteSetsExt, Functions, TLC

CONSTANTS
    UNIT,                       \* fractional units in one token unit (2^128)
    MAX_INCOMING,               \* incoming deposits a position may hold
    SupplyRange,                \* [minimum, maximum] of a supply position
    WithdrawalRange,            \* [minimum, maximum] of a withdrawal request
    BorrowRange,                \* [minimum, maximum] of a principal
    SupplyWeight, StaticWeight, \* yield weights of suppliers and protocol
    McrMaintenance, McrLiquidation, MaximumSpread, MaximumUsage,  \* fractions [n, d]
    MaximumDuration,            \* chunks a borrow may last
    InterestRateAt(_),          \* units of usage -> units of rate per chunk
    OriginationFee(_),          \* amount -> fee
    SupplyWithdrawalFee(_, _)   \* amount, chunks since supply -> fee

ASSUME MarketAssumption ==
    /\ UNIT \in Nat \ {0} /\ MAX_INCOMING \in Nat \ {0}
    /\ SupplyWeight \in Nat \ {0} /\ StaticWeight \in Nat
    /\ \A x \in 0 .. UNIT : InterestRateAt(x) \in Nat

NoStart == 0       \* started_at_block_timestamp_ms = None

Lesser(x, y) == IF x <= y THEN x ELSE y
Greater(x, y) == IF x >= y THEN x ELSE y
SaturatingSub(x, y) == IF x >= y THEN x - y ELSE 0
CeilDiv(x, y) == (x + y - 1) \div y
InRange(range, x) == range.minimum <= x /\ x <= range.maximum
SumOver(S, f(_)) == MapThenSumSet(f, S)

\* A persistent map with the value at one key set, or one key taken out.
Put(map, key, value) == (key :> value) @@ map
Drop(map, key) == Restrict(map, DOMAIN map \ {key})
GetOr(map, key, default) == IF key \in DOMAIN map THEN map[key] ELSE default

-----------------------------------------------------------------------------
(* Accumulators and snapshots.  Snapshot index i is element i + 1 of       *)
(* finalized_snapshots; the market starts with one snapshot.               *)

NewAccumulator(next) == [total |-> 0, fraction |-> 0, next |-> next]

Accumulate(acc, units, next) ==
    [total    |-> acc.total + (acc.fraction + units) \div UNIT,
     fraction |-> (acc.fraction + units) % UNIT,
     next     |-> next]

SnapshotCount(m) == Len(m.finalized_snapshots)
SnapshotAt(m, i) == m.finalized_snapshots[i + 1]

InitMarket(now) ==
    [balance |-> 0, deposited_active |-> 0, deposited_incoming |-> << >>,
     withdrawal_in_flight |-> 0, borrowed_in_flight |-> 0, borrowed |-> 0,
     paid_to_fees |-> 0, collateral_deposited |-> 0,
     supply_positions |-> << >>, borrow_positions |-> << >>,
     current_time_chunk |-> now, current_yield_distribution |-> 0,
     finalized_snapshots |-> << [active |-> 0, borrowed |-> 0, distribution |-> 0,
                                 rate |-> 0, end |-> now] >>,
     withdrawal_queue |-> << >>, static_yield |-> NewAccumulator(1)]

Borrowed(m) == m.borrowed + m.borrowed_in_flight

UsageRatio(active, borrowed) ==
    IF active = 0 \/ borrowed = 0 THEN 0
    ELSE IF borrowed >= active THEN UNIT ELSE (borrowed * UNIT) \div active

\* Mutant: debt whose transfer is under way is left out of the snapshot.
CurrentSnapshotOfPaidOut(m, now) ==
    LET active == m.deposited_active + GetOr(m.deposited_incoming, SnapshotCount(m), 0)
    IN  [active |-> active, borrowed |-> m.borrowed,
         distribution |-> m.current_yield_distribution,
         rate |-> InterestRateAt(UsageRatio(active, Borrowed(m))), end |-> now]

CurrentSnapshot(m, now) ==
    LET active == m.deposited_active + GetOr(m.deposited_incoming, SnapshotCount(m), 0)
    IN  [active |-> active, borrowed |-> Borrowed(m),
         distribution |-> m.current_yield_distribution,
         rate |-> InterestRateAt(UsageRatio(active, Borrowed(m))), end |-> now]

\* Mutant: the deposits of the new index are dropped, not activated.
SnapshotForgetsIncoming(m, now) ==
    IF m.current_time_chunk = now THEN m
    ELSE [m EXCEPT !.finalized_snapshots = Append(@, CurrentSnapshot(m, now)),
                   !.deposited_incoming = Drop(@, SnapshotCount(m) + 1),
                   !.current_time_chunk = now,
                   !.current_yield_distribution = 0]

\* Finalizes the running snapshot when a new time chunk has begun, and
\* activates the deposits that were waiting for the index now reached.
Snapshot(m, now) ==
    IF m.current_time_chunk = now THEN m
    ELSE LET index == SnapshotCount(m) + 1
         IN  [m EXCEPT
                !.finalized_snapshots = Append(@, CurrentSnapshot(m, now)),
                !.deposited_active = @ + GetOr(m.deposited_incoming, index, 0),
                !.deposited_incoming = Drop(@, index),
                !.current_time_chunk = now,
                !.current_yield_distribution = 0]

\* Indices an accumulation from `next` on passes over, at most `limit` of them.
Pass(m, next, limit) == next .. Lesser(SnapshotCount(m), next + limit) - 1

PassEnd(m, next, limit) == Greater(next, Lesser(SnapshotCount(m), next + limit))

Duration(m, i) == SnapshotAt(m, i).end - SnapshotAt(m, i - 1).end

\* Units of interest and other yield that snapshot i distributes.
SnapshotYield(m, i) ==
    SnapshotAt(m, i).borrowed * SnapshotAt(m, i).rate * Duration(m, i)
        + SnapshotAt(m, i).distribution * UNIT

AccumulateStaticYield(m, limit) ==
    LET next == m.static_yield.next
        share(i) == (SnapshotYield(m, i) * StaticWeight) \div (SupplyWeight + StaticWeight)
    IN  [m EXCEPT !.static_yield = Accumulate(@, SumOver(Pass(m, next, limit), share),
                                              PassEnd(m, next, limit))]
=============================================================================
