------------------------- MODULE ProxyOracleState --------------------------
(***************************************************************************)
(* What both proxy oracle runtimes keep for an asset: the proxy that says  *)
(* which sources to aggregate, its circuit breaker set, and the cached     *)
(* result of the last update.  Every map of the two contracts is keyed by  *)
(* the asset and no operation on one asset reads or writes the entries of  *)
(* another, so one asset is modelled; {} stands for a missing entry.       *)
(***************************************************************************)
EXTENDS CircuitBreakers, PriceAggregation

CONSTANTS
    MaxNow,               \* bound on the clock
    MaxBreakersPerProxy,  \* MAX_CIRCUIT_BREAKERS_PER_PROXY, MAX_BREAKERS_PER_PROXY
    MaxBreakerIds         \* bound on the breakers ever added to a set

ASSUME OracleBounds ==
    MaxNow \in Nat /\ MaxBreakersPerProxy \in Nat /\ MaxBreakerIds \in Nat

VARIABLES
    now,               \* block or ledger time
    proxy,             \* {} or {[aggregator, sources, min_sources, max_age, max_clock_drift]}
    circuit_breakers,  \* {} or {a breaker set}
    cached             \* {} or {[status, price, updated_at]}

\* CachedProxyPrice with each of its statuses
CachedAccepted(p, t) == [status |-> "Accepted", price |-> {p}, updated_at |-> t]
CachedBlocked(t) == [status |-> "Blocked", price |-> {}, updated_at |-> t]
CachedFailed(t) == [status |-> "ResolveFailed", price |-> {}, updated_at |-> t]

\* a price as the cache and the histories keep it
Kept(p) == [price |-> p.price, publish_time |-> p.publish_time]

\* a set that takes one more breaker (the second conjunct is the bound)
TakesAnotherBreaker(set) ==
    /\ Cardinality(DOMAIN set.breakers) < MaxBreakersPerProxy
    /\ set.next_id < MaxBreakerIds

\* The clock of the chain moves on
Tick == now < MaxNow /\ now' = now + 1

\* no asset is configured yet
OracleInit ==
    /\ now = 0
    /\ proxy = {}
    /\ circuit_breakers = {}
    /\ cached = {}
=============================================================================
