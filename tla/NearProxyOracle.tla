-------------------------- MODULE NearProxyOracle --------------------------
(***************************************************************************)
(* The NEAR runtime of the proxy oracle (contract/proxy-oracle/near:       *)
(* contract/src/lib.rs and common/src/state/v1.rs).                        *)
(*                                                                         *)
(* update_prices stores nothing: it asks the sources and hands the proxy   *)
(* definition and the cache epoch it read to a callback that runs in a     *)
(* later block.  Several updates may be in flight, answers arrive in any   *)
(* order, and the owner may reconfigure the asset in between.              *)
(***************************************************************************)
EXTENDS ProxyOracleState

CONSTANTS
    Updates,           \* names for the updates in flight
    MaxEpoch           \* bound on the cache epoch

VARIABLES
    cache_epoch,       \* cache_epochs: bumped by every administrative change
    updates,           \* update -> {} or {[proxy, epoch]}, its PendingProxyPriceUpdate
    superseded         \* history variable: updates begun before the last change of
                       \* the proxy or of the breakers by the owner

nearVars == <<cache_epoch, updates, superseded>>

NearInit ==
    /\ cache_epoch = 0
    /\ updates = [u \in Updates |-> {}]
    /\ superseded = {}

-----------------------------------------------------------------------------
(* Price updates                                                           *)

\* update_prices: an invalid breaker set fails the update at once; else the
\* sources are called and prepare_price_update goes with the callback
update_prices(u) ==
    /\ updates[u] = {} /\ cache_epoch < MaxEpoch
    /\ \E p \in proxy, set \in circuit_breakers :
          IF Validates(set)
          THEN /\ updates' = [updates EXCEPT ![u] = {[proxy |-> p, epoch |-> cache_epoch]}]
               /\ UNCHANGED <<cached, cache_epoch>>
          ELSE /\ cache_epoch' = cache_epoch + 1
               /\ cached' = {CachedFailed(now)}
               /\ UNCHANGED updates
    /\ UNCHANGED <<now, proxy, circuit_breakers, superseded>>

\* Proxy::resolve in the callback: the breaker set and the cache entry it leaves
Resolved(p, set, answers) ==
    LET prices == Aggregate(p, answers, now)
    IN IF prices = {} THEN {[set |-> set, entry |-> CachedFailed(now)]}
       ELSE {LET result == TryAcceptPrice(set, Kept(price), now)
             IN [set |-> result.set,
                 entry |-> IF result.accepted THEN CachedAccepted(Kept(price), now)
                           ELSE CachedBlocked(now)] : price \in prices}

\* Mutant: any configured asset takes the result.
IsConfigured(pending) == proxy # {}

\* the condition of finish_price_update_if_current
IsCurrent(pending) == cache_epoch = pending.epoch /\ proxy # {}

\* update_prices_01_consume_results, each source of the update's proxy
\* having answered with one of Answers
update_prices_01_consume_results(u, Answers) ==
    /\ \E pending \in updates[u] :
          IF IsCurrent(pending)
          THEN \E set \in circuit_breakers,
                  answers \in [DOMAIN pending.proxy.sources -> Answers] :
                  /\ Validates(set)
                  /\ \E r \in Resolved(pending.proxy, set, answers) :
                        /\ circuit_breakers' = {r.set}
                        /\ cached' = {r.entry}
          ELSE UNCHANGED <<circuit_breakers, cached>>
    /\ updates' = [updates EXCEPT ![u] = {}]
    /\ superseded' = superseded \ {u}
    /\ UNCHANGED <<now, proxy, cache_epoch>>

\* the callback fails as a receipt (it runs out of gas, or the stored set
\* does not validate): nothing of it remains
update_callback_fails(u) ==
    /\ updates[u] # {}
    /\ updates' = [updates EXCEPT ![u] = {}]
    /\ superseded' = superseded \ {u}
    /\ UNCHANGED <<now, proxy, circuit_breakers, cached, cache_epoch>>

-----------------------------------------------------------------------------
(* The owner's calls.  A call is a record with its method and arguments;   *)
(* one that panics changes nothing.                                        *)

\* what the arguments of the methods that carry some are
IsNearCall(c) ==
    /\ c.method = "admin_set_proxy" => \A p \in c.proxy : IsProxy(p)
    /\ c.method = "admin_configure_circuit_breakers" => c.len \in Nat
    /\ c.method = "admin_add_circuit_breaker" => IsBreaker(c.breaker)

\* set_proxy(Some p): a new definition, or a missing set, invalidates the
\* cache; the breakers of a definition that changes are kept
StoreProxy(p) ==
    /\ \A i \in DOMAIN p.sources : p.aggregator = "Priority" \/ p.sources[i].weight > 0
    /\ proxy' = {p}
    /\ circuit_breakers' = IF circuit_breakers = {} THEN {EmptySet} ELSE circuit_breakers
    /\ IF proxy # {p} \/ circuit_breakers = {}
       THEN cached' = {} /\ cache_epoch' = cache_epoch + 1
       ELSE UNCHANGED <<cached, cache_epoch>>

\* set_proxy(None)
DropProxy ==
    /\ cache_epoch' = IF proxy \cup circuit_breakers \cup cached # {}
                      THEN cache_epoch + 1 ELSE cache_epoch
    /\ proxy' = {}
    /\ circuit_breakers' = {}
    /\ cached' = {}

\* the edit each breaker method makes
NearEdit(c, set) ==
    CASE c.method = "admin_configure_circuit_breakers" -> SetConfig(set, c.interval, c.len)
      [] c.method = "admin_add_circuit_breaker" ->
           IF TakesAnotherBreaker(set) THEN AddBreaker(set, c.id, c.breaker) ELSE {}
      [] c.method = "admin_remove_circuit_breaker" -> RemoveBreaker(set, c.id)
      [] c.method = "admin_set_manual_trip" -> SetManualTrip(set, c.trip)
      [] c.method = "admin_rearm" -> Rearm(set, c.id, now + c.delay)
      [] c.method = "admin_set_enforced" -> SetEnforced(set, c.id, c.enforced)
      [] OTHER -> {}

\* Mutant: the cached price outlives the edit.
EditBreakersKeepingCache(c) ==
    /\ proxy # {}
    /\ \E set \in circuit_breakers :
          /\ Validates(set)
          /\ \E edited \in NearEdit(c, set) :
                /\ circuit_breakers' = {edited}
                /\ cache_epoch' = cache_epoch + 1
    /\ UNCHANGED <<proxy, cached>>

\* proxy_entry_mut and edit_circuit_breaker_set: the proxy exists and the
\* stored set validates; a set the edit leaves alone leaves the cache alone
EditBreakers(c) ==
    /\ proxy # {}
    /\ \E set \in circuit_breakers :
          /\ Validates(set)
          /\ \E edited \in NearEdit(c, set) :
                IF edited # set
                THEN /\ circuit_breakers' = {edited}
                     /\ cached' = {}
                     /\ cache_epoch' = cache_epoch + 1
                ELSE UNCHANGED <<circuit_breakers, cached, cache_epoch>>
    /\ UNCHANGED proxy

\* the call succeeds
near_admin_call(c) ==
    /\ cache_epoch < MaxEpoch
    /\ \/ c.method = "admin_set_proxy" /\ \E p \in c.proxy : StoreProxy(p)
       \/ c.method = "admin_set_proxy" /\ c.proxy = {} /\ DropProxy
       \/ c.method # "admin_set_proxy" /\ EditBreakers(c)
    /\ superseded' = IF <<proxy', circuit_breakers'>> # <<proxy, circuit_breakers>>
                     THEN {u \in Updates : updates[u] # {}} ELSE superseded
    /\ UNCHANGED <<now, updates>>
=============================================================================
