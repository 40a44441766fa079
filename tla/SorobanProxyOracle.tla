------------------------ MODULE SorobanProxyOracle -------------------------
(***************************************************************************)
(* The Soroban runtime of the proxy oracle (contract/proxy-oracle/soroban/ *)
(* contract).  A refresh reads its sources, runs the breakers and writes   *)
(* cache and history in one transaction, so there is nothing in flight;    *)
(* what persists between transactions is the cache, the breaker set and a  *)
(* history of the aggregates it served.  The list of registered assets and *)
(* its limit are left out with the other assets, and so are the storage    *)
(* lifetimes that extend_ttl renews.                                       *)
(***************************************************************************)
EXTENDS ProxyOracleState

CONSTANTS
    MaxHistoryRecords,       \* MAX_HISTORY_RECORDS
    MaxSourcesPerProxy,      \* MAX_SOURCES_PER_PROXY
    MaxSourceAge,            \* MAX_SOURCE_AGE_SECS
    MaxClockDrift,           \* MAX_CLOCK_DRIFT_SECS
    ReadableSources          \* the sources that report at most 18 decimals

ASSUME HistoryBound == MaxHistoryRecords \in Nat \ {0}

VARIABLE history             \* the served aggregates, oldest first

SorobanInit == history = <<>>

-----------------------------------------------------------------------------
(* Refresh                                                                 *)

\* prepare_history_update: a candidate that is not newer than the last
\* record leaves the history, and is answered with that record
HistoryUpdate(p) ==
    IF history = <<>> \/ p.publish_time > Last(history).publish_time
    THEN [history |-> Pushed(history, p, MaxHistoryRecords), served |-> p]
    ELSE [history |-> history, served |-> Last(history)]

\* compute_refresh and apply_refresh once the sources answered: the breaker
\* set, the history and the cache entry they leave.  An error of the
\* aggregation, and sources that are all silent, leave the set alone.
RefreshResults(config, set, answers) ==
    LET same(entry) == [set |-> set, history |-> history, entry |-> entry]
        prices == Aggregate(config, answers, now)
    IN IF ~Validates(set) THEN {same(CachedFailed(now))}
       ELSE IF \A i \in DOMAIN answers : answers[i] = {}
       THEN {same(IF IsBlocking(set) THEN CachedBlocked(now) ELSE CachedFailed(now))}
       ELSE IF prices = {} THEN {same(CachedFailed(now))}
       ELSE {LET p == Kept(price)
                 result == TryAcceptPrice(set, p, now)
             IN IF ~result.accepted
                THEN [same(CachedBlocked(now)) EXCEPT !.set = result.set]
                ELSE [set |-> result.set,
                      history |-> HistoryUpdate(p).history,
                      entry |-> CachedAccepted(HistoryUpdate(p).served, now)] :
             price \in prices}

\* refresh, open to everyone, each source answering with one of Answers; an
\* asset without a proxy changes nothing
refresh(Answers) ==
    /\ \E config \in proxy, set \in circuit_breakers :
          \E answers \in [DOMAIN config.sources -> Answers] :
             \E r \in RefreshResults(config, set, answers) :
                /\ circuit_breakers' = {r.set}
                /\ history' = r.history
                /\ cached' = {r.entry}
    /\ UNCHANGED <<now, proxy>>

\* cached_accepted_no_older_than: both the refresh and the price are recent
\* (a time ahead of the ledger has age 0)
CachedNoOlderThan(max_age) ==
    UNION {IF now - c.updated_at <= max_age
           THEN {p \in c.price : now - p.publish_time <= max_age} ELSE {} : c \in cached}

\* aggregated_latest, under the proxy's present max_age
aggregated_latest ==
    UNION {UNION {CachedNoOlderThan(max_age) : max_age \in config.max_age} :
             config \in proxy}

-----------------------------------------------------------------------------
(* The owner's calls.  A call that returns an error is reverted.           *)

\* what the arguments of the methods that carry some are
IsSorobanCall(c) ==
    /\ c.method = "set_proxy" => IsProxy(c.config)
    /\ c.method = "add_breaker" => IsBreaker(c.breaker)

\* validate_proxy_config
ValidProxyConfig(config) ==
    /\ Len(config.sources) \in 1..MaxSourcesPerProxy
    /\ config.min_sources \in 1..Len(config.sources)
    /\ \E age \in config.max_age : age <= MaxSourceAge
    /\ \E drift \in config.max_clock_drift : drift <= MaxClockDrift
    /\ \A i, j \in DOMAIN config.sources :
          config.sources[i].source = config.sources[j].source => i = j

\* validate_source_decimals
SourcesReadable(config) ==
    \A i \in DOMAIN config.sources : config.sources[i].source \in ReadableSources

\* set_proxy: other sources, or another quorum, start with fresh breakers
StartsFreshBreakers(config) ==
    \/ circuit_breakers = {}
    \/ \E current \in proxy : \/ current.sources # config.sources
                              \/ current.min_sources # config.min_sources

\* Mutant: a new freshness policy keeps the cache and the history.
DropsOtherSourcesAnswers(config) == StartsFreshBreakers(config)

\* set_proxy: any change of the configuration drops the cache and the history
DropsAnswers(config) == proxy # {config}

set_proxy(config) ==
    /\ ValidProxyConfig(config)
    /\ SourcesReadable(config)
    /\ proxy' = {config}
    /\ circuit_breakers' = IF StartsFreshBreakers(config) THEN {EmptySet}
                           ELSE circuit_breakers
    /\ IF DropsAnswers(config)
       THEN cached' = {} /\ history' = <<>>
       ELSE UNCHANGED <<cached, history>>

remove_proxy ==
    /\ proxy' = {}
    /\ circuit_breakers' = {}
    /\ history' = <<>>
    /\ cached' = {}

\* circuit_breaker_from_config: a cumulative rule takes its baseline from
\* the price being served, and is refused when none is fresh
WithBaseline(b) ==
    IF b.rule # "CumulativeChange" THEN {b}
    ELSE {[b EXCEPT !.baseline = p.price] : p \in {q \in aggregated_latest : q.price > 0}}

\* the edit each breaker method makes
SorobanEdit(c, set) ==
    CASE c.method = "configure_breakers" ->
           IF c.len \in 1..MaxHistoryRecords THEN SetConfig(set, c.interval, c.len) ELSE {}
      [] c.method = "add_breaker" ->
           IF ~TakesAnotherBreaker(set) THEN {}
           ELSE UNION {AddBreaker(set, set.next_id, b) : b \in WithBaseline(c.breaker)}
      [] c.method = "remove_breaker" -> RemoveBreaker(set, c.id)
      [] c.method = "rearm" -> Rearm(set, c.id, now + c.delay)
      [] c.method = "set_enforced" -> SetEnforced(set, c.id, c.enforced)
      [] c.method = "set_manual_trip" -> SetManualTrip(set, c.trip)
      [] OTHER -> {}

\* with_breakers: an edit that changes the set stores it and drops the cache
with_breakers(c) ==
    /\ proxy # {}
    /\ \E set \in circuit_breakers :
          /\ Validates(set)
          /\ \E edited \in SorobanEdit(c, set) :
                /\ edited # set => Validates(edited)
                /\ IF edited # set
                   THEN circuit_breakers' = {edited} /\ cached' = {}
                   ELSE UNCHANGED <<circuit_breakers, cached>>
    /\ UNCHANGED <<proxy, history>>

\* the call succeeds
soroban_admin_call(c) ==
    /\ \/ c.method = "set_proxy" /\ set_proxy(c.config)
       \/ c.method = "remove_proxy" /\ remove_proxy
       \/ c.method \notin {"set_proxy", "remove_proxy"} /\ with_breakers(c)
    /\ UNCHANGED now
=============================================================================
