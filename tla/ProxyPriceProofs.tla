-------------------------- MODULE ProxyPriceProofs --------------------------
(***************************************************************************)
(* For any deployments, proxies, prices, calls and bounds: the histories   *)
(* of the proxy oracle advance, what it serves is within the step of its   *)
(* breakers, stored breaker sets stay valid and keep the meaning of their  *)
(* ids, an expired answer comes back only with a refresh, and a majority   *)
(* of the weight bounds the median.                                        *)
(***************************************************************************)
EXTENDS ProxyOracleProofs

\* Leaves that name no prover go to SMT, with half a minute each, then to Zenon.
USE SMTT(30), Zenon

-----------------------------------------------------------------------------
(* Prices, histories and breaker sets                                      *)

\* An entry of the cache: only an accepted one carries a price.
IsCacheEntry(c) ==
    /\ c.updated_at \in Nat
    /\ \/ c.price = {} /\ c.status \in {"Blocked", "ResolveFailed"}
       \/ c.status = "Accepted" /\ \E p \in Price : c.price = {p}

\* The asset is configured as a whole or not at all.
AssetInv ==
    \/ proxy = {} /\ circuit_breakers = {}
    \/ \E p, set : /\ proxy = {p} /\ circuit_breakers = {set}
                   /\ IsProxy(p) /\ IsStoredSet(set, MaxBreakersPerProxy)

CacheInv == cached = {} \/ \E c : cached = {c} /\ IsCacheEntry(c)

UpdatesInv ==
    /\ \A u \in Updates : \/ updates[u] = {}
                          \/ \E x : updates[u] = {x} /\ IsProxy(x.proxy)
    /\ \A c \in calls : IsNearCall(c.call)

\* What a NEAR oracle serves was within the step of the breakers it has; what
\* a Soroban oracle serves is the newest price of its history.
ServedInv ==
    /\ Near => \A set \in circuit_breakers, c \in cached : \A p \in c.price :
                  WithinStep(set, p, c.updated_at)
    /\ ~Near => \A c \in cached : \A p \in c.price : history # <<>> /\ p = Last(history)

\* The inductive invariant.
PricesInv ==
    /\ now \in 0..MaxNow
    /\ AssetInv /\ CacheInv /\ UpdatesInv /\ ServedInv
    /\ IsHistory(history, MaxHistoryRecords)

\* What a step may do to the breaker set.
SetsEvolve ==
    \A set2 \in circuit_breakers' :
       /\ set2 \in circuit_breakers \/ Validates(set2)
       /\ \A set \in circuit_breakers : set2 # EmptySet => Evolves(set, set2)

\* A set evolves from itself.
LEMMA EvolvesFromItself ==
    ASSUME NEW set, set.next_id \in Nat
    PROVE  Evolves(set, set)
BY DEF Evolves

\* A step that leaves the breaker set alone.
LEMMA SameSetEvolves ==
    ASSUME AssetInv, circuit_breakers' = circuit_breakers
    PROVE  SetsEvolve
BY EvolvesFromItself DEF AssetInv, SetsEvolve, IsStoredSet

\* A source answers nothing, or a price of the right type.
LEMMA AnswersTyped ==
    ASSUME workload \in DOMAIN Workload, now \in Nat, NEW a \in SourceAnswers
    PROVE  a = {} \/ \E p \in Answer : a = {p}
<1>1. W.prices \subseteq Int /\ W.confs \subseteq Nat /\ W.ahead \in Nat
    BY WorkloadShape DEF W
<1>2. CASE a # {}
    <2>1. PICK p \in W.prices, c \in W.confs, t \in 0..(now + W.ahead) :
             a = {[price |-> p, conf |-> c, publish_time |-> t]}
        BY <1>2 DEF SourceAnswers
    <2>2. p \in Int /\ c \in Nat /\ t \in Nat
        BY <1>1, <2>1
    <2>3. [price |-> p, conf |-> c, publish_time |-> t] \in Answer
        BY <2>2 DEF Answer
    <2> QED BY <2>1, <2>3
<1> QED BY <1>2

\* What both runtimes keep of an aggregate is a price.
LEMMA KeptIsPrice ==
    ASSUME workload \in DOMAIN Workload, now \in Nat, NEW config, NEW D,
           NEW answers \in [D -> SourceAnswers],
           NEW q \in Aggregate(config, answers, now)
    PROVE  Kept(q) \in Price
<1>1. \A i \in DOMAIN answers : answers[i] = {} \/ \E p \in Answer : answers[i] = {p}
    BY AnswersTyped
<1>2. q.price \in Nat /\ q.publish_time \in Nat
    BY <1>1, AggregateType
<1> QED BY <1>2 DEF Kept, Price

\* What the callback of a NEAR update stores.
LEMMA ResolvedStores ==
    ASSUME workload \in DOMAIN Workload, now \in Nat, NEW config,
           NEW set, IsStoredSet(set, MaxBreakersPerProxy), Validates(set), NEW D,
           NEW answers \in [D -> SourceAnswers],
           NEW r \in Resolved(config, set, answers)
    PROVE  /\ IsStoredSet(r.set, MaxBreakersPerProxy) /\ Validates(r.set)
           /\ Evolves(set, r.set)
           /\ IsCacheEntry(r.entry)
           /\ \A p \in r.entry.price : WithinStep(r.set, p, r.entry.updated_at)
<1>0. set.next_id \in Nat
    BY DEF IsStoredSet
<1>1. CASE Aggregate(config, answers, now) = {}
    <2>1. r.set = set /\ r.entry = CachedFailed(now)
        BY <1>1 DEF Resolved
    <2> QED BY <1>0, <2>1, EvolvesFromItself DEF CachedFailed, IsCacheEntry
<1>2. CASE Aggregate(config, answers, now) # {}
    <2> DEFINE kept(q) == Kept(q)
               result(q) == TryAcceptPrice(set, Kept(q), now)
    <2>1. PICK q \in Aggregate(config, answers, now) :
             r = [set |-> result(q).set,
                  entry |-> IF result(q).accepted THEN CachedAccepted(Kept(q), now)
                            ELSE CachedBlocked(now)]
        BY <1>2 DEF Resolved
    <2>2. Kept(q) \in Price
        BY KeptIsPrice
    <2>3. /\ IsStoredSet(result(q).set, MaxBreakersPerProxy)
          /\ SameRules(set, result(q).set)
          /\ result(q).accepted => WithinStep(result(q).set, Kept(q), now)
        BY <2>2, TriedSet
    <2>4. Evolves(set, result(q).set) /\ Validates(result(q).set)
        BY <1>0, <2>3, SameRulesValidate
    <2>5. /\ r.set = result(q).set
          /\ r.entry = IF result(q).accepted THEN CachedAccepted(Kept(q), now)
                       ELSE CachedBlocked(now)
        BY <2>1
    <2> HIDE DEF result
    <2>6. CASE result(q).accepted
        <3>1. r.entry = CachedAccepted(Kept(q), now)
            BY <2>5, <2>6, Zenon
        <3>2. IsCacheEntry(r.entry) /\ r.entry.price = {Kept(q)} /\ r.entry.updated_at = now
            BY <2>2, <3>1 DEF CachedAccepted, IsCacheEntry
        <3> QED BY <2>3, <2>4, <2>5, <2>6, <3>2, Zenon
    <2>7. CASE ~result(q).accepted
        <3>1. r.entry = CachedBlocked(now)
            BY <2>5, <2>7, Zenon
        <3>2. IsCacheEntry(r.entry) /\ r.entry.price = {}
            BY <3>1 DEF CachedBlocked, IsCacheEntry
        <3> QED BY <2>3, <2>4, <2>5, <3>2, Zenon
    <2> QED BY <2>6, <2>7
<1> QED BY <1>1, <1>2

\* What a Soroban refresh stores.
LEMMA RefreshStores ==
    ASSUME workload \in DOMAIN Workload, now \in Nat, NEW config,
           NEW set, IsStoredSet(set, MaxBreakersPerProxy), NEW D,
           NEW answers \in [D -> SourceAnswers],
           IsHistory(history, MaxHistoryRecords),
           NEW r \in RefreshResults(config, set, answers)
    PROVE  /\ IsStoredSet(r.set, MaxBreakersPerProxy)
           /\ r.set = set \/ Validates(r.set)
           /\ Evolves(set, r.set)
           /\ IsCacheEntry(r.entry) /\ r.entry.updated_at = now
           /\ IsHistory(r.history, MaxHistoryRecords)
           /\ \A p \in r.entry.price : r.history # <<>> /\ p = Last(r.history)
<1> DEFINE same(entry) == [set |-> set, history |-> history, entry |-> entry]
           prices == Aggregate(config, answers, now)
           result(q) == TryAcceptPrice(set, Kept(q), now)
           answered(q) ==
             IF ~result(q).accepted
             THEN [same(CachedBlocked(now)) EXCEPT !.set = result(q).set]
             ELSE [set |-> result(q).set,
                   history |-> HistoryUpdate(Kept(q)).history,
                   entry |-> CachedAccepted(HistoryUpdate(Kept(q)).served, now)]
<1>0. set.next_id \in Nat
    BY DEF IsStoredSet
<1>1. \/ r = same(CachedFailed(now)) \/ r = same(CachedBlocked(now))
      \/ Validates(set) /\ \E q \in prices : r = answered(q)
    BY DEF RefreshResults
<1>2. CASE r = same(CachedFailed(now)) \/ r = same(CachedBlocked(now))
    <2>1. /\ r.set = set /\ r.history = history
          /\ r.entry = CachedFailed(now) \/ r.entry = CachedBlocked(now)
        BY <1>2
    <2> QED BY <1>0, <2>1, EvolvesFromItself DEF CachedFailed, CachedBlocked, IsCacheEntry
<1>3. CASE Validates(set) /\ \E q \in prices : r = answered(q)
    <2>1. PICK q \in prices : r = answered(q)
        BY <1>3
    <2>2. Kept(q) \in Price
        BY KeptIsPrice
    <2>3. /\ IsStoredSet(result(q).set, MaxBreakersPerProxy)
          /\ SameRules(set, result(q).set)
        BY <2>2, TriedSet
    <2>4. Evolves(set, result(q).set) /\ Validates(result(q).set)
        BY <1>0, <1>3, <2>3, SameRulesValidate
    <2> DEFINE s == result(q).set
               ok == result(q).accepted
               k == Kept(q)
               up == HistoryUpdate(k)
    <2>5. \/ ~ok /\ r = [same(CachedBlocked(now)) EXCEPT !.set = s]
          \/ ok /\ r = [set |-> s, history |-> up.history, entry |-> CachedAccepted(up.served, now)]
        BY <2>1
    <2> HIDE DEF result, s, ok
    <2>6. CASE ~ok
        <3>1. r.set = s /\ r.history = history /\ r.entry = CachedBlocked(now)
            BY <2>5, <2>6
        <3>2. IsCacheEntry(r.entry) /\ r.entry.updated_at = now /\ r.entry.price = {}
            BY <3>1 DEF CachedBlocked, IsCacheEntry
        <3> QED BY <2>3, <2>4, <3>1, <3>2, Zenon DEF s
    <2>7. CASE ok
        <3>1. r.set = s /\ r.history = up.history /\ r.entry = CachedAccepted(up.served, now)
            BY <2>5, <2>7
        <3>2. /\ IsHistory(up.history, MaxHistoryRecords)
              /\ up.history # <<>> /\ up.served = Last(up.history)
              /\ up.served \in Price
            <4>1. /\ MaxHistoryRecords \in Nat /\ MaxHistoryRecords > 0
                  /\ history \in Seq(Price)
                BY HistoryBound DEF IsHistory
            <4> HIDE DEF k
            <4>2. k \in Price
                BY <2>2 DEF k
            <4>3. CASE history = <<>> \/ k.publish_time > Last(history).publish_time
                <5>1. up.history = Pushed(history, k, MaxHistoryRecords) /\ up.served = k
                    BY <4>3 DEF HistoryUpdate
                <5>2. IsHistory(Pushed(history, k, MaxHistoryRecords), MaxHistoryRecords)
                    BY <4>1, <4>2, <4>3, PushedIsHistory
                <5>3. /\ Pushed(history, k, MaxHistoryRecords) # <<>>
                      /\ Last(Pushed(history, k, MaxHistoryRecords)) = k
                    BY <4>1, <4>2, PushedEntries
                <5> HIDE DEF up
                <5> QED BY <4>2, <5>1, <5>2, <5>3
            <4>4. CASE ~(history = <<>> \/ k.publish_time > Last(history).publish_time)
                <5>1. up.history = history /\ up.served = Last(history)
                    BY <4>4 DEF HistoryUpdate
                <5>2. Last(history) \in Price
                    BY <4>1, <4>4 DEF Last
                <5> HIDE DEF up
                <5> QED BY <4>4, <5>1, <5>2
            <4> QED BY <4>3, <4>4
        <3> HIDE DEF up
        <3>3. /\ IsCacheEntry(r.entry) /\ r.entry.updated_at = now
              /\ r.entry.price = {up.served}
            BY <3>1, <3>2 DEF CachedAccepted, IsCacheEntry
        <3> QED BY <2>3, <2>4, <3>1, <3>2, <3>3 DEF s
    <2> QED BY <2>6, <2>7
<1> QED BY <1>1, <1>2, <1>3

\* An edit by a breaker method.
LEMMA MethodsEdit ==
    ASSUME NEW set, IsStoredSet(set, MaxBreakersPerProxy), Validates(set), NEW c
    PROVE  /\ IsNearCall(c) => \A s \in NearEdit(c, set) : Edited(set, s, MaxBreakersPerProxy)
           /\ IsSorobanCall(c) =>
                 \A s \in SorobanEdit(c, set) : Edited(set, s, MaxBreakersPerProxy)
<1>0. MaxBreakersPerProxy \in Nat
    BY OracleBounds
<1>1. ASSUME IsNearCall(c), NEW s \in NearEdit(c, set)
      PROVE  Edited(set, s, MaxBreakersPerProxy)
    <2>1. CASE c.method = "admin_configure_circuit_breakers"
        <3>1. s \in SetConfig(set, c.interval, c.len) /\ c.len \in Nat
            BY <1>1, <2>1 DEF NearEdit, IsNearCall
        <3> QED BY <3>1, ConfigEdits
    <2>2. CASE c.method = "admin_add_circuit_breaker"
        <3>1. /\ s \in AddBreaker(set, c.id, c.breaker) /\ TakesAnotherBreaker(set)
              /\ IsBreaker(c.breaker)
            BY <1>1, <2>2 DEF NearEdit, IsNearCall
        <3> QED BY <1>0, <3>1, AddEdits DEF TakesAnotherBreaker
    <2>3. CASE c.method = "admin_remove_circuit_breaker"
        <3>1. s \in RemoveBreaker(set, c.id)
            BY <1>1, <2>3 DEF NearEdit
        <3> QED BY <1>0, <3>1, StateEdits
    <2>4. CASE c.method = "admin_set_manual_trip"
        <3>1. s \in SetManualTrip(set, c.trip)
            BY <1>1, <2>4 DEF NearEdit
        <3> QED BY <3>1, TripEdits
    <2>5. CASE c.method = "admin_rearm"
        <3>1. s \in Rearm(set, c.id, now + c.delay)
            BY <1>1, <2>5 DEF NearEdit
        <3> QED BY <1>0, <3>1, StateEdits
    <2>6. CASE c.method = "admin_set_enforced"
        <3>1. s \in SetEnforced(set, c.id, c.enforced)
            BY <1>1, <2>6 DEF NearEdit
        <3> QED BY <1>0, <3>1, StateEdits
    <2> QED BY <1>1, <2>1, <2>2, <2>3, <2>4, <2>5, <2>6 DEF NearEdit
<1>2. ASSUME IsSorobanCall(c), NEW s \in SorobanEdit(c, set)
      PROVE  Edited(set, s, MaxBreakersPerProxy)
    <2>1. CASE c.method = "configure_breakers"
        <3>1. s \in SetConfig(set, c.interval, c.len) /\ c.len \in Nat
            BY <1>2, <2>1, HistoryBound DEF SorobanEdit
        <3> QED BY <3>1, ConfigEdits
    <2>2. CASE c.method = "add_breaker"
        <3>1. PICK b \in WithBaseline(c.breaker) :
                 s \in AddBreaker(set, set.next_id, b) /\ TakesAnotherBreaker(set)
            BY <1>2, <2>2 DEF SorobanEdit
        <3>2. IsBreaker(c.breaker)
            BY <1>2, <2>2 DEF IsSorobanCall
        <3>3. b.threshold = c.breaker.threshold /\ DOMAIN b = DOMAIN c.breaker
            BY <3>1, <3>2 DEF WithBaseline, IsBreaker
        <3>4. IsBreaker(b)
            BY <3>2, <3>3 DEF IsBreaker
        <3> QED BY <1>0, <3>1, <3>4, AddEdits DEF TakesAnotherBreaker
    <2>3. CASE c.method = "remove_breaker"
        <3>1. s \in RemoveBreaker(set, c.id)
            BY <1>2, <2>3 DEF SorobanEdit
        <3> QED BY <1>0, <3>1, StateEdits
    <2>4. CASE c.method = "set_manual_trip"
        <3>1. s \in SetManualTrip(set, c.trip)
            BY <1>2, <2>4 DEF SorobanEdit
        <3> QED BY <3>1, TripEdits
    <2>5. CASE c.method = "rearm"
        <3>1. s \in Rearm(set, c.id, now + c.delay)
            BY <1>2, <2>5 DEF SorobanEdit
        <3> QED BY <1>0, <3>1, StateEdits
    <2>6. CASE c.method = "set_enforced"
        <3>1. s \in SetEnforced(set, c.id, c.enforced)
            BY <1>2, <2>6 DEF SorobanEdit
        <3> QED BY <1>0, <3>1, StateEdits
    <2> QED BY <1>2, <2>1, <2>2, <2>3, <2>4, <2>5, <2>6 DEF SorobanEdit
<1> QED BY <1>1, <1>2

\* The owner's calls to the NEAR oracle.
LEMMA NearCallPrices ==
    ASSUME AssetInv, CacheInv, ServedInv, Near, Near', NEW c, IsNearCall(c), near_admin_call(c)
    PROVE  AssetInv' /\ CacheInv' /\ ServedInv' /\ SetsEvolve
<1>0. IsStoredSet(EmptySet, MaxBreakersPerProxy) /\ Validates(EmptySet)
    BY OracleBounds, EmptyIsStored
<1>1. CASE c.method = "admin_set_proxy" /\ \E p \in c.proxy : StoreProxy(p)
    <2>1. PICK p \in c.proxy : StoreProxy(p) /\ IsProxy(p)
        BY <1>1 DEF IsNearCall
    <2>2. CASE circuit_breakers = {}
        <3>1. proxy' = {p} /\ circuit_breakers' = {EmptySet} /\ cached' = {}
            BY <2>1, <2>2 DEF StoreProxy
        <3> QED BY <1>0, <2>1, <2>2, <3>1 DEF AssetInv, CacheInv, ServedInv, SetsEvolve
    <2>3. CASE circuit_breakers # {}
        <3>1. /\ proxy' = {p} /\ circuit_breakers' = circuit_breakers
              /\ cached' = {} \/ cached' = cached
            BY <2>1, <2>3 DEF StoreProxy
        <3>2. AssetInv'
            BY <2>1, <2>3, <3>1 DEF AssetInv
        <3> QED BY <3>1, <3>2, SameSetEvolves DEF CacheInv, ServedInv
    <2> QED BY <2>2, <2>3
<1>2. CASE DropProxy
    BY <1>2 DEF DropProxy, AssetInv, CacheInv, ServedInv, SetsEvolve
<1>3. CASE EditBreakers(c)
    <2>1. CASE UNCHANGED <<proxy, circuit_breakers, cached>>
        <3>1. AssetInv' /\ CacheInv' /\ ServedInv'
            BY <2>1 DEF AssetInv, CacheInv, ServedInv
        <3> QED BY <2>1, <3>1, SameSetEvolves
    <2>2. CASE ~UNCHANGED <<proxy, circuit_breakers, cached>>
        <3>0. PICK set \in circuit_breakers : \E edited \in NearEdit(c, set) :
                 /\ Validates(set) /\ proxy' = proxy /\ proxy # {}
                 /\ circuit_breakers' = {edited} /\ cached' = {}
            BY <1>3, <2>2 DEF EditBreakers
        <3>1. PICK edited \in NearEdit(c, set) :
                 /\ Validates(set) /\ proxy' = proxy /\ proxy # {}
                 /\ circuit_breakers' = {edited} /\ cached' = {}
            BY <3>0
        <3>2. PICK p : /\ proxy = {p} /\ IsProxy(p) /\ circuit_breakers = {set}
                       /\ IsStoredSet(set, MaxBreakersPerProxy)
            BY <3>1 DEF AssetInv
        <3>3. Edited(set, edited, MaxBreakersPerProxy)
            BY <3>1, <3>2, MethodsEdit
        <3> QED BY <3>1, <3>2, <3>3 DEF AssetInv, CacheInv, ServedInv, SetsEvolve, Edited
    <2> QED BY <2>1, <2>2
<1> QED BY <1>1, <1>2, <1>3 DEF near_admin_call

\* The owner's calls to the Soroban oracle.
LEMMA SorobanCallPrices ==
    ASSUME AssetInv, CacheInv, ServedInv, IsHistory(history, MaxHistoryRecords), ~Near, ~Near',
           NEW c, IsSorobanCall(c), soroban_admin_call(c)
    PROVE  /\ AssetInv' /\ CacheInv' /\ ServedInv' /\ SetsEvolve
           /\ IsHistory(history', MaxHistoryRecords)
<1>0. /\ IsStoredSet(EmptySet, MaxBreakersPerProxy) /\ Validates(EmptySet)
      /\ IsHistory(<<>>, MaxHistoryRecords)
    <2>1. <<>> \in Seq(Price) /\ Len(<<>>) = 0
        OBVIOUS
    <2>2. IsHistory(<<>>, MaxHistoryRecords)
        BY <2>1, HistoryBound DEF IsHistory, StrictlyNewer
    <2> QED BY <2>2, OracleBounds, EmptyIsStored
<1>1. CASE c.method = "set_proxy" /\ set_proxy(c.config)
    <2>1. IsProxy(c.config) /\ proxy' = {c.config}
        BY <1>1 DEF IsSorobanCall, set_proxy
    <2>2. \/ cached' = {} /\ history' = <<>>
          \/ cached' = cached /\ history' = history
        BY <1>1 DEF set_proxy
    <2>3. CacheInv' /\ ServedInv' /\ IsHistory(history', MaxHistoryRecords)
        BY <1>0, <2>2 DEF CacheInv, ServedInv
    <2>4. CASE circuit_breakers' = {EmptySet}
        BY <1>0, <2>1, <2>3, <2>4 DEF AssetInv, SetsEvolve
    <2>5. CASE circuit_breakers' = circuit_breakers /\ circuit_breakers # {}
        <3>1. AssetInv'
            BY <2>1, <2>5 DEF AssetInv
        <3> QED BY <2>3, <2>5, <3>1, SameSetEvolves
    <2> QED BY <1>1, <2>4, <2>5 DEF set_proxy, StartsFreshBreakers
<1>2. CASE remove_proxy
    BY <1>0, <1>2 DEF remove_proxy, AssetInv, CacheInv, ServedInv, SetsEvolve
<1>3. CASE with_breakers(c)
    <2>0. history' = history
        BY <1>3 DEF with_breakers
    <2>1. CASE UNCHANGED <<proxy, circuit_breakers, cached>>
        <3>1. AssetInv' /\ CacheInv' /\ ServedInv'
            BY <2>0, <2>1 DEF AssetInv, CacheInv, ServedInv
        <3> QED BY <2>0, <2>1, <3>1, SameSetEvolves
    <2>2. CASE ~UNCHANGED <<proxy, circuit_breakers, cached>>
        <3>0. PICK set \in circuit_breakers : \E edited \in SorobanEdit(c, set) :
                 /\ Validates(set) /\ proxy' = proxy /\ proxy # {}
                 /\ circuit_breakers' = {edited} /\ cached' = {}
            BY <1>3, <2>2 DEF with_breakers
        <3>1. PICK edited \in SorobanEdit(c, set) :
                 /\ Validates(set) /\ proxy' = proxy /\ proxy # {}
                 /\ circuit_breakers' = {edited} /\ cached' = {}
            BY <3>0
        <3>2. PICK p : /\ proxy = {p} /\ IsProxy(p) /\ circuit_breakers = {set}
                       /\ IsStoredSet(set, MaxBreakersPerProxy)
            BY <3>1 DEF AssetInv
        <3>3. Edited(set, edited, MaxBreakersPerProxy)
            BY <3>1, <3>2, MethodsEdit
        <3> QED BY <2>0, <3>1, <3>2, <3>3 DEF AssetInv, CacheInv, ServedInv, SetsEvolve, Edited
    <2> QED BY <2>1, <2>2
<1> QED BY <1>1, <1>2, <1>3 DEF soroban_admin_call

\* The updates of the NEAR oracle, whenever their callbacks run.
LEMMA NearUpdatePrices ==
    ASSUME PricesInv, EpochInv, workload \in DOMAIN Workload, NearUpdate
    PROVE  AssetInv' /\ CacheInv' /\ ServedInv' /\ UpdatesInv' /\ SetsEvolve
<1>0. /\ now \in Nat /\ AssetInv /\ CacheInv /\ ServedInv /\ UpdatesInv
      /\ workload' = workload /\ calls' = calls /\ history' = history /\ Near
      /\ DOMAIN updates = Updates
    BY OracleBounds DEF PricesInv, NearUpdate, governanceVars, EpochInv
<1>00. Near'
    BY <1>0 DEF Near, deployment, W
<1> PICK u \in W.updates : \/ update_prices(u)
                           \/ update_prices_01_consume_results(u, SourceAnswers)
                           \/ update_callback_fails(u)
    BY DEF NearUpdate
<1>1. CASE update_prices(u)
    <2>1. PICK p \in proxy, set \in circuit_breakers :
             \/ /\ updates' = [updates EXCEPT ![u] = {[proxy |-> p, epoch |-> cache_epoch]}]
                /\ cached' = cached
             \/ cached' = {CachedFailed(now)} /\ updates' = updates
        BY <1>1 DEF update_prices
    <2>2. proxy' = proxy /\ circuit_breakers' = circuit_breakers /\ IsProxy(p)
        BY <1>0, <1>1 DEF update_prices, AssetInv
    <2>3. AssetInv' /\ SetsEvolve
        BY <1>0, <2>2, SameSetEvolves DEF AssetInv
    <2>4. CacheInv' /\ ServedInv'
        <3>1. CASE cached' = cached
            BY <1>0, <1>00, <2>2, <3>1 DEF CacheInv, ServedInv
        <3>2. CASE cached' = {CachedFailed(now)}
            <4>1. IsCacheEntry(CachedFailed(now)) /\ CachedFailed(now).price = {}
                BY <1>0 DEF CachedFailed, IsCacheEntry
            <4> QED BY <1>00, <3>2, <4>1 DEF CacheInv, ServedInv
        <3> QED BY <2>1, <3>1, <3>2
    <2>5. UpdatesInv'
        BY <1>0, <2>1, <2>2 DEF UpdatesInv
    <2> QED BY <2>3, <2>4, <2>5
<1>2. CASE update_prices_01_consume_results(u, SourceAnswers)
    <2>1. updates' = [updates EXCEPT ![u] = {}] /\ proxy' = proxy
        BY <1>2 DEF update_prices_01_consume_results
    <2>2. UpdatesInv'
        BY <1>0, <2>1 DEF UpdatesInv
    <2>3. CASE UNCHANGED <<circuit_breakers, cached>>
        BY <1>0, <1>00, <2>1, <2>2, <2>3, SameSetEvolves DEF AssetInv, CacheInv, ServedInv
    <2>4. CASE ~UNCHANGED <<circuit_breakers, cached>>
        <3>1. PICK pending \in updates[u], set \in circuit_breakers :
                 /\ Validates(set)
                 /\ \E answers \in [DOMAIN pending.proxy.sources -> SourceAnswers] :
                       \E r \in Resolved(pending.proxy, set, answers) :
                          circuit_breakers' = {r.set} /\ cached' = {r.entry}
            BY <1>2, <2>4 DEF update_prices_01_consume_results
        <3>2. PICK answers \in [DOMAIN pending.proxy.sources -> SourceAnswers] :
                 \E r \in Resolved(pending.proxy, set, answers) :
                    circuit_breakers' = {r.set} /\ cached' = {r.entry}
            BY <3>1
        <3>3. PICK r \in Resolved(pending.proxy, set, answers) :
                 circuit_breakers' = {r.set} /\ cached' = {r.entry}
            BY <3>2
        <3>4. PICK p : /\ proxy = {p} /\ IsProxy(p) /\ circuit_breakers = {set}
                       /\ IsStoredSet(set, MaxBreakersPerProxy)
            BY <1>0, <3>1 DEF AssetInv
        <3>5. /\ IsStoredSet(r.set, MaxBreakersPerProxy) /\ Validates(r.set)
              /\ Evolves(set, r.set) /\ IsCacheEntry(r.entry)
              /\ \A q \in r.entry.price : WithinStep(r.set, q, r.entry.updated_at)
            BY <1>0, <3>1, <3>4, ResolvedStores
        <3>6. AssetInv' /\ CacheInv' /\ SetsEvolve
            BY <2>1, <3>3, <3>4, <3>5 DEF AssetInv, CacheInv, SetsEvolve
        <3>7. ServedInv'
            BY <1>00, <3>3, <3>5 DEF ServedInv
        <3> QED BY <2>2, <3>6, <3>7
    <2> QED BY <2>3, <2>4
<1>3. CASE update_callback_fails(u)
    <2>1. /\ updates' = [updates EXCEPT ![u] = {}]
          /\ UNCHANGED <<proxy, circuit_breakers, cached>>
        BY <1>3 DEF update_callback_fails
    <2>2. UpdatesInv'
        BY <1>0, <2>1 DEF UpdatesInv
    <2> QED BY <1>0, <1>00, <2>1, <2>2, SameSetEvolves DEF AssetInv, CacheInv, ServedInv
<1> QED BY <1>1, <1>2, <1>3

\* A refresh of the Soroban oracle.
LEMMA RefreshPrices ==
    ASSUME PricesInv, workload \in DOMAIN Workload, SorobanRefresh
    PROVE  /\ AssetInv' /\ CacheInv' /\ ServedInv' /\ SetsEvolve
           /\ IsHistory(history', MaxHistoryRecords)
           /\ \A c \in cached' : c.updated_at = now
<1>0. /\ now \in Nat /\ AssetInv /\ ~Near /\ workload' = workload /\ proxy' = proxy
      /\ IsHistory(history, MaxHistoryRecords)
    BY OracleBounds DEF PricesInv, SorobanRefresh, refresh
<1>00. ~Near'
    BY <1>0 DEF Near, deployment, W
<1>1. PICK config \in proxy, set \in circuit_breakers :
         \E answers \in [DOMAIN config.sources -> SourceAnswers] :
            \E r \in RefreshResults(config, set, answers) :
               circuit_breakers' = {r.set} /\ history' = r.history /\ cached' = {r.entry}
    BY DEF SorobanRefresh, refresh
<1>2. PICK answers \in [DOMAIN config.sources -> SourceAnswers] :
         \E r \in RefreshResults(config, set, answers) :
            circuit_breakers' = {r.set} /\ history' = r.history /\ cached' = {r.entry}
    BY <1>1
<1>3. PICK r \in RefreshResults(config, set, answers) :
         circuit_breakers' = {r.set} /\ history' = r.history /\ cached' = {r.entry}
    BY <1>2
<1>4. /\ proxy = {config} /\ IsProxy(config) /\ circuit_breakers = {set}
      /\ IsStoredSet(set, MaxBreakersPerProxy)
    BY <1>0, <1>1 DEF AssetInv
<1>5. /\ IsStoredSet(r.set, MaxBreakersPerProxy)
      /\ r.set = set \/ Validates(r.set)
      /\ Evolves(set, r.set)
      /\ IsCacheEntry(r.entry) /\ r.entry.updated_at = now
      /\ IsHistory(r.history, MaxHistoryRecords)
      /\ \A p \in r.entry.price : r.history # <<>> /\ p = Last(r.history)
    BY <1>0, <1>4, RefreshStores
<1>6. AssetInv' /\ CacheInv' /\ SetsEvolve
    BY <1>0, <1>3, <1>4, <1>5 DEF AssetInv, CacheInv, SetsEvolve
<1>7. ServedInv'
    BY <1>00, <1>3, <1>5 DEF ServedInv
<1> QED BY <1>3, <1>5, <1>6, <1>7

\* The calls an owner account or the governance of the deployment makes are
\* well formed.
LEMMA CallTypes ==
    ASSUME workload \in DOMAIN Workload
    PROVE  /\ Near => \A c \in W.calls : IsNearCall(c)
           /\ ~Near /\ ~Governed => \A c \in W.calls : IsSorobanCall(c)
           /\ deployment = "near_governed" =>
                 \A op \in W.operations : op.kind = "TargetFunctionCall" => IsNearCall(op.call)
           /\ deployment = "soroban_governed" =>
                 \A op \in W.operations :
                    op.kind \in DOMAIN RuntimeMethod => IsSorobanCall(op.call)
BY WorkloadShape DEF W, Near, Governed, deployment, Deployments

\* The invariant holds initially.
LEMMA PricesInit == Init => PricesInv
<1> SUFFICES ASSUME Init PROVE PricesInv
    OBVIOUS
<1>1. /\ workload \in DOMAIN Workload /\ cached = {} /\ history = <<>> /\ calls = {}
      /\ updates = [u \in Updates |-> {}] /\ now = 0
    BY DEF Init, OracleInit, NearInit, SorobanInit
<1>2. AssetInv
    <2>1. CASE OracleInit
        BY <2>1 DEF OracleInit, AssetInv
    <2>2. CASE \E i \in W.initial : proxy = {i.proxy} /\ circuit_breakers = {i.set}
        <3>1. PICK i \in W.initial : proxy = {i.proxy} /\ circuit_breakers = {i.set}
            BY <2>2
        <3>2. IsProxy(i.proxy) /\ IsConfiguredSet(i.set, MaxBreakersPerProxy)
            BY <1>1, <3>1, WorkloadShape DEF W
        <3>3. IsStoredSet(i.set, MaxBreakersPerProxy)
            BY <3>2, OracleBounds, ConfiguredIsStored
        <3> QED BY <3>1, <3>2, <3>3 DEF AssetInv
    <2> QED BY <2>1, <2>2 DEF Init
<1>3. IsHistory(history, MaxHistoryRecords)
    <2>1. <<>> \in Seq(Price) /\ Len(<<>>) = 0
        OBVIOUS
    <2> QED BY <1>1, <2>1, HistoryBound DEF IsHistory, StrictlyNewer
<1>4. UpdatesInv /\ CacheInv /\ ServedInv
    BY <1>1 DEF UpdatesInv, CacheInv, ServedInv
<1> QED BY <1>1, <1>2, <1>3, <1>4, OracleBounds DEF PricesInv

\* The invariant is preserved by every step, and a step evolves the breaker set.
LEMMA PricesStep ==
    ASSUME PricesInv, EpochInv, GovernanceInv, [Next]_vars
    PROVE  PricesInv' /\ SetsEvolve
<1>0. /\ now \in 0..MaxNow /\ AssetInv /\ CacheInv /\ ServedInv /\ UpdatesInv
      /\ IsHistory(history, MaxHistoryRecords) /\ workload \in DOMAIN Workload
    BY DEF PricesInv, GovernanceInv
<1>w. workload' = workload
    BY DEF Next, vars, Time, NearUpdate, SorobanRefresh, OwnerCall, NearPropose,
           TargetCallLands, SorobanPropose, SorobanExecuteRuntime
<1>n. Near' = Near
    BY <1>w DEF Near, deployment, W
<1>1. CASE UNCHANGED <<proxy, circuit_breakers, cached, updates, history>> /\ now' \in 0..MaxNow
          /\ (calls' \subseteq calls \/ NearPropose)
    <2>1. AssetInv' /\ CacheInv' /\ ServedInv' /\ IsHistory(history', MaxHistoryRecords)
        BY <1>0, <1>1, <1>n DEF AssetInv, CacheInv, ServedInv
    <2>2. \A c \in calls' : IsNearCall(c.call)
        <3>1. CASE calls' \subseteq calls
            BY <1>0, <3>1 DEF UpdatesInv
        <3>2. CASE NearPropose
            <4> SUFFICES ASSUME NEW c \in calls', c \notin calls PROVE IsNearCall(c.call)
                BY <1>0 DEF UpdatesInv
            <4>1. PICK id \in active_ids :
                     /\ proposals[id].operation.kind = "TargetFunctionCall"
                     /\ c = [id |-> id, call |-> proposals[id].operation.call]
                BY <3>2 DEF NearPropose, near_create_proposal, near_cancel_proposal,
                            near_execute_proposal
            <4>2. proposals[id].operation \in W.operations
                BY <4>1 DEF GovernanceInv, BodyOK, IsBody
            <4> QED BY <1>0, <3>2, <4>1, <4>2, CallTypes DEF NearPropose
        <3> QED BY <1>1, <3>1, <3>2
    <2>3. UpdatesInv'
        BY <1>0, <1>1, <2>2 DEF UpdatesInv
    <2> QED BY <1>0, <1>1, <2>1, <2>3, SameSetEvolves DEF PricesInv
<1>2. CASE NearUpdate
    <2>1. now' = now /\ history' = history
        BY <1>2 DEF NearUpdate, update_prices, update_prices_01_consume_results,
                    update_callback_fails
    <2> QED BY <1>0, <1>2, <2>1, NearUpdatePrices DEF PricesInv
<1>3. CASE SorobanRefresh
    <2>1. now' = now /\ UNCHANGED <<updates, calls>>
        BY <1>3 DEF SorobanRefresh, refresh, governanceVars, nearVars
    <2>2. UpdatesInv'
        BY <1>0, <2>1 DEF UpdatesInv
    <2> QED BY <1>0, <1>3, <2>1, <2>2, RefreshPrices DEF PricesInv
<1>4. ASSUME NEW c, IsNearCall(c), Near, near_admin_call(c), calls' \subseteq calls,
             history' = history
      PROVE  PricesInv' /\ SetsEvolve
    <2>1. now' = now /\ updates' = updates
        BY <1>4 DEF near_admin_call
    <2>2. UpdatesInv'
        BY <1>0, <1>4, <2>1 DEF UpdatesInv
    <2> QED BY <1>0, <1>n, <1>4, <2>1, <2>2, NearCallPrices DEF PricesInv
<1>5. ASSUME NEW c, IsSorobanCall(c), ~Near, soroban_admin_call(c), calls' = calls,
             updates' = updates
      PROVE  PricesInv' /\ SetsEvolve
    <2>1. now' = now
        BY <1>5 DEF soroban_admin_call
    <2>2. UpdatesInv'
        BY <1>0, <1>5, <2>1 DEF UpdatesInv
    <2> QED BY <1>0, <1>n, <1>5, <2>1, <2>2, SorobanCallPrices DEF PricesInv
<1>6. CASE OwnerCall
    <2>1. PICK c \in W.calls : \/ Near /\ near_admin_call(c) /\ UNCHANGED history
                               \/ ~Near /\ soroban_admin_call(c) /\ UNCHANGED nearVars
        BY <1>6 DEF OwnerCall
    <2>2. calls' = calls /\ ~Governed
        BY <1>6 DEF OwnerCall, governanceVars
    <2> QED BY <1>0, <1>4, <1>5, <2>1, <2>2, CallTypes DEF nearVars
<1>7. CASE TargetCallLands
    <2>1. PICK c \in calls : near_admin_call(c.call) \/ UNCHANGED oracleVars
        BY <1>7 DEF TargetCallLands
    <2>2. IsNearCall(c.call) /\ Near /\ calls' \subseteq calls /\ history' = history
        BY <1>0, <1>7 DEF UpdatesInv, TargetCallLands, Near
    <2> QED BY <1>0, <1>1, <1>4, <2>1, <2>2 DEF oracleVars
<1>8. CASE SorobanExecuteRuntime
    <2>1. PICK id \in active_ids : /\ soroban_admin_call(proposals[id].operation.call)
                                   /\ proposals[id].operation.kind \in DOMAIN RuntimeMethod
        BY <1>8 DEF SorobanExecuteRuntime, soroban_execute_runtime
    <2>2. proposals[id].operation \in W.operations
        BY <2>1 DEF GovernanceInv, BodyOK, IsBody
    <2>3. ~Near /\ calls' = calls /\ updates' = updates
        BY <1>8 DEF SorobanExecuteRuntime, Near, nearVars
    <2>4. IsSorobanCall(proposals[id].operation.call)
        BY <1>0, <1>8, <2>1, <2>2, CallTypes DEF SorobanExecuteRuntime
    <2> QED BY <1>5, <2>1, <2>3, <2>4
<1>9. CASE Time
    <2>1. now' \in 0..MaxNow
        BY <1>0, <1>9, OracleBounds DEF Time, Tick
    <2> QED BY <1>1, <1>9, <2>1 DEF Time, governanceVars
<1>10. CASE NearPropose \/ SorobanPropose \/ UNCHANGED vars
    BY <1>0, <1>1, <1>10 DEF NearPropose, SorobanPropose, vars, oracleVars, governanceVars
<1> QED BY <1>2, <1>3, <1>6, <1>7, <1>8, <1>9, <1>10 DEF Next

-----------------------------------------------------------------------------
(* The theorems                                                            *)

\* What the proofs below use: the invariants together.
OracleInv == PricesInv /\ EpochInv /\ GovernanceInv

\* They hold initially and are preserved by every step.
LEMMA OracleInductive ==
    /\ Init => OracleInv
    /\ OracleInv /\ [Next]_vars => OracleInv' /\ SetsEvolve
<1>1. OracleInv /\ [Next]_vars => PricesInv' /\ SetsEvolve
    BY PricesStep DEF OracleInv
<1> QED BY <1>1, PricesInit, EpochsInductive, GovernanceInductive DEF OracleInv

\* The type invariant follows.
LEMMA InvIsTyped == OracleInv => TypeOK
<1> SUFFICES ASSUME OracleInv PROVE TypeOK
    OBVIOUS
<1>0. /\ now \in 0..MaxNow /\ AssetInv /\ CacheInv /\ UpdatesInv /\ EpochInv /\ RolesInv
      /\ IsHistory(history, MaxHistoryRecords)
    BY DEF OracleInv, PricesInv, GovernanceInv
<1>1. Cardinality({}) = 0 /\ \A x : Cardinality({x}) = 1
    BY FS_EmptySet, FS_Singleton
<1>10. ASSUME NEW S, S = {} \/ \E x : S = {x}
       PROVE  Cardinality(S) <= 1
    <2>1. Cardinality(S) \in {0, 1}
        BY <1>1, <1>10, Zenon
    <2> QED BY <2>1
<1>11. Cardinality(proxy) <= 1 /\ Cardinality(circuit_breakers) = Cardinality(proxy)
    <2>1. CASE proxy = {} /\ circuit_breakers = {}
        BY <1>10, <2>1
    <2>2. CASE ~(proxy = {} /\ circuit_breakers = {})
        <3>1. PICK p, set : proxy = {p} /\ circuit_breakers = {set}
            BY <1>0, <2>2 DEF AssetInv
        <3>2. Cardinality({p}) = 1 /\ Cardinality({set}) = 1
            BY <1>1
        <3> QED BY <3>1, <3>2
    <2> QED BY <2>1, <2>2
<1>12. Cardinality(cached) <= 1
    BY <1>0, <1>10 DEF CacheInv
<1>13. ASSUME NEW u \in Updates PROVE Cardinality(updates[u]) <= 1
    <2>1. updates[u] = {} \/ \E x : updates[u] = {x}
        BY <1>0 DEF UpdatesInv
    <2> QED BY <1>10, <2>1
<1>3. ASSUME NEW set \in circuit_breakers
      PROVE  /\ Len(set.accepted) <= set.history_len
             /\ Cardinality(set.observed) <= (IF set.history_len = 0 THEN 0 ELSE 1)
             /\ Cardinality(DOMAIN set.breakers) <= MaxBreakersPerProxy
    <2>1. IsStoredSet(set, MaxBreakersPerProxy)
        BY <1>0 DEF AssetInv
    <2>2. /\ Len(set.accepted) <= set.history_len
          /\ Cardinality(DOMAIN set.breakers) <= MaxBreakersPerProxy
        BY <2>1 DEF IsStoredSet, IsHistory
    <2>3. CASE set.observed = {}
        <3>1. Cardinality(set.observed) = 0
            BY <1>1, <2>3
        <3> QED BY <2>2, <3>1
    <2>4. CASE set.observed # {}
        <3>1. set.history_len > 0 /\ \E o : set.observed = {o}
            BY <2>1, <2>4 DEF IsStoredSet
        <3>2. Cardinality(set.observed) <= 1
            BY <1>10, <3>1
        <3> QED BY <2>2, <3>1, <3>2
    <2> QED BY <2>3, <2>4
<1>4. \A c \in cached : /\ c.status \in {"Accepted", "Blocked", "ResolveFailed"}
                        /\ c.price # {} <=> c.status = "Accepted"
    BY <1>0 DEF CacheInv, IsCacheEntry
<1>5. Len(history) <= MaxHistoryRecords
    BY <1>0 DEF IsHistory
<1> QED BY <1>0, <1>11, <1>12, <1>13, <1>3, <1>4, <1>5 DEF TypeOK, EpochInv, RolesInv

\* For any constants: the accepted history of a breaker set and the Soroban
\* aggregate history increase strictly in publication time and keep to their
\* capacity, and the Soroban cache serves the newest price of its history.
THEOREM HistoriesAlwaysAdvance == Spec => []HistoriesAdvance
<1>1. OracleInv => HistoriesAdvance
    <2> SUFFICES ASSUME OracleInv PROVE HistoriesAdvance
        OBVIOUS
    <2>1. \A set \in circuit_breakers : StrictlyNewer(set.accepted)
        BY DEF OracleInv, PricesInv, AssetInv, IsStoredSet, IsHistory
    <2>2. StrictlyNewer(history)
        BY DEF OracleInv, PricesInv, IsHistory
    <2>3. ~Near => \A c \in cached : \A p \in c.price : history # <<>> /\ p = Last(history)
        BY DEF OracleInv, PricesInv, ServedInv
    <2> QED BY <2>1, <2>2, <2>3, InvIsTyped DEF HistoriesAdvance
<1> QED BY <1>1, OracleInductive, PTL DEF Spec

\* For any constants: what the NEAR oracle serves is within the step threshold
\* of the last accepted price, for every enforced stepwise breaker that was
\* armed when the price was resolved.
THEOREM ServedAlwaysWithinStep == Spec => []ServedWithinStep
<1>1. OracleInv => ServedWithinStep
    BY DEF OracleInv, PricesInv, ServedInv, WithinStep, ServedWithinStep
<1> QED BY <1>1, OracleInductive, PTL DEF Spec

\* For any constants: no step stores a breaker set that does not validate, and
\* while a set lives an id names one rule.
THEOREM BreakersStaySound == Spec => BreakerSetsStaySound
<1>1. SetsEvolve => \A set2 \in circuit_breakers' :
          /\ set2 \in circuit_breakers \/ Validates(set2)
          /\ \A set \in circuit_breakers :
                set2 # EmptySet =>
                /\ set2.next_id >= set.next_id
                /\ \A id \in DOMAIN set2.breakers :
                      IF id \in DOMAIN set.breakers
                      THEN set2.breakers[id].breaker = set.breakers[id].breaker
                      ELSE id >= set.next_id
    BY DEF SetsEvolve, Evolves
<1> QED BY <1>1, OracleInductive, PTL DEF Spec, BreakerSetsStaySound

\* What aggregated_latest answers only grows old while the cache and the proxy
\* stand still.
LEMMA AnswersAge ==
    ASSUME PricesInv, proxy' = proxy, cached' = cached, now' \in {now, now + 1}
    PROVE  aggregated_latest' \subseteq aggregated_latest
<1> SUFFICES ASSUME NEW p \in aggregated_latest' PROVE p \in aggregated_latest
    OBVIOUS
<1>1. PICK config \in proxy : \E max_age \in config.max_age : p \in CachedNoOlderThan(max_age)'
    BY DEF aggregated_latest
<1>2. PICK max_age \in config.max_age : p \in CachedNoOlderThan(max_age)'
    BY <1>1
<1>3. PICK c \in cached : /\ now' - c.updated_at <= max_age
                          /\ p \in c.price /\ now' - p.publish_time <= max_age
    BY <1>2 DEF CachedNoOlderThan
<1>4. /\ now \in Nat /\ c.updated_at \in Nat /\ p.publish_time \in Nat /\ max_age \in Nat
    BY <1>1, <1>3, OracleBounds DEF PricesInv, CacheInv, IsCacheEntry, Price, AssetInv, IsProxy
<1>5. now - c.updated_at <= max_age /\ now - p.publish_time <= max_age
    BY <1>3, <1>4
<1>6. p \in CachedNoOlderThan(max_age)
    BY <1>3, <1>5 DEF CachedNoOlderThan
<1> QED BY <1>1, <1>6 DEF aggregated_latest

\* A step of a Soroban deployment other than a refresh keeps the cached entry
\* and the proxy, or drops the entry.
LEMMA OnlyRefreshCaches ==
    ASSUME ~Near, [Next]_vars, ~SorobanRefresh
    PROVE  cached' = {} \/ (cached' = cached /\ proxy' = proxy)
<1>1. ASSUME NEW c, soroban_admin_call(c)
      PROVE  cached' = {} \/ (cached' = cached /\ proxy' = proxy)
    <2>1. CASE set_proxy(c.config)
        BY <2>1 DEF set_proxy, DropsAnswers
    <2>2. CASE with_breakers(c)
        BY <2>2 DEF with_breakers
    <2> QED BY <1>1, <2>1, <2>2 DEF soroban_admin_call, remove_proxy
<1> QED BY <1>1 DEF Next, vars, oracleVars, Time, NearUpdate, OwnerCall, NearPropose,
                    TargetCallLands, SorobanPropose, SorobanExecuteRuntime, Near

\* For any constants: once aggregated_latest answers nothing, only a refresh
\* makes it answer again.
THEOREM ExpiredNeverResurrected == Spec => ExpiredStaysExpired
<1>1. ASSUME OracleInv, [Next]_vars, ~Near, aggregated_latest = {}, aggregated_latest' # {}
      PROVE  \E c \in cached' : c \notin cached /\ c.updated_at = now
    <2>1. PricesInv /\ workload \in DOMAIN Workload /\ CacheInv
        BY <1>1 DEF OracleInv, GovernanceInv, PricesInv
    <2>2. ~(cached' = cached /\ proxy' = proxy /\ now' \in {now, now + 1})
        BY <1>1, <2>1, AnswersAge
    <2>3. cached' # {}
        BY <1>1 DEF aggregated_latest, CachedNoOlderThan
    <2>4. now' \in {now, now + 1}
        BY <1>1 DEF Next, vars, oracleVars, Time, Tick, NearUpdate, SorobanRefresh, refresh,
                    OwnerCall, near_admin_call, soroban_admin_call, NearPropose,
                    TargetCallLands, SorobanPropose, SorobanExecuteRuntime
    <2>5. SorobanRefresh
        BY <1>1, <2>2, <2>3, <2>4, OnlyRefreshCaches
    <2>6. proxy' = proxy /\ \A c \in cached' : c.updated_at = now
        BY <2>1, <2>5, RefreshPrices DEF SorobanRefresh, refresh
    <2>7. PICK entry : cached' = {entry}
        BY <2>5, Zenon DEF SorobanRefresh, refresh
    <2> QED BY <2>1, <2>2, <2>4, <2>6, <2>7 DEF CacheInv
<1>2. OracleInv /\ [Next]_vars =>
        [~Near /\ aggregated_latest = {} /\ aggregated_latest' # {} =>
            \E c \in cached' : c \notin cached /\ c.updated_at = now]_vars
    BY <1>1
<1> QED BY <1>2, OracleInductive, PTL DEF Spec, ExpiredStaysExpired

\* For any constants: sources with more than half of the valid weight keep the
\* median within their own intervals.
THEOREM MajorityAlwaysBounds == Spec => []MajorityBoundsTheMedian
<1>1. ASSUME workload \in DOMAIN Workload, now \in Nat, NEW p \in W.proxies,
             NEW answers \in [DOMAIN p.sources -> SourceAnswers],
             NEW price \in Aggregate(p, answers, now), p.aggregator # "Priority",
             NEW T \in SUBSET MedianEntries(p, Filtered(p, answers, now)),
             2 * WeightOf(T) > WeightOf(MedianEntries(p, Filtered(p, answers, now)))
      PROVE  /\ \E e \in T : e.value <= price.price
             /\ \E e \in T : price.price <= e.value
    <2> DEFINE f == Filtered(p, answers, now)
               entries == MedianEntries(p, f)
    <2>1. \A i \in DOMAIN answers : answers[i] = {} \/ \E q \in Answer : answers[i] = {q}
        BY <1>1, AnswersTyped
    <2>2. IsAnswered(f) /\ DOMAIN f = DOMAIN p.sources
        BY <2>1, FilteredAnswers
    <2>3. IsProxy(p)
        BY <1>1, WorkloadShape DEF W
    <2>4. IsWeighted(p, f)
        BY <2>2, <2>3 DEF IsWeighted, IsProxy
    <2>5. price \in MedianPrices(p, f)
        BY <1>1 DEF Aggregate
    <2> HIDE DEF f
    <2>6. PICK e \in EntriesAt(entries, MedianTarget(p.aggregator, entries)) :
             price = [price |-> e.value, conf |-> 0, publish_time |-> e.publish_time]
        BY <2>5 DEF MedianPrices
    <2>7. price.price = e.value
        BY <2>6
    <2>8. T \in SUBSET MedianEntries(p, f) /\ 2 * WeightOf(T) > WeightOf(MedianEntries(p, f))
        BY <1>1 DEF f
    <2>9. /\ \E x \in T : x.value <= e.value
          /\ \E x \in T : e.value <= x.value
        BY <2>2, <2>4, <2>6, <2>8, MajorityDecides
    <2> QED BY <2>7, <2>9
<1>2. GovernanceInv => MajorityBoundsTheMedian
    BY <1>1 DEF GovernanceInv, MajorityBoundsTheMedian
<1> QED BY <1>2, GovernanceInductive, PTL DEF Spec
=============================================================================
