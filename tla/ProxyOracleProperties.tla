----------------------- MODULE ProxyOracleProperties -----------------------
(***************************************************************************)
(* What the proxy oracle and its governance promise, in every deployment   *)
(* of ProxyOracleSystem.                                                   *)
(***************************************************************************)
EXTENDS ProxyOracleSystem

-----------------------------------------------------------------------------
(* Prices and breakers                                                     *)

\* Every variable holds a value of its kind: an asset has a breaker set
\* exactly when it has a proxy, a breaker set's histories respect their
\* capacity, and only an accepted cache entry carries a price.
TypeOK ==
    /\ now \in 0..MaxNow /\ cache_epoch \in Nat
    /\ Cardinality(proxy) <= 1 /\ Cardinality(cached) <= 1
    /\ Cardinality(circuit_breakers) = Cardinality(proxy)
    /\ \A set \in circuit_breakers :
          /\ Len(set.accepted) <= set.history_len
          /\ Cardinality(set.observed) <= (IF set.history_len = 0 THEN 0 ELSE 1)
          /\ Cardinality(DOMAIN set.breakers) <= MaxBreakersPerProxy
    /\ \A c \in cached :
          /\ c.status \in {"Accepted", "Blocked", "ResolveFailed"}
          /\ c.price # {} <=> c.status = "Accepted"
    /\ \A u \in Updates : Cardinality(updates[u]) <= 1
    /\ \A u \in superseded : updates[u] # {}
    /\ Len(history) <= MaxHistoryRecords
    /\ roles \in [Role -> SUBSET Accounts]

\* While the stored breaker set blocks, by hand or by an enforced tripped
\* breaker, no accepted price is in the cache: every edit that could make
\* the set block drops the cache (edit_circuit_breaker_set, with_breakers),
\* and a price that trips a breaker is cached as blocked in the same step.
BlockedIsNeverServed ==
    \A set \in circuit_breakers, c \in cached :
       IsBlocking(set) => c.status # "Accepted"

\* The accepted history of a breaker set and the Soroban aggregate history
\* are strictly increasing in publication time and keep to their capacity,
\* although answers arrive in any order, source clocks run ahead, and
\* capacities and configurations change: a rule never compares a price with
\* a later one, and aggregated_history returns "strictly increasing
\* publication timestamps".  The Soroban cache serves the newest price of
\* that history: a refresh whose candidate is older answers with the newer
\* price it already has (prepare_history_update).
HistoriesAdvance ==
    /\ TypeOK
    /\ \A set \in circuit_breakers : StrictlyNewer(set.accepted)
    /\ StrictlyNewer(history)
    /\ ~Near => \A c \in cached : \A p \in c.price :
                   history # <<>> /\ p = Last(history)

\* "Every persisted breaker set is semantically valid": no step stores a
\* set whose rules cannot work with its history length and sampling
\* interval.  A set an older version left invalid is not edited either; it
\* only goes away with its proxy.  And for as long as a set lives, an id
\* names one rule: what a queued removal, re-arming or enforcement change
\* was filed for is what it acts on, or it is refused.  A set that is
\* replaced (a proxy removed, or on Soroban other sources) starts over.
BreakerSetsStaySound ==
    [][\A set2 \in circuit_breakers' :
          /\ set2 \in circuit_breakers \/ Validates(set2)
          /\ \A set \in circuit_breakers :
                set2 # EmptySet =>
                /\ set2.next_id >= set.next_id
                /\ \A id \in DOMAIN set2.breakers :
                      IF id \in DOMAIN set.breakers
                      THEN set2.breakers[id].breaker = set.breakers[id].breaker
                      ELSE id >= set.next_id]_vars

\* "stale callbacks cannot repopulate cache or mutate breaker state after
\* configuration changes": an update begun before the owner last changed
\* the proxy or the breakers ends without a trace, also when the change was
\* undone in between.
SupersededUpdatesAreIgnored ==
    [][\A u \in superseded :
          updates'[u] = {} => UNCHANGED <<proxy, circuit_breakers, cached>>]_vars

\* The price the NEAR oracle serves is within the step threshold of the
\* last price of the accepted history, for every enforced stepwise breaker
\* that was armed when the price was resolved; sampling, which keeps prices
\* out of the history, does not let the served price wander further.
ServedWithinStep ==
    Near =>
    \A set \in circuit_breakers, c \in cached :
       \A id \in DOMAIN set.breakers, p \in c.price :
          /\ Validates(set) /\ set.accepted # <<>>
          /\ set.breakers[id].breaker.rule = "StepwiseChange"
          /\ set.breakers[id].is_enforced
          /\ c.updated_at >= set.breakers[id].status.armed_after
          => ~RelativeChangeExceeds(Last(set.accepted).price, p.price,
                                    set.breakers[id].breaker.threshold)

\* "Later policy changes cannot resurrect an expired proof": once
\* aggregated_latest answers nothing, only a refresh makes it answer again.
ExpiredStaysExpired ==
    [][~Near /\ aggregated_latest = {} /\ aggregated_latest' # {} =>
          \E c \in cached' : c \notin cached /\ c.updated_at = now]_vars

\* A majority of the weight decides the median: sources with more than half
\* of the valid weight keep the result within their own intervals, whatever
\* the others answer.  Evaluated on every answer of the sources to every
\* proxy of the workload.
MajorityBoundsTheMedian ==
    now = 0 /\ circuit_breakers = {} =>
    \A p \in W.proxies :
       \A answers \in [DOMAIN p.sources -> SourceAnswers] :
          LET filtered == Filtered(p, answers, now)
              entries == MedianEntries(p, filtered)
              of(M) == {e \in entries : e.source \in M}
          IN \A price \in Aggregate(p, answers, now) :
             p.aggregator # "Priority" =>
             \A M \in SUBSET {e.source : e \in entries} :
                2 * WeightOf(of(M)) > WeightOf(entries) =>
                /\ \E e \in of(M) : e.value <= price.price
                /\ \E e \in of(M) : price.price <= e.value

-----------------------------------------------------------------------------
(* Governance                                                              *)

\* An id is spent once: only the next id becomes pending, and a target call
\* leaves for the oracle only in the step that retires its proposal.
IdsAreSpentOnce ==
    [][/\ active_ids' \ active_ids \subseteq {next_id}
       /\ next_id' = next_id + Cardinality(active_ids' \ active_ids)
       /\ \A c \in calls' \ calls : c.id \in active_ids \ active_ids']_vars

\* The lock of the NEAR policy that l names, or of the Soroban table
Lock(policy, l) ==
    IF Near THEN (IF l \in ReflexiveKind THEN policy.reflexive[l]
                  ELSE Resolve(policy, l).ttl)
    ELSE policy[l]

Locks == IF Near THEN ReflexiveKind \cup {"default"} \cup {c.method : c \in W.calls}
         ELSE OperationKind

\* The pending ids, the stored bodies and the timelocks agree: every pending
\* id has a body and every body is pending, ids were issued, the cap holds,
\* and no proposal waits longer than the maximum, across interleaved
\* creations, cancellations, executions and executions that are reverted.
LedgerExact ==
    /\ active_ids = DOMAIN proposals
    /\ \A id \in active_ids : id \in 0..(next_id - 1) /\ proposals[id].ttl <= MaxProposalTtl
    /\ Cardinality(active_ids) <= MaxPendingProposals

\* Governance can always repair itself, whatever proposals were queued
\* together: the ledger is exact; "removing the final `Role::Admin`
\* membership is rejected", also when each of several revocations was
\* allowed when it was filed; no lock exceeds the maximum and no NEAR
\* override exceeds the default, so that a proposal that repairs the policy
\* can be opened and a reset to the default never shortens a lock.
GovernanceStaysOperable ==
    /\ LedgerExact
    /\ roles["Admin"] # {}
    /\ deployment = "near_governed" => PolicyWithinBounds(ttls)
    /\ deployment = "soroban_governed" =>
         \A kind \in OperationKind : ttls[kind] <= MaxProposalTtl

\* A lock is weakened only by a proposal that waited it out: when an
\* execution lowers a lock below the value the lock had when that proposal
\* was filed, the proposal is at least as old as that value.
LocksAreWaitedOut ==
    [][\A id \in active_ids \ active_ids' :
          \A l \in Locks :
             /\ Lock(ttls', l) < Lock(ttls, l)
             /\ Lock(ttls', l) < Lock(filed[id], l)
             => now - proposals[id].created_at >= Lock(filed[id], l)]_vars
=============================================================================
