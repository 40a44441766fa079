------------------------- MODULE ProxyOracleProofs -------------------------
(***************************************************************************)
(* For any deployments, proxies, prices, calls and bounds: the proxy       *)
(* oracle never serves a price while its breakers block, and an update     *)
(* begun before a change of configuration leaves no trace; its governance  *)
(* stays operable, spends every id once, and weakens a lock only by a      *)
(* proposal that waited the lock out.                                      *)
(***************************************************************************)
EXTENDS ProxyOracleProperties, ProxyKernelProofs

\* Leaves that name no prover go to SMT, with half a minute each, then to Zenon.
USE SMTT(30), Zenon

-----------------------------------------------------------------------------
(* Breaker sets                                                            *)

\* The empty set is well formed and blocks nothing (CircuitBreakerSet::empty).
LEMMA EmptyIsBreakerSet == IsBreakerSet(EmptySet) /\ ~IsBlocking(EmptySet)
BY DEF IsBreakerSet, IsBlocking, EmptySet

\* Recording an observation neither makes a set block nor releases it.
LEMMA ObservationKeepsBlocking ==
    ASSUME NEW set, IsBreakerSet(set), NEW price, NEW t
    PROVE  LET o == WithObservation(set, price, t)
           IN IsBreakerSet(o) /\ (IsBlocking(o) <=> IsBlocking(set))
BY DEF IsBreakerSet, IsBlocking, EmptySet, WithObservation, BreakerBlocks

\* try_accept_price leaves a well-formed set, and one that does not block
\* when it accepts the price.
LEMMA AcceptedMeansUnblocked ==
    ASSUME NEW set, IsBreakerSet(set), NEW price, NEW t
    PROVE  LET result == TryAcceptPrice(set, price, t)
           IN /\ IsBreakerSet(result.set)
              /\ result.accepted => ~IsBlocking(result.set)
<1> DEFINE observed == WithObservation(set, price, t)
           proposed == Pushed(set.accepted, price, set.history_len)
           tested == [observed EXCEPT !.breakers =
                        [id \in DOMAIN @ |-> AppliedArmedTransition(@[id], proposed, t)]]
           recorded == [tested EXCEPT !.accepted = proposed]
<1>1. IsBreakerSet(observed)
    BY ObservationKeepsBlocking
<1>2. IsBreakerSet(tested)
    BY <1>1 DEF IsBreakerSet
<1>3. /\ IsBreakerSet(recorded)
      /\ recorded.breakers = tested.breakers
      /\ recorded.is_manually_tripped = tested.is_manually_tripped
    <2> HIDE DEF tested, proposed
    <2> QED BY <1>2 DEF IsBreakerSet, EmptySet
<1>4. IsBlocking(recorded) <=> IsBlocking(tested)
    <2> HIDE DEF recorded, tested
    <2> QED BY <1>3 DEF IsBlocking
<1>5. TryAcceptPrice(set, price, t) =
        IF IsBlocking(set) THEN [set |-> observed, accepted |-> FALSE]
        ELSE IF IsBlocking(tested) THEN [set |-> tested, accepted |-> FALSE]
        ELSE IF ShouldPersistSample(set, t) /\ AcceptedShouldAdvance(set, price)
             THEN [set |-> recorded, accepted |-> TRUE]
        ELSE [set |-> tested, accepted |-> TRUE]
    BY DEF TryAcceptPrice
<1> HIDE DEF observed, proposed, tested, recorded
<1> QED BY <1>1, <1>2, <1>3, <1>4, <1>5

\* Every edit of a breaker set leaves a breaker set.
LEMMA EditsKeepSets ==
    ASSUME NEW set, IsBreakerSet(set)
    PROVE  /\ \A trip : \A s \in SetManualTrip(set, trip) : IsBreakerSet(s)
           /\ \A interval, len : \A s \in SetConfig(set, interval, len) : IsBreakerSet(s)
           /\ \A id, b : \A s \in AddBreaker(set, id, b) : IsBreakerSet(s)
           /\ \A id : \A s \in RemoveBreaker(set, id) : IsBreakerSet(s)
           /\ \A id, on : \A s \in SetEnforced(set, id, on) : IsBreakerSet(s)
           /\ \A id, t : \A s \in Rearm(set, id, t) : IsBreakerSet(s)
<1>1. \A trip : \A s \in SetManualTrip(set, trip) : IsBreakerSet(s)
    BY DEF SetManualTrip, IsBreakerSet
<1>2. \A interval, len : \A s \in SetConfig(set, interval, len) : IsBreakerSet(s)
    BY DEF SetConfig, IsBreakerSet
<1>3. \A id, b : \A s \in AddBreaker(set, id, b) : IsBreakerSet(s)
    BY Zenon DEF AddBreaker, IsBreakerSet
<1>4. \A id : \A s \in RemoveBreaker(set, id) : IsBreakerSet(s)
    BY DEF RemoveBreaker, IsBreakerSet
<1>5. \A id, on : \A s \in SetEnforced(set, id, on) : IsBreakerSet(s)
    BY DEF SetEnforced, IsBreakerSet
<1>6. \A id, t : \A s \in Rearm(set, id, t) : IsBreakerSet(s)
    BY DEF Rearm, IsBreakerSet
<1> QED BY <1>1, <1>2, <1>3, <1>4, <1>5, <1>6

\* The breaker methods of both runtimes only make such edits.
LEMMA MethodsKeepSets ==
    ASSUME NEW set, IsBreakerSet(set), NEW c
    PROVE  /\ \A s \in NearEdit(c, set) : IsBreakerSet(s)
           /\ \A s \in SorobanEdit(c, set) : IsBreakerSet(s)
<1>1. \A s \in NearEdit(c, set) : IsBreakerSet(s)
    BY EditsKeepSets DEF NearEdit
<1>2. \A s \in SorobanEdit(c, set) : IsBreakerSet(s)
    BY EditsKeepSets DEF SorobanEdit
<1> QED BY <1>1, <1>2

-----------------------------------------------------------------------------
(* No price is served while the breakers block                             *)

\* The inductive invariant: the fields that a blocked state is read from are
\* there, and the property.
BreakersInv ==
    /\ \A set \in circuit_breakers : IsBreakerSet(set)
    /\ BlockedIsNeverServed

\* What the callback of a NEAR update leaves satisfies the invariant.
LEMMA ResolvedIsSound ==
    ASSUME NEW p, NEW set, IsBreakerSet(set), NEW answers,
           NEW r \in Resolved(p, set, answers)
    PROVE  /\ IsBreakerSet(r.set)
           /\ IsBlocking(r.set) => r.entry.status # "Accepted"
<1>1. CASE Aggregate(p, answers, now) = {}
    BY <1>1 DEF Resolved, CachedFailed
<1>2. CASE Aggregate(p, answers, now) # {}
    <2>1. PICK price \in Aggregate(p, answers, now) :
             r = LET result == TryAcceptPrice(set, Kept(price), now)
                 IN [set |-> result.set,
                     entry |-> IF result.accepted THEN CachedAccepted(Kept(price), now)
                               ELSE CachedBlocked(now)]
        BY <1>2 DEF Resolved
    <2> QED BY <2>1, AcceptedMeansUnblocked DEF CachedBlocked
<1> QED BY <1>1, <1>2

\* So does what a Soroban refresh leaves.
LEMMA RefreshIsSound ==
    ASSUME NEW config, NEW set, IsBreakerSet(set), NEW answers,
           NEW r \in RefreshResults(config, set, answers)
    PROVE  /\ IsBreakerSet(r.set)
           /\ IsBlocking(r.set) => r.entry.status # "Accepted"
<1> DEFINE same(entry) == [set |-> set, history |-> history, entry |-> entry]
           prices == Aggregate(config, answers, now)
           answered(price) ==
             LET p == Kept(price)
                 result == TryAcceptPrice(set, p, now)
             IN IF ~result.accepted
                THEN [same(CachedBlocked(now)) EXCEPT !.set = result.set]
                ELSE [set |-> result.set,
                      history |-> HistoryUpdate(p).history,
                      entry |-> CachedAccepted(HistoryUpdate(p).served, now)]
<1>1. \/ r = same(CachedFailed(now)) \/ r = same(CachedBlocked(now))
      \/ \E price \in prices : r = answered(price)
    BY DEF RefreshResults
<1>2. ASSUME NEW price, r = answered(price)
      PROVE  /\ IsBreakerSet(r.set)
             /\ IsBlocking(r.set) => r.entry.status # "Accepted"
    BY <1>2, AcceptedMeansUnblocked DEF CachedBlocked
<1> QED BY <1>1, <1>2 DEF CachedFailed, CachedBlocked

\* The owner's calls to the NEAR oracle keep the invariant.
LEMMA NearCallKeepsBreakers ==
    ASSUME BreakersInv, NEW c, near_admin_call(c)
    PROVE  BreakersInv'
<1>1. CASE \E p \in c.proxy : StoreProxy(p)
    BY <1>1, EmptyIsBreakerSet DEF BreakersInv, BlockedIsNeverServed, StoreProxy
<1>2. CASE DropProxy
    BY <1>2 DEF BreakersInv, BlockedIsNeverServed, DropProxy
<1>3. CASE EditBreakers(c)
    BY <1>3, MethodsKeepSets DEF BreakersInv, BlockedIsNeverServed, EditBreakers
<1> QED BY <1>1, <1>2, <1>3 DEF near_admin_call

\* The owner's calls to the Soroban oracle keep the invariant.
LEMMA SorobanCallKeepsBreakers ==
    ASSUME BreakersInv, NEW c, soroban_admin_call(c)
    PROVE  BreakersInv'
<1>1. CASE set_proxy(c.config)
    BY <1>1, EmptyIsBreakerSet DEF BreakersInv, BlockedIsNeverServed, set_proxy
<1>2. CASE remove_proxy
    BY <1>2 DEF BreakersInv, BlockedIsNeverServed, remove_proxy
<1>3. CASE with_breakers(c)
    BY <1>3, MethodsKeepSets DEF BreakersInv, BlockedIsNeverServed, with_breakers
<1> QED BY <1>1, <1>2, <1>3 DEF soroban_admin_call

\* An update of the NEAR oracle keeps the invariant, whenever its callback
\* runs.
LEMMA NearUpdateKeepsBreakers ==
    ASSUME BreakersInv, NearUpdate
    PROVE  BreakersInv'
<1> PICK u \in W.updates : \/ update_prices(u)
                           \/ update_prices_01_consume_results(u, SourceAnswers)
                           \/ update_callback_fails(u)
    BY DEF NearUpdate
<1>1. CASE update_prices(u)
    BY <1>1 DEF update_prices, BreakersInv, BlockedIsNeverServed, CachedFailed
<1>2. CASE update_prices_01_consume_results(u, SourceAnswers)
    <2>1. CASE UNCHANGED <<circuit_breakers, cached>>
        BY <2>1 DEF BreakersInv, BlockedIsNeverServed
    <2>2. CASE \E pending \in updates[u], set \in circuit_breakers : \E answers :
                 \E r \in Resolved(pending.proxy, set, answers) :
                    circuit_breakers' = {r.set} /\ cached' = {r.entry}
        BY <2>2, ResolvedIsSound DEF BreakersInv, BlockedIsNeverServed
    <2> QED BY <1>2, <2>1, <2>2 DEF update_prices_01_consume_results
<1>3. CASE update_callback_fails(u)
    BY <1>3 DEF update_callback_fails, BreakersInv, BlockedIsNeverServed
<1> QED BY <1>1, <1>2, <1>3

\* The invariant holds initially and is preserved by every step.
LEMMA BreakersInductive ==
    /\ Init => BreakersInv
    /\ BreakersInv /\ [Next]_vars => BreakersInv'
<1>1. Init => BreakersInv
    BY WorkloadShape DEF Init, OracleInit, BreakersInv, BlockedIsNeverServed, W, IsConfiguredSet
<1>2. BreakersInv /\ [Next]_vars => BreakersInv'
    <2> SUFFICES ASSUME BreakersInv, [Next]_vars PROVE BreakersInv'
        OBVIOUS
    <2>1. CASE UNCHANGED <<circuit_breakers, cached>>
        BY <2>1 DEF BreakersInv, BlockedIsNeverServed
    <2>2. CASE NearUpdate
        BY <2>2, NearUpdateKeepsBreakers
    <2>3. CASE SorobanRefresh
        <3>1. PICK config \in proxy, set \in circuit_breakers : \E answers :
                 \E r \in RefreshResults(config, set, answers) :
                    circuit_breakers' = {r.set} /\ cached' = {r.entry}
            BY <2>3 DEF SorobanRefresh, refresh
        <3> QED BY <3>1, RefreshIsSound DEF BreakersInv, BlockedIsNeverServed
    <2>4. CASE OwnerCall
        BY <2>4, NearCallKeepsBreakers, SorobanCallKeepsBreakers DEF OwnerCall
    <2>5. CASE TargetCallLands
        BY <2>5, <2>1, NearCallKeepsBreakers DEF TargetCallLands, oracleVars
    <2>6. CASE SorobanExecuteRuntime
        BY <2>6, SorobanCallKeepsBreakers DEF SorobanExecuteRuntime
    <2> QED BY <2>1, <2>2, <2>3, <2>4, <2>5, <2>6
            DEF Next, vars, oracleVars, Time, NearPropose, SorobanPropose
<1> QED BY <1>1, <1>2

\* For any constants: while the stored breaker set blocks, no accepted price
\* is in the cache.
THEOREM BlockedNeverServed == Spec => []BlockedIsNeverServed
<1>1. BreakersInv => BlockedIsNeverServed
    BY DEF BreakersInv
<1> QED BY <1>1, BreakersInductive, PTL DEF Spec

-----------------------------------------------------------------------------
(* A superseded update leaves no trace                                     *)

\* The inductive invariant: every update in flight carries an epoch the cache
\* has had, and a superseded one an earlier epoch than the present.
EpochInv ==
    /\ cache_epoch \in Nat
    /\ DOMAIN updates = Updates
    /\ \A u \in Updates : \A pending \in updates[u] :
          pending.epoch \in Nat /\ pending.epoch <= cache_epoch
    /\ superseded \subseteq Updates
    /\ \A u \in superseded :
          /\ updates[u] # {}
          /\ \A pending \in updates[u] : pending.epoch < cache_epoch

\* A call that changes the proxy or the breakers moves the epoch on, and no
\* call moves it back (invalidate_cached_price).
LEMMA ChangesMoveTheEpoch ==
    ASSUME cache_epoch \in Nat, NEW c, near_admin_call(c)
    PROVE  /\ cache_epoch' \in {cache_epoch, cache_epoch + 1}
           /\ <<proxy', circuit_breakers'>> # <<proxy, circuit_breakers>> =>
                 cache_epoch' = cache_epoch + 1
<1>1. CASE \E p \in c.proxy : StoreProxy(p)
    BY <1>1 DEF StoreProxy
<1>2. CASE DropProxy
    BY <1>2 DEF DropProxy
<1>3. CASE EditBreakers(c)
    BY <1>3 DEF EditBreakers
<1> QED BY <1>1, <1>2, <1>3 DEF near_admin_call

\* The owner's calls keep the invariant.
LEMMA NearCallKeepsEpochs ==
    ASSUME EpochInv, NEW c, near_admin_call(c)
    PROVE  EpochInv'
<1>1. /\ cache_epoch' \in {cache_epoch, cache_epoch + 1}
      /\ <<proxy', circuit_breakers'>> # <<proxy, circuit_breakers>> =>
            cache_epoch' = cache_epoch + 1
    BY ChangesMoveTheEpoch DEF EpochInv
<1>2. updates' = updates
    BY DEF near_admin_call
<1>3. CASE <<proxy', circuit_breakers'>> # <<proxy, circuit_breakers>>
    <2>1. superseded' = {u \in Updates : updates[u] # {}}
        BY <1>3 DEF near_admin_call
    <2> QED BY <1>1, <1>2, <1>3, <2>1 DEF EpochInv
<1>4. CASE <<proxy', circuit_breakers'>> = <<proxy, circuit_breakers>>
    <2>1. superseded' = superseded
        BY <1>4 DEF near_admin_call
    <2> QED BY <1>1, <1>2, <2>1 DEF EpochInv
<1> QED BY <1>3, <1>4

\* Updates keep the invariant: a new one starts with the present epoch.
LEMMA NearUpdateKeepsEpochs ==
    ASSUME EpochInv, NearUpdate
    PROVE  EpochInv'
<1> PICK u \in W.updates : \/ update_prices(u)
                           \/ update_prices_01_consume_results(u, SourceAnswers)
                           \/ update_callback_fails(u)
    BY DEF NearUpdate
<1>1. CASE update_prices(u)
    <2>1. /\ updates[u] = {}
          /\ superseded' = superseded
          /\ \/ cache_epoch' = cache_epoch + 1 /\ updates' = updates
             \/ /\ cache_epoch' = cache_epoch
                /\ \E p : updates' = [updates EXCEPT ![u] = {[proxy |-> p, epoch |-> cache_epoch]}]
        BY <1>1 DEF update_prices
    <2> QED BY <2>1 DEF EpochInv
<1>2. CASE /\ updates' = [updates EXCEPT ![u] = {}]
           /\ superseded' = superseded \ {u}
           /\ cache_epoch' = cache_epoch
    BY <1>2 DEF EpochInv
<1> QED BY <1>1, <1>2 DEF update_prices_01_consume_results, update_callback_fails

\* The invariant holds initially and is preserved by every step.
LEMMA EpochsInductive ==
    /\ Init => EpochInv
    /\ EpochInv /\ [Next]_vars => EpochInv'
<1>1. Init => EpochInv
    BY DEF Init, NearInit, EpochInv
<1>2. EpochInv /\ [Next]_vars => EpochInv'
    <2> SUFFICES ASSUME EpochInv, [Next]_vars PROVE EpochInv'
        OBVIOUS
    <2>1. CASE UNCHANGED nearVars
        BY <2>1 DEF EpochInv, nearVars
    <2>2. CASE NearUpdate
        BY <2>2, NearUpdateKeepsEpochs
    <2>3. CASE OwnerCall
        BY <2>1, <2>3, NearCallKeepsEpochs DEF OwnerCall
    <2>4. CASE TargetCallLands
        BY <2>1, <2>4, NearCallKeepsEpochs DEF TargetCallLands, oracleVars, nearVars
    <2> QED BY <2>1, <2>2, <2>3, <2>4
            DEF Next, vars, oracleVars, nearVars, Time, SorobanRefresh, NearPropose,
                SorobanPropose, SorobanExecuteRuntime
<1> QED BY <1>1, <1>2

\* A step that ends a superseded update changes neither the proxy nor the
\* breakers nor the cache.
LEMMA SupersededStep ==
    ASSUME EpochInv, [Next]_vars, NEW u \in superseded, updates'[u] = {}
    PROVE  UNCHANGED <<proxy, circuit_breakers, cached>>
<1>1. updates' # updates
    BY DEF EpochInv
<1>2. NearUpdate
    BY <1>1 DEF Next, vars, oracleVars, nearVars, Time, SorobanRefresh, OwnerCall, NearPropose,
                TargetCallLands, SorobanPropose, SorobanExecuteRuntime, near_admin_call
<1> PICK v \in W.updates : \/ update_prices(v)
                           \/ update_prices_01_consume_results(v, SourceAnswers)
                           \/ update_callback_fails(v)
    BY <1>2 DEF NearUpdate
<1>3. ~update_prices(v)
    BY DEF update_prices, EpochInv
<1>4. CASE update_prices_01_consume_results(v, SourceAnswers)
    <2>1. u = v
        BY <1>4 DEF update_prices_01_consume_results, EpochInv
    <2>2. \A pending \in updates[v] : ~IsCurrent(pending)
        BY <2>1 DEF EpochInv, IsCurrent
    <2> QED BY <1>4, <2>2 DEF update_prices_01_consume_results
<1>5. CASE update_callback_fails(v)
    BY <1>5 DEF update_callback_fails
<1> QED BY <1>3, <1>4, <1>5

\* For any constants: an update begun before the owner last changed the proxy
\* or the breakers ends without a trace.
THEOREM SupersededIgnored == Spec => SupersededUpdatesAreIgnored
<1>1. EpochInv /\ [Next]_vars =>
        [\A u \in superseded :
            updates'[u] = {} => UNCHANGED <<proxy, circuit_breakers, cached>>]_vars
    BY SupersededStep
<1> QED BY <1>1, EpochsInductive, PTL DEF Spec, SupersededUpdatesAreIgnored

-----------------------------------------------------------------------------
(* Governance                                                              *)

\* The policy is one the contract of this deployment can have.
PolicyOK(policy) ==
    /\ deployment = "near_governed" => IsNearPolicy(policy)
    /\ deployment = "soroban_governed" => IsSorobanPolicy(policy)

\* What is known of a pending proposal and the policy it was filed under.
BodyOK(body, policy) ==
    /\ IsBody(body, W.operations)
    /\ deployment = "near_governed" => IsNearBody(body, policy, W.operations)
    /\ deployment = "soroban_governed" => IsSorobanBody(body, policy, W.operations)

\* The inductive invariant.
GovernanceInv ==
    /\ workload \in DOMAIN Workload
    /\ now \in Nat
    /\ LedgerInv
    /\ RolesInv
    /\ PolicyOK(ttls)
    /\ \A id \in active_ids : BodyOK(proposals[id], filed[id])

\* What a step may do: a step of the ledger that leaves the workload alone,
\* an administrator and a sound policy, and a sound proposal if it adds one.
SoundStep ==
    /\ workload' = workload
    /\ now' \in Nat
    /\ LedgerStep
    /\ RolesInv'
    /\ PolicyOK(ttls')
    /\ next_id \in active_ids' => BodyOK(proposals'[next_id], filed'[next_id])

\* Such a step keeps the invariant.
LEMMA SoundStepsSuffice ==
    ASSUME GovernanceInv, SoundStep
    PROVE  GovernanceInv'
<1>1. LedgerInv'
    BY LedgerInductive DEF GovernanceInv, SoundStep
<1>2. \A id \in active_ids' : BodyOK(proposals'[id], filed'[id])
    <2> TAKE id \in active_ids'
    <2>1. id \in active_ids \/ id = next_id
        BY DEF SoundStep, LedgerStep
    <2>2. CASE id \in active_ids
        BY <2>2, BodiesKept DEF GovernanceInv, SoundStep
    <2> QED BY <2>1, <2>2 DEF SoundStep
<1> QED BY <1>1, <1>2 DEF GovernanceInv, SoundStep, PolicyOK, BodyOK, W, deployment

\* The operations of a deployment are of its kind.
LEMMA OperationTypes ==
    ASSUME workload \in DOMAIN Workload
    PROVE  /\ W.requested \subseteq Nat
           /\ deployment = "near_governed" => \A op \in W.operations : IsNearOperation(op)
           /\ deployment = "soroban_governed" => \A op \in W.operations : IsSorobanOperation(op)
BY WorkloadShape DEF W, deployment

\* A step that touches neither ledger nor roles nor policy.
LEMMA IdleStep ==
    ASSUME GovernanceInv, workload' = workload, now' \in Nat,
           UNCHANGED <<next_id, active_ids, ttls, proposals, roles, filed>>
    PROVE  SoundStep
BY DEF GovernanceInv, SoundStep, LedgerStep, LedgerInv, RolesInv

\* A step that only drops a proposal, as cancellations and runtime calls do.
LEMMA DroppingStep ==
    ASSUME GovernanceInv, workload' = workload, now' = now, UNCHANGED <<ttls, roles>>,
           NEW id \in active_ids, Drop(id)
    PROVE  SoundStep
<1>1. LedgerStep /\ next_id \notin active_ids'
    BY LedgerSteps DEF Drop, GovernanceInv, LedgerInv
<1> QED BY <1>1 DEF GovernanceInv, SoundStep, RolesInv

\* Creations, cancellations and executions of the NEAR contract.
LEMMA NearProposeSound ==
    ASSUME GovernanceInv, NearPropose
    PROVE  SoundStep
<1>1. /\ deployment = "near_governed" /\ deployment # "soroban_governed"
      /\ IsNearPolicy(ttls)
      /\ \A op \in W.operations : IsNearOperation(op)
      /\ W.requested \subseteq Nat
      /\ next_id \notin active_ids
    BY OperationTypes DEF NearPropose, GovernanceInv, PolicyOK, LedgerInv
<1>2. workload' = workload /\ now' = now
    BY DEF NearPropose, oracleVars
<1>3. ASSUME NEW a, NEW op \in W.operations, NEW requested \in W.requested,
             near_create_proposal(a, op, requested, now)
      PROVE  SoundStep
    <2>1. /\ LedgerStep
          /\ IsNearBody(proposals'[next_id], filed'[next_id], W.operations)
          /\ UNCHANGED <<ttls, roles>>
        BY <1>1, <1>3, NearCreated DEF GovernanceInv
    <2> QED BY <1>1, <1>2, <2>1 DEF GovernanceInv, SoundStep, BodyOK, IsNearBody, RolesInv
<1>4. ASSUME NEW a, NEW id \in active_ids, near_cancel_proposal(a, id)
      PROVE  SoundStep
    BY <1>2, <1>4, DroppingStep DEF near_cancel_proposal
<1>5. ASSUME NEW a, NEW id \in active_ids, near_execute_proposal(a, id, now)
      PROVE  SoundStep
    <2>1. IsNearOperation(proposals[id].operation)
        BY <1>1 DEF GovernanceInv, BodyOK, IsBody
    <2>2. LedgerStep /\ active_ids' = active_ids \ {id} /\ IsNearPolicy(ttls') /\ RolesInv'
        BY <1>1, <1>5, <2>1, NearExecuted DEF GovernanceInv
    <2> QED BY <1>1, <1>2, <2>2 DEF GovernanceInv, SoundStep, PolicyOK
<1> QED BY <1>3, <1>4, <1>5 DEF NearPropose

\* Creations, cancellations and executions of the Soroban contract.
LEMMA SorobanProposeSound ==
    ASSUME GovernanceInv, SorobanPropose
    PROVE  SoundStep
<1>1. /\ deployment = "soroban_governed" /\ deployment # "near_governed"
      /\ IsSorobanPolicy(ttls)
      /\ \A op \in W.operations : IsSorobanOperation(op)
      /\ W.requested \subseteq Nat
      /\ next_id \notin active_ids
    BY OperationTypes DEF SorobanPropose, GovernanceInv, PolicyOK, LedgerInv
<1>2. workload' = workload /\ now' = now
    BY DEF SorobanPropose, oracleVars
<1>3. ASSUME NEW a, NEW op \in W.operations, NEW requested \in W.requested,
             soroban_create_proposal(a, op, requested, now)
      PROVE  SoundStep
    <2>1. /\ LedgerStep
          /\ IsSorobanBody(proposals'[next_id], filed'[next_id], W.operations)
          /\ UNCHANGED <<ttls, roles>>
        BY <1>1, <1>3, SorobanCreated DEF GovernanceInv
    <2> QED BY <1>1, <1>2, <2>1 DEF GovernanceInv, SoundStep, BodyOK, IsSorobanBody, RolesInv
<1>4. ASSUME NEW a, NEW id \in active_ids, soroban_cancel_proposal(a, id)
      PROVE  SoundStep
    BY <1>2, <1>4, DroppingStep DEF soroban_cancel_proposal
<1>5. ASSUME NEW a, NEW id \in active_ids, soroban_execute_reflexive(a, id, now)
      PROVE  SoundStep
    <2>1. IsSorobanOperation(proposals[id].operation)
        BY <1>1 DEF GovernanceInv, BodyOK, IsBody
    <2>2. LedgerStep /\ active_ids' = active_ids \ {id} /\ IsSorobanPolicy(ttls') /\ RolesInv'
        BY <1>1, <1>5, <2>1, SorobanExecuted DEF GovernanceInv
    <2> QED BY <1>1, <1>2, <2>2 DEF GovernanceInv, SoundStep, PolicyOK
<1> QED BY <1>3, <1>4, <1>5 DEF SorobanPropose

\* Every step of the system is sound.
LEMMA StepsAreSound ==
    ASSUME GovernanceInv, [Next]_vars
    PROVE  SoundStep
<1>0. now \in Nat
    BY DEF GovernanceInv
<1>1. CASE NearPropose
    BY <1>1, NearProposeSound
<1>2. CASE SorobanPropose
    BY <1>2, SorobanProposeSound
<1>3. CASE SorobanExecuteRuntime
    BY <1>3, DroppingStep DEF SorobanExecuteRuntime, soroban_execute_runtime,
                              soroban_execute_checks, soroban_admin_call
<1>4. CASE Time
    BY <1>0, <1>4, IdleStep DEF Time, Tick, governanceVars
<1>5. CASE NearUpdate
    BY <1>0, <1>5, IdleStep DEF NearUpdate, governanceVars, update_prices,
                                update_prices_01_consume_results, update_callback_fails
<1>6. CASE SorobanRefresh
    BY <1>0, <1>6, IdleStep DEF SorobanRefresh, governanceVars, refresh
<1>7. CASE OwnerCall
    BY <1>0, <1>7, IdleStep DEF OwnerCall, governanceVars, near_admin_call, soroban_admin_call
<1>8. CASE TargetCallLands
    BY <1>0, <1>8, IdleStep DEF TargetCallLands, near_admin_call, oracleVars
<1>9. CASE UNCHANGED vars
    BY <1>0, <1>9, IdleStep DEF vars, governanceVars, oracleVars
<1> QED BY <1>1, <1>2, <1>3, <1>4, <1>5, <1>6, <1>7, <1>8, <1>9 DEF Next

\* The invariant holds initially and is preserved by every step.
LEMMA GovernanceInductive ==
    /\ Init => GovernanceInv
    /\ GovernanceInv /\ [Next]_vars => GovernanceInv'
<1>1. ASSUME Init PROVE GovernanceInv
    <2>1. workload \in DOMAIN Workload /\ now = 0
        BY <1>1 DEF Init, OracleInit
    <2>2. PICK policy \in W.policies : GovernanceInit(Admin, policy)
        BY <1>1 DEF Init
    <2>3. LedgerInv
        BY <2>2, LedgerInductive
    <2>4. RolesInv /\ ttls \in W.policies /\ active_ids = {}
        BY <2>2, CallBound DEF RolesInv, GovernanceInit, Role
    <2>5. PolicyOK(ttls)
        BY <2>1, <2>4, WorkloadShape DEF PolicyOK, W, deployment
    <2> QED BY <2>1, <2>3, <2>4, <2>5 DEF GovernanceInv
<1>2. ASSUME GovernanceInv, [Next]_vars PROVE GovernanceInv'
    BY <1>2, StepsAreSound, SoundStepsSuffice
<1> QED BY <1>1, <1>2

-----------------------------------------------------------------------------
(* The theorems                                                            *)

\* For any constants: ids, bodies and timelocks agree, an administrator
\* remains, and the policy stays within the bounds that let it be repaired.
THEOREM GovernanceOperable == Spec => []GovernanceStaysOperable
<1>1. ASSUME GovernanceInv PROVE GovernanceStaysOperable
    <2>1. LedgerExact
        BY <1>1, Bounds DEF GovernanceInv, LedgerExact, LedgerInv, BodyOK, IsBody
    <2>2. deployment = "soroban_governed" =>
             \A kind \in OperationKind : ttls[kind] <= MaxProposalTtl
        BY <1>1, Bounds DEF GovernanceInv, PolicyOK, IsSorobanPolicy
    <2> QED BY <1>1, <2>1, <2>2
            DEF GovernanceInv, GovernanceStaysOperable, RolesInv, PolicyOK, IsNearPolicy
<1> QED BY <1>1, GovernanceInductive, PTL DEF Spec

\* A target call leaves only in the step that retires its proposal.
LEMMA CallsLeaveOnce ==
    ASSUME [Next]_vars
    PROVE  \A c \in calls' \ calls : c.id \in active_ids \ active_ids'
<1>1. CASE calls' \subseteq calls
    BY <1>1
<1>2. CASE NearPropose
    BY <1>1, <1>2 DEF NearPropose, near_create_proposal, near_cancel_proposal,
                      near_execute_proposal, Drop
<1>3. CASE TargetCallLands
    BY <1>1, <1>3 DEF TargetCallLands
<1> QED BY <1>1, <1>2, <1>3
        DEF Next, vars, governanceVars, Time, NearUpdate, SorobanRefresh, OwnerCall,
            SorobanPropose, SorobanExecuteRuntime

\* For any constants: only the next id becomes pending, and a target call
\* leaves for the oracle only in the step that retires its proposal.
THEOREM IdsSpentOnce == Spec => IdsAreSpentOnce
<1>1. ASSUME GovernanceInv, [Next]_vars
      PROVE  /\ active_ids' \ active_ids \subseteq {next_id}
             /\ next_id' = next_id + Cardinality(active_ids' \ active_ids)
             /\ \A c \in calls' \ calls : c.id \in active_ids \ active_ids'
    <2>1. LedgerStep /\ LedgerInv
        BY <1>1, StepsAreSound DEF SoundStep, GovernanceInv
    <2>2. \/ active_ids' \ active_ids = {} /\ next_id' = next_id
          \/ active_ids' \ active_ids = {next_id} /\ next_id' = next_id + 1
        BY <2>1 DEF LedgerStep, LedgerInv
    <2>3. Cardinality({}) = 0 /\ Cardinality({next_id}) = 1
        BY FS_EmptySet, FS_Singleton, Zenon
    <2>4. next_id' = next_id + Cardinality(active_ids' \ active_ids)
        BY <2>1, <2>2, <2>3 DEF LedgerInv
    <2> QED BY <1>1, <2>2, <2>4, CallsLeaveOnce
<1> QED BY <1>1, GovernanceInductive, PTL DEF Spec, IdsAreSpentOnce

\* Nothing but an execution retires a proposal and changes a lock.
LEMMA RetiredAndLowered ==
    ASSUME [Next]_vars, NEW id \in active_ids \ active_ids', ttls' # ttls
    PROVE  \E a : /\ CanExecute(proposals[id], now)
                  /\ \/ deployment = "near_governed" /\ near_execute_proposal(a, id, now)
                     \/ /\ deployment = "soroban_governed"
                        /\ soroban_execute_reflexive(a, id, now)
<1>1. CASE NearPropose
    <2>1. PICK a \in Accounts, id2 \in active_ids : near_execute_proposal(a, id2, now)
        BY <1>1, Zenon DEF NearPropose, near_create_proposal, near_cancel_proposal, Create
    <2>2. Drop(id2) /\ CanExecute(proposals[id2], now)
        BY <2>1, NearEffect
    <2>3. id2 = id
        BY <2>2 DEF Drop
    <2> QED BY <1>1, <2>1, <2>2, <2>3 DEF NearPropose
<1>2. CASE SorobanPropose
    <2>1. PICK a \in Accounts, id2 \in active_ids : soroban_execute_reflexive(a, id2, now)
        BY <1>2, Zenon DEF SorobanPropose, soroban_create_proposal, soroban_cancel_proposal, Create
    <2>2. Drop(id2) /\ CanExecute(proposals[id2], now)
        BY <2>1 DEF soroban_execute_reflexive, soroban_execute_checks
    <2>3. id2 = id
        BY <2>2 DEF Drop
    <2> QED BY <1>2, <2>1, <2>2, <2>3 DEF SorobanPropose
<1> QED BY <1>1, <1>2
        DEF Next, vars, governanceVars, Time, NearUpdate, SorobanRefresh, OwnerCall,
            TargetCallLands, SorobanExecuteRuntime, soroban_execute_runtime

\* For any constants: an execution lowers a lock below the value it had when
\* the proposal was filed only if the proposal is at least as old as that.
THEOREM LocksWaitedOut == Spec => LocksAreWaitedOut
<1>1. ASSUME GovernanceInv, [Next]_vars, NEW id \in active_ids \ active_ids', NEW l \in Locks,
             Lock(ttls', l) < Lock(ttls, l), Lock(ttls', l) < Lock(filed[id], l)
      PROVE  now - proposals[id].created_at >= Lock(filed[id], l)
    <2>1. workload' = workload
        BY <1>1, StepsAreSound DEF SoundStep
    <2>2. /\ now \in Nat /\ proposals[id].created_at \in Nat /\ proposals[id].ttl \in Nat
          /\ BodyOK(proposals[id], filed[id]) /\ PolicyOK(ttls)
        BY <1>1, Bounds DEF GovernanceInv, BodyOK, IsBody
    <2>3. Governed
        BY <1>1, Zenon DEF Next, vars, governanceVars, Time, NearUpdate, SorobanRefresh, OwnerCall,
                    NearPropose, TargetCallLands, SorobanPropose, SorobanExecuteRuntime, Governed
    <2>4. CASE deployment = "near_governed"
        <3>1. \A policy : Lock(policy, l) = NearLock(policy, l)
            BY <2>4 DEF Lock, NearLock, Near
        <3>2. /\ IsNearPolicy(ttls) /\ IsNearPolicy(filed[id])
              /\ IsNearBody(proposals[id], filed[id], W.operations)
              /\ IsNearOperation(proposals[id].operation)
            BY <1>1, <2>2, <2>4, OperationTypes
               DEF GovernanceInv, PolicyOK, BodyOK, IsNearBody, IsBody
        <3>3. NearLock(ttls, l) \in Nat /\ NearLock(filed[id], l) \in Nat
            BY <3>2, NearLockType
        <3>4. ttls' # ttls
            BY <1>1, <3>1, <3>3
        <3>5. PICK a : CanExecute(proposals[id], now) /\ near_execute_proposal(a, id, now)
            BY <1>1, <2>4, <3>4, RetiredAndLowered
        <3>6. NearLock(filed[id], l) <= proposals[id].ttl
            BY <1>1, <3>1, <3>2, <3>5, NearExecutionWaited
        <3> QED BY <2>2, <3>1, <3>3, <3>5, <3>6 DEF CanExecute
    <2>5. CASE deployment = "soroban_governed"
        <3>1. l \in OperationKind /\ \A policy : Lock(policy, l) = policy[l]
            BY <2>5 DEF Lock, Locks, Near
        <3>2. /\ IsSorobanPolicy(ttls) /\ IsSorobanPolicy(filed[id])
              /\ IsSorobanBody(proposals[id], filed[id], W.operations)
            BY <2>2, <2>5 DEF PolicyOK, BodyOK, IsSorobanBody
        <3>3. ttls[l] \in Nat /\ filed[id][l] \in Nat
            BY <3>1, <3>2, Bounds DEF IsSorobanPolicy
        <3>4. ttls' # ttls
            BY <1>1, <3>1, <3>3
        <3>5. PICK a : CanExecute(proposals[id], now) /\ soroban_execute_reflexive(a, id, now)
            BY <1>1, <2>5, <3>4, RetiredAndLowered
        <3>6. filed[id][l] <= proposals[id].ttl
            BY <1>1, <3>1, <3>2, <3>5, SorobanExecutionWaited
        <3> QED BY <2>2, <3>1, <3>3, <3>5, <3>6 DEF CanExecute
    <2> QED BY <2>3, <2>4, <2>5 DEF Governed
<1>2. GovernanceInv /\ [Next]_vars =>
        [\A id \in active_ids \ active_ids' :
            \A l \in Locks :
               /\ Lock(ttls', l) < Lock(ttls, l)
               /\ Lock(ttls', l) < Lock(filed[id], l)
               => now - proposals[id].created_at >= Lock(filed[id], l)]_vars
    BY <1>1
<1> QED BY <1>2, GovernanceInductive, PTL DEF Spec, LocksAreWaitedOut
=============================================================================
