------------------------- MODULE ProxyKernelProofs -------------------------
(***************************************************************************)
(* What the operations of the proxy oracle's kernels do, for any sets of   *)
(* breakers, prices and sources, and any proposals: the price histories,   *)
(* try_accept_price and the edits of a breaker set, the weighted median,   *)
(* and the proposal ledger, policies and roles of the governance contracts.*)
(***************************************************************************)
EXTENDS CircuitBreakers, PriceAggregation, NearGovernance, SorobanGovernance, FiniteSums

\* Leaves that name no prover go to SMT, with half a minute each, then to Zenon.
USE SMTT(30), Zenon

-----------------------------------------------------------------------------
(* Histories                                                               *)

Price == [price : Nat, publish_time : Nat]

\* A history of capacity n: prices in the order of their publication.
IsHistory(h, n) == h \in Seq(Price) /\ Len(h) <= n /\ StrictlyNewer(h)

\* set_capacity keeps the newest entries in their places.
LEMMA NewestEntries ==
    ASSUME NEW S, NEW h \in Seq(S), NEW n \in Nat
    PROVE  /\ Newest(h, n) \in Seq(S)
           /\ Len(Newest(h, n)) = IF Len(h) > n THEN n ELSE Len(h)
           /\ \A i \in 1..Len(Newest(h, n)) :
                 Newest(h, n)[i] = h[i + Len(h) - Len(Newest(h, n))]
<1> DEFINE m == IF Len(h) > n THEN Len(h) - n + 1 ELSE 1
<1>1. Len(h) \in Nat /\ m \in 1..(Len(h) + 1)
    OBVIOUS
<1>2. /\ Len(SubSeq(h, m, Len(h))) = Len(h) - m + 1
      /\ \A i \in 1..(Len(h) - m + 1) : SubSeq(h, m, Len(h))[i] = h[m + i - 1]
    <2> HIDE DEF m
    <2> QED BY <1>1
<1>3. SubSeq(h, m, Len(h)) \in Seq(S)
    <2> HIDE DEF m
    <2> QED BY <1>1
<1>4. Newest(h, n) = SubSeq(h, m, Len(h))
    BY DEF Newest
<1>5. Len(h) - m + 1 = IF Len(h) > n THEN n ELSE Len(h)
    BY <1>1
<1>6. ASSUME NEW i \in 1..(Len(h) - m + 1)
      PROVE  SubSeq(h, m, Len(h))[i] = h[i + Len(h) - (Len(h) - m + 1)]
    <2> HIDE DEF m
    <2>1. m + i - 1 = i + Len(h) - (Len(h) - m + 1)
        BY <1>1
    <2> QED BY <1>2, <2>1, Zenon
<1> HIDE DEF m
<1> QED BY ONLY <1>2, <1>3, <1>4, <1>5, <1>6

\* So a history stays one when its capacity changes.
LEMMA NewestIsHistory ==
    ASSUME NEW h, NEW k, IsHistory(h, k), NEW n \in Nat
    PROVE  IsHistory(Newest(h, n), n)
<1> DEFINE t == Newest(h, n)
<1>1. /\ h \in Seq(Price) /\ Len(h) \in Nat /\ StrictlyNewer(h)
    BY DEF IsHistory
<1>2. /\ t \in Seq(Price) /\ Len(t) = IF Len(h) > n THEN n ELSE Len(h)
      /\ \A i \in 1..Len(t) : t[i] = h[i + Len(h) - Len(t)]
    BY <1>1, NewestEntries
<1> HIDE DEF t
<1>3. ASSUME NEW i \in 1..(Len(t) - 1) PROVE t[i].publish_time < t[i + 1].publish_time
    <2>1. /\ i \in 1..Len(t) /\ i + 1 \in 1..Len(t)
          /\ i + Len(h) - Len(t) \in 1..(Len(h) - 1)
          /\ (i + 1) + Len(h) - Len(t) = (i + Len(h) - Len(t)) + 1
        BY <1>1, <1>2
    <2> QED BY <1>1, <1>2, <2>1, Zenon DEF StrictlyNewer
<1>4. Len(t) <= n
    BY <1>1, <1>2
<1> QED BY <1>2, <1>3, <1>4 DEF IsHistory, StrictlyNewer, t

\* push: the new price is the last one, after the one that was.
LEMMA PushedEntries ==
    ASSUME NEW h \in Seq(Price), NEW o \in Price, NEW n \in Nat
    PROVE  /\ n > 0 => Pushed(h, o, n) # <<>> /\ Last(Pushed(h, o, n)) = o
           /\ n > 1 /\ h # <<>> =>
                 /\ Len(Pushed(h, o, n)) >= 2
                 /\ Pushed(h, o, n)[Len(Pushed(h, o, n)) - 1] = Last(h)
<1> DEFINE a == Append(h, o)
           t == Newest(a, n)
<1>1. /\ a \in Seq(Price) /\ Len(a) = Len(h) + 1 /\ Len(h) \in Nat
      /\ a[Len(h) + 1] = o /\ \A i \in 1..Len(h) : a[i] = h[i]
    OBVIOUS
<1> HIDE DEF a
<1>2. /\ t \in Seq(Price) /\ Len(t) = IF Len(a) > n THEN n ELSE Len(a)
      /\ \A i \in 1..Len(t) : t[i] = a[i + Len(a) - Len(t)]
    BY <1>1, NewestEntries, Zenon
<1> HIDE DEF t
<1>3. ASSUME n > 0 PROVE t # <<>> /\ t[Len(t)] = o
    <2>1. Len(t) >= 1 /\ Len(t) \in 1..Len(t) /\ Len(t) + Len(a) - Len(t) = Len(h) + 1
        BY <1>1, <1>2, <1>3
    <2>2. t[Len(t)] = a[Len(t) + Len(a) - Len(t)]
        BY <1>2, <2>1, Zenon
    <2>3. t # <<>>
        BY <1>2, <2>1
    <2> QED BY <1>1, <2>1, <2>2, <2>3
<1>4. ASSUME n > 1, h # <<>> PROVE Len(t) >= 2 /\ t[Len(t) - 1] = h[Len(h)]
    <2>1. Len(h) >= 1
        BY <1>1, <1>4
    <2>2. /\ Len(t) >= 2 /\ Len(t) - 1 \in 1..Len(t)
          /\ (Len(t) - 1) + Len(a) - Len(t) = Len(h)
        <3>1. /\ Len(a) = Len(h) + 1 /\ Len(h) \in Nat /\ n > 1 /\ Len(h) >= 1
              /\ Len(t) = IF Len(a) > n THEN n ELSE Len(a)
            BY <1>1, <1>2, <1>4, <2>1
        <3>2. Len(t) \in Nat /\ Len(t) >= 2
            <4>1. CASE Len(a) > n
                BY <3>1, <4>1
            <4>2. CASE ~(Len(a) > n)
                BY <3>1, <4>2
            <4> QED BY <4>1, <4>2
        <3>3. \A x, y \in Nat : x >= 2 => x - 1 \in 1..x /\ (x - 1) + (y + 1) - x = y
            OBVIOUS
        <3> QED BY ONLY <3>1, <3>2, <3>3
    <2>3. t[Len(t) - 1] = a[(Len(t) - 1) + Len(a) - Len(t)]
        BY <1>2, <2>2, Zenon
    <2>4. a[Len(h)] = h[Len(h)]
        BY <1>1, <2>1
    <2> QED BY <2>2, <2>3, <2>4
<1> QED BY <1>3, <1>4 DEF Pushed, Last, t, a

\* A newer price keeps the history in order.
LEMMA PushedIsHistory ==
    ASSUME NEW h, NEW n \in Nat, IsHistory(h, n), NEW o \in Price,
           h # <<>> => o.publish_time > Last(h).publish_time
    PROVE  IsHistory(Pushed(h, o, n), n)
<1> DEFINE a == Append(h, o)
<1>1. /\ h \in Seq(Price) /\ Len(h) \in Nat /\ StrictlyNewer(h)
      /\ a \in Seq(Price) /\ Len(a) = Len(h) + 1
      /\ a[Len(h) + 1] = o /\ \A i \in 1..Len(h) : a[i] = h[i]
    BY DEF IsHistory
<1> HIDE DEF a
<1>2. ASSUME NEW i \in 1..(Len(a) - 1) PROVE a[i].publish_time < a[i + 1].publish_time
    <2>1. i \in 1..Len(h) /\ a[i] = h[i] /\ h # <<>>
        BY <1>1
    <2>2. h[i] \in Price
        BY <1>1, <2>1
    <2>5. h[i].publish_time \in Nat /\ o.publish_time \in Nat
        BY <2>2 DEF Price
    <2>3. CASE i = Len(h)
        BY <1>1, <2>1, <2>5, <2>3 DEF Last
    <2>4. CASE i # Len(h)
        <3>1. i \in 1..(Len(h) - 1) /\ i + 1 \in 1..Len(h)
            BY <1>1, <2>1, <2>4
        <3> QED BY <1>1, <2>1, <3>1 DEF StrictlyNewer
    <2> QED BY <2>3, <2>4
<1>3. IsHistory(a, Len(a))
    BY <1>1, <1>2 DEF IsHistory, StrictlyNewer
<1> QED BY <1>3, NewestIsHistory DEF Pushed, a

-----------------------------------------------------------------------------
(* Breaker sets                                                            *)

\* What the oracle stores: a set of at most max breakers with its histories.
IsStoredSet(set, max) ==
    /\ IsBreakerSet(set)
    /\ set.history_len \in Nat /\ set.next_id \in Nat
    /\ IsHistory(set.accepted, set.history_len)
    /\ set.observed = {} \/ (set.history_len > 0 /\ \E o : set.observed = {o})
    /\ DOMAIN set.breakers \subseteq Nat
    /\ IsFiniteSet(DOMAIN set.breakers) /\ Cardinality(DOMAIN set.breakers) <= max
    /\ \A id \in DOMAIN set.breakers : IsBreakerState(set.breakers[id])

\* The set has the same rules, with the same parameters.
SameRules(set, set2) ==
    /\ set2.history_len = set.history_len /\ set2.sample_interval = set.sample_interval
    /\ set2.next_id = set.next_id
    /\ DOMAIN set2.breakers = DOMAIN set.breakers
    /\ \A id \in DOMAIN set.breakers : set2.breakers[id].breaker = set.breakers[id].breaker

\* The rule an id names is never replaced, and no id is used again.
Evolves(set, set2) ==
    /\ set2.next_id >= set.next_id
    /\ \A id \in DOMAIN set2.breakers :
          IF id \in DOMAIN set.breakers
          THEN set2.breakers[id].breaker = set.breakers[id].breaker
          ELSE id >= set.next_id

\* A set with the same rules validates when the other one does.
LEMMA SameRulesValidate ==
    ASSUME NEW set, NEW set2, SameRules(set, set2), set.next_id \in Nat
    PROVE  Evolves(set, set2) /\ (Validates(set) => Validates(set2))
BY DEF SameRules, Evolves, Validates

\* The empty set can be stored.
LEMMA EmptyIsStored ==
    ASSUME NEW max \in Nat
    PROVE  IsStoredSet(EmptySet, max) /\ Validates(EmptySet)
<1>1. <<>> \in Seq(Price) /\ Len(<<>>) = 0 /\ DOMAIN <<>> = {}
    OBVIOUS
<1>2. IsFiniteSet({}) /\ Cardinality({}) = 0
    BY FS_EmptySet
<1> QED BY <1>1, <1>2
        DEF IsStoredSet, EmptySet, IsBreakerSet, IsHistory, StrictlyNewer, Validates

\* So can a set an owner configured before any price came.
LEMMA ConfiguredIsStored ==
    ASSUME NEW max \in Nat, NEW set, IsConfiguredSet(set, max)
    PROVE  IsStoredSet(set, max)
<1>1. <<>> \in Seq(Price) /\ Len(<<>>) = 0
    OBVIOUS
<1>2. IsHistory(set.accepted, set.history_len)
    BY <1>1 DEF IsHistory, StrictlyNewer, IsConfiguredSet
<1>3. set.next_id \in Nat /\ DOMAIN set.breakers \subseteq 0..(set.next_id - 1)
    BY DEF IsConfiguredSet
<1>4. IsFiniteSet(0..(set.next_id - 1)) /\ 0..(set.next_id - 1) \subseteq Nat
    <2>1. 0 \in Int /\ set.next_id - 1 \in Int
        BY <1>3
    <2>2. IsFiniteSet(0..(set.next_id - 1))
        BY <2>1, FS_Interval
    <2> QED BY <2>2
<1>5. IsFiniteSet(DOMAIN set.breakers)
    BY <1>3, <1>4, FS_Subset
<1> QED BY <1>2, <1>3, <1>4, <1>5 DEF IsStoredSet, IsConfiguredSet

\* What recording an observation leaves alone.
LEMMA ObservedSet ==
    ASSUME NEW set, NEW max, IsStoredSet(set, max), NEW price, NEW t
    PROVE  LET o == WithObservation(set, price, t)
           IN /\ IsStoredSet(o, max)
              /\ \A f \in DOMAIN EmptySet \ {"observed"} : o[f] = set[f]
<1>1. CASE WithObservation(set, price, t) = set
    BY <1>1
<1>2. CASE WithObservation(set, price, t) # set
    <2> DEFINE new == [publish_time |-> price.publish_time, observed_at |-> t]
               o == [set EXCEPT !.observed = {new}]
    <2>1. WithObservation(set, price, t) = o /\ set.history_len > 0
        BY <1>2 DEF WithObservation
    <2>2. DOMAIN o = DOMAIN set /\ o.observed = {new}
          /\ \A f \in DOMAIN EmptySet \ {"observed"} : o[f] = set[f]
        BY DEF IsStoredSet, IsBreakerSet, EmptySet
    <2> HIDE DEF o, new
    <2>3. /\ o.history_len = set.history_len /\ o.next_id = set.next_id
          /\ o.accepted = set.accepted /\ o.breakers = set.breakers
        BY <2>2 DEF EmptySet
    <2>4. IsStoredSet(o, max)
        BY <2>1, <2>2, <2>3 DEF IsStoredSet, IsBreakerSet
    <2> QED BY <2>1, <2>2, <2>4
<1> QED BY <1>1, <1>2

\* Testing a breaker leaves its rule and its enforcement alone; it is not
\* tripped afterwards only if it was not, and if its rule, once armed, does
\* not fire on the proposed history.
LEMMA TestedBreaker ==
    ASSUME NEW state, IsBreakerState(state), NEW h, NEW t
    PROVE  LET after == AppliedArmedTransition(state, h, t)
           IN /\ IsBreakerState(after)
              /\ after.breaker = state.breaker /\ after.is_enforced = state.is_enforced
              /\ ~after.status.tripped =>
                    /\ after.status = state.status
                    /\ t >= state.status.armed_after => ~ShouldTrip(state.breaker, h)
BY DEF IsBreakerState, AppliedArmedTransition, Tripped

\* For every enforced stepwise breaker armed at t, the price is within the
\* threshold of the last accepted one.
WithinStep(set, price, t) ==
    \A id \in DOMAIN set.breakers :
       /\ Validates(set) /\ set.accepted # <<>>
       /\ set.breakers[id].breaker.rule = "StepwiseChange"
       /\ set.breakers[id].is_enforced
       /\ t >= set.breakers[id].status.armed_after
       => ~RelativeChangeExceeds(Last(set.accepted).price, price.price,
                                 set.breakers[id].breaker.threshold)

\* A price is within any step of itself.
LEMMA NoChange ==
    ASSUME NEW x \in Nat, NEW th, th.n \in Nat, th.d \in Nat
    PROVE  ~RelativeChangeExceeds(x, x, th)
<1>1. x - x = 0 /\ 0 * th.d = 0
    OBVIOUS
<1>2. x * th.n \in Nat
    OBVIOUS
<1> QED BY <1>1, <1>2 DEF RelativeChangeExceeds

\* A rule that does not fire on the history with the price pushed to it.
LEMMA StepDoesNotFire ==
    ASSUME NEW b, b.rule = "StepwiseChange", NEW h \in Seq(Price), h # <<>>,
           NEW o \in Price, NEW n \in Nat, n >= 2, ~ShouldTrip(b, Pushed(h, o, n))
    PROVE  ~RelativeChangeExceeds(Last(h).price, o.price, b.threshold)
<1> DEFINE q == Pushed(h, o, n)
<1>1. /\ q # <<>> /\ q[Len(q)] = o
      /\ Len(q) >= 2 /\ q[Len(q) - 1] = Last(h)
    BY PushedEntries DEF Last
<1> HIDE DEF q
<1>2. ~StepwiseChangeTrips(b, q)
    BY DEF ShouldTrip, q
<1> QED BY <1>1, <1>2 DEF StepwiseChangeTrips

\* try_accept_price stores a set with the same rules; a price it accepts is
\* within the step of every stepwise breaker that watched it.
LEMMA TriedSet ==
    ASSUME NEW max, NEW set, IsStoredSet(set, max), NEW price \in Price, NEW t
    PROVE  LET result == TryAcceptPrice(set, price, t)
           IN /\ IsStoredSet(result.set, max)
              /\ SameRules(set, result.set)
              /\ result.accepted => WithinStep(result.set, price, t)
<1> DEFINE obs == WithObservation(set, price, t)
           h == Pushed(set.accepted, price, set.history_len)
           bs == [id \in DOMAIN obs.breakers |-> AppliedArmedTransition(obs.breakers[id], h, t)]
           tested == [obs EXCEPT !.breakers = bs]
           recorded == [tested EXCEPT !.accepted = h]
<1>1. TryAcceptPrice(set, price, t) =
        IF IsBlocking(set) THEN [set |-> obs, accepted |-> FALSE]
        ELSE IF IsBlocking(tested) THEN [set |-> tested, accepted |-> FALSE]
        ELSE IF ShouldPersistSample(set, t) /\ AcceptedShouldAdvance(set, price)
             THEN [set |-> recorded, accepted |-> TRUE]
        ELSE [set |-> tested, accepted |-> TRUE]
    BY DEF TryAcceptPrice
<1>2. /\ IsStoredSet(obs, max)
      /\ \A f \in DOMAIN EmptySet \ {"observed"} : obs[f] = set[f]
    BY ObservedSet
<1> HIDE DEF obs, h
<1>3. /\ obs.breakers = set.breakers /\ obs.accepted = set.accepted
      /\ obs.history_len = set.history_len /\ obs.sample_interval = set.sample_interval
      /\ obs.next_id = set.next_id
    BY <1>2 DEF EmptySet
<1>4. SameRules(set, obs)
    BY <1>3 DEF SameRules
<1>5. /\ DOMAIN bs = DOMAIN set.breakers
      /\ \A id \in DOMAIN set.breakers :
            /\ IsBreakerState(bs[id])
            /\ bs[id].breaker = set.breakers[id].breaker
            /\ bs[id].is_enforced = set.breakers[id].is_enforced
            /\ ~bs[id].status.tripped =>
                  /\ bs[id].status = set.breakers[id].status
                  /\ t >= set.breakers[id].status.armed_after =>
                        ~ShouldTrip(set.breakers[id].breaker, h)
    BY <1>3, TestedBreaker DEF IsStoredSet
<1> HIDE DEF bs
<1>6. /\ IsBreakerSet(tested) /\ tested.breakers = bs
      /\ \A f \in DOMAIN EmptySet \ {"breakers"} : tested[f] = obs[f]
      /\ IsBreakerSet(recorded) /\ recorded.breakers = bs /\ recorded.accepted = h
      /\ \A f \in DOMAIN EmptySet \ {"breakers", "accepted"} : recorded[f] = obs[f]
    <2>1. IsBreakerSet(obs)
        BY <1>2 DEF IsStoredSet
    <2>2. tested = [obs EXCEPT !.breakers = bs] /\ recorded = [tested EXCEPT !.accepted = h]
        OBVIOUS
    <2> HIDE DEF tested, recorded
    <2> QED BY <2>1, <2>2, Zenon DEF IsBreakerSet, EmptySet
<1> HIDE DEF tested, recorded
<1>7. /\ tested.history_len = set.history_len /\ recorded.history_len = set.history_len
      /\ tested.sample_interval = set.sample_interval
      /\ recorded.sample_interval = set.sample_interval
      /\ tested.next_id = set.next_id /\ recorded.next_id = set.next_id
      /\ tested.observed = obs.observed /\ recorded.observed = obs.observed
      /\ tested.accepted = set.accepted
    BY <1>3, <1>6 DEF EmptySet
<1>8. SameRules(set, tested) /\ SameRules(set, recorded)
    BY <1>5, <1>6, <1>7 DEF SameRules
<1>9. IsStoredSet(tested, max)
    <2>1. \A id \in DOMAIN tested.breakers : IsBreakerState(tested.breakers[id])
        BY <1>5, <1>6
    <2>2. DOMAIN tested.breakers = DOMAIN set.breakers
        BY <1>5, <1>6
    <2> QED BY <1>2, <1>3, <1>6, <1>7, <2>1, <2>2, Zenon DEF IsStoredSet
<1>10. AcceptedShouldAdvance(set, price) => IsStoredSet(recorded, max)
    <2> HAVE AcceptedShouldAdvance(set, price)
    <2>1. IsHistory(h, set.history_len)
        BY PushedIsHistory DEF AcceptedShouldAdvance, IsStoredSet, h
    <2> QED BY <1>2, <1>3, <1>5, <1>6, <1>7, <2>1 DEF IsStoredSet
<1>11. ASSUME ~IsBlocking(tested)
       PROVE  WithinStep(tested, price, t) /\ WithinStep(recorded, price, t)
    <2>1. ASSUME NEW id \in DOMAIN bs, Validates(tested) \/ Validates(recorded),
                 bs[id].breaker.rule = "StepwiseChange", bs[id].is_enforced,
                 t >= bs[id].status.armed_after
          PROVE  /\ set.history_len >= 2
                 /\ ~ShouldTrip(set.breakers[id].breaker, h)
                 /\ bs[id].breaker.threshold.n \in Nat /\ bs[id].breaker.threshold.d \in Nat
        <3>1. ~bs[id].status.tripped
            BY <1>6, <1>11, <2>1 DEF IsBlocking, BreakerBlocks
        <3>2. IsValidFor(bs[id].breaker, set.history_len, set.sample_interval)
            BY <1>6, <1>7, <2>1 DEF Validates
        <3>3. IsBreaker(bs[id].breaker)
            BY <1>5, <2>1 DEF IsBreakerState
        <3> QED BY <1>5, <2>1, <3>1, <3>2, <3>3 DEF IsValidFor, IsBreaker
    <2>2. /\ set.accepted \in Seq(Price) /\ set.history_len \in Nat /\ price.price \in Nat
        BY DEF IsStoredSet, IsHistory, Price
    <2>3. WithinStep(tested, price, t)
        <3> SUFFICES ASSUME NEW id \in DOMAIN bs, Validates(tested), set.accepted # <<>>,
                            bs[id].breaker.rule = "StepwiseChange", bs[id].is_enforced,
                            t >= bs[id].status.armed_after
                     PROVE  ~RelativeChangeExceeds(Last(set.accepted).price, price.price,
                                                   bs[id].breaker.threshold)
            BY <1>6, <1>7 DEF WithinStep
        <3>1. set.history_len >= 2 /\ ~ShouldTrip(bs[id].breaker, h)
            BY <1>5, <2>1
        <3> QED BY <2>2, <3>1, StepDoesNotFire DEF h
    <2>4. WithinStep(recorded, price, t)
        <3> SUFFICES ASSUME NEW id \in DOMAIN bs, Validates(recorded),
                            bs[id].breaker.rule = "StepwiseChange", bs[id].is_enforced,
                            t >= bs[id].status.armed_after
                     PROVE  ~RelativeChangeExceeds(Last(h).price, price.price,
                                                   bs[id].breaker.threshold)
            BY <1>6, <1>7 DEF WithinStep
        <3>1. /\ set.history_len >= 2
              /\ bs[id].breaker.threshold.n \in Nat /\ bs[id].breaker.threshold.d \in Nat
            BY <2>1
        <3>2. Last(h) = price
            BY <2>2, <3>1, PushedEntries DEF h
        <3> QED BY <2>2, <3>1, <3>2, NoChange
    <2> QED BY <2>3, <2>4
<1> QED BY <1>1, <1>2, <1>4, <1>8, <1>9, <1>10, <1>11

\* An edit of a set that validates leaves one that does, and that evolved
\* from it.
Edited(set, s, max) == IsStoredSet(s, max) /\ Validates(s) /\ Evolves(set, s)

\* A manual trip is such an edit.
LEMMA TripEdits ==
    ASSUME NEW max, NEW set, IsStoredSet(set, max), Validates(set),
           NEW trip, NEW s \in SetManualTrip(set, trip)
    PROVE  Edited(set, s, max)
<1>1. /\ IsBreakerSet(s)
      /\ \A f \in DOMAIN EmptySet \ {"is_manually_tripped"} : s[f] = set[f]
    BY DEF SetManualTrip, IsStoredSet, IsBreakerSet, EmptySet
<1>2. /\ s.history_len = set.history_len /\ s.sample_interval = set.sample_interval
      /\ s.next_id = set.next_id /\ s.accepted = set.accepted /\ s.observed = set.observed
      /\ s.breakers = set.breakers
    BY <1>1 DEF EmptySet
<1>3. SameRules(set, s)
    BY <1>2 DEF SameRules
<1>4. IsStoredSet(s, max)
    BY <1>1, <1>2 DEF IsStoredSet
<1> QED BY <1>3, <1>4, SameRulesValidate DEF Edited, IsStoredSet

\* set_config: the histories shrink to the new capacity.
LEMMA ConfigEdits ==
    ASSUME NEW max, NEW set, IsStoredSet(set, max), Validates(set),
           NEW interval, NEW len \in Nat, NEW s \in SetConfig(set, interval, len)
    PROVE  Edited(set, s, max)
<1> DEFINE a == Newest(set.accepted, len)
           o == IF len = 0 THEN {} ELSE set.observed
<1>1. /\ s = [set EXCEPT !.sample_interval = interval, !.history_len = len,
                         !.accepted = a, !.observed = o]
      /\ \A id \in DOMAIN set.breakers : IsValidFor(set.breakers[id].breaker, len, interval)
    BY DEF SetConfig
<1>2. IsHistory(a, len)
    BY NewestIsHistory DEF IsStoredSet
<1>3. o = {} \/ (len > 0 /\ \E x : o = {x})
    BY DEF IsStoredSet
<1> HIDE DEF a, o
<1>4. /\ IsBreakerSet(s) /\ s.history_len = len /\ s.sample_interval = interval
      /\ s.next_id = set.next_id /\ s.accepted = a /\ s.observed = o
      /\ s.breakers = set.breakers
    BY <1>1 DEF IsStoredSet, IsBreakerSet, EmptySet
<1>5. Evolves(set, s)
    BY <1>4 DEF Evolves, IsStoredSet
<1>6. Validates(s)
    BY <1>1, <1>4 DEF Validates
<1>7. IsStoredSet(s, max)
    BY <1>2, <1>3, <1>4 DEF IsStoredSet
<1> QED BY <1>5, <1>6, <1>7 DEF Edited

\* What an edit of the breakers alone must leave, given the rest.
LEMMA BreakerEdits ==
    ASSUME NEW max, NEW set, IsStoredSet(set, max), Validates(set), NEW bs, NEW s,
           s = [set EXCEPT !.breakers = bs],
           DOMAIN bs \subseteq DOMAIN set.breakers,
           \A id \in DOMAIN bs : /\ IsBreakerState(bs[id])
                                 /\ bs[id].breaker = set.breakers[id].breaker,
           max \in Nat
    PROVE  Edited(set, s, max)
<1>1. /\ IsBreakerSet(s) /\ s.breakers = bs
      /\ s.history_len = set.history_len /\ s.sample_interval = set.sample_interval
      /\ s.next_id = set.next_id /\ s.accepted = set.accepted /\ s.observed = set.observed
    BY DEF IsStoredSet, IsBreakerSet, EmptySet
<1>2. Evolves(set, s)
    BY <1>1 DEF Evolves, IsStoredSet
<1>3. Validates(s)
    BY <1>1 DEF Validates
<1>4. /\ IsFiniteSet(DOMAIN bs) /\ Cardinality(DOMAIN bs) \in Nat
      /\ Cardinality(DOMAIN set.breakers) \in Nat
      /\ Cardinality(DOMAIN bs) <= Cardinality(DOMAIN set.breakers)
    BY FS_Subset, FS_CardinalityType DEF IsStoredSet
<1>5. Cardinality(DOMAIN bs) <= max
    BY <1>4 DEF IsStoredSet
<1>6. IsStoredSet(s, max)
    BY <1>1, <1>4, <1>5, Zenon DEF IsStoredSet
<1> QED BY <1>2, <1>3, <1>6 DEF Edited

\* remove_breaker, set_enforced and rearm.
LEMMA StateEdits ==
    ASSUME NEW max \in Nat, NEW set, IsStoredSet(set, max), Validates(set), NEW id
    PROVE  /\ \A s \in RemoveBreaker(set, id) : Edited(set, s, max)
           /\ \A on : \A s \in SetEnforced(set, id, on) : Edited(set, s, max)
           /\ \A t : \A s \in Rearm(set, id, t) : Edited(set, s, max)
<1>0. /\ \A i \in DOMAIN set.breakers : IsBreakerState(set.breakers[i])
      /\ "breakers" \in DOMAIN set
    BY DEF IsStoredSet, IsBreakerSet, EmptySet
<1>1. ASSUME NEW s \in RemoveBreaker(set, id) PROVE Edited(set, s, max)
    <2> DEFINE bs == [i \in DOMAIN set.breakers \ {id} |-> set.breakers[i]]
    <2>1. s = [set EXCEPT !.breakers = bs]
        BY DEF RemoveBreaker
    <2>2. /\ DOMAIN bs \subseteq DOMAIN set.breakers
          /\ \A i \in DOMAIN bs : /\ IsBreakerState(bs[i])
                                   /\ bs[i].breaker = set.breakers[i].breaker
        BY <1>0
    <2> HIDE DEF bs
    <2> QED BY <2>1, <2>2, BreakerEdits
<1>2. ASSUME NEW on, NEW s \in SetEnforced(set, id, on) PROVE Edited(set, s, max)
    <2> DEFINE bs == [set.breakers EXCEPT ![id].is_enforced = on]
    <2>1. s = [set EXCEPT !.breakers = bs] /\ id \in DOMAIN set.breakers
        BY <1>0 DEF SetEnforced
    <2>2. /\ DOMAIN bs \subseteq DOMAIN set.breakers
          /\ \A i \in DOMAIN bs : /\ IsBreakerState(bs[i])
                                   /\ bs[i].breaker = set.breakers[i].breaker
        BY <1>0, <2>1 DEF IsBreakerState
    <2> HIDE DEF bs
    <2> QED BY <2>1, <2>2, BreakerEdits
<1>3. ASSUME NEW t, NEW s \in Rearm(set, id, t) PROVE Edited(set, s, max)
    <2> DEFINE bs == [set.breakers EXCEPT ![id].status = ArmedAfter(t)]
    <2>1. s = [set EXCEPT !.breakers = bs] /\ id \in DOMAIN set.breakers
        BY <1>0 DEF Rearm
    <2>2. /\ DOMAIN bs \subseteq DOMAIN set.breakers
          /\ \A i \in DOMAIN bs : /\ IsBreakerState(bs[i])
                                   /\ bs[i].breaker = set.breakers[i].breaker
        BY <1>0, <2>1 DEF IsBreakerState
    <2> HIDE DEF bs
    <2> QED BY <2>1, <2>2, BreakerEdits
<1> QED BY <1>1, <1>2, <1>3

\* add_breaker: the new rule has the next id.
LEMMA AddEdits ==
    ASSUME NEW max \in Nat, NEW set, IsStoredSet(set, max), Validates(set), NEW id, NEW b,
           IsBreaker(b), Cardinality(DOMAIN set.breakers) < max, NEW s \in AddBreaker(set, id, b)
    PROVE  Edited(set, s, max)
<1> DEFINE bs == [i \in DOMAIN set.breakers \cup {id} |->
                     IF i = id THEN NewBreaker(b) ELSE set.breakers[i]]
<1>1. /\ s = [set EXCEPT !.next_id = set.next_id + 1, !.breakers = bs]
      /\ IsValidFor(b, set.history_len, set.sample_interval)
      /\ id = set.next_id
    BY DEF AddBreaker, IsStoredSet, IsBreakerSet, EmptySet
<1>2. /\ DOMAIN bs = DOMAIN set.breakers \cup {id}
      /\ bs[id] = NewBreaker(b)
      /\ \A i \in DOMAIN set.breakers : i # id => bs[i] = set.breakers[i]
    OBVIOUS
<1> HIDE DEF bs
<1>3. /\ IsBreakerSet(s) /\ s.breakers = bs
      /\ s.history_len = set.history_len /\ s.sample_interval = set.sample_interval
      /\ s.next_id = set.next_id + 1 /\ s.accepted = set.accepted /\ s.observed = set.observed
    BY <1>1 DEF IsStoredSet, IsBreakerSet, EmptySet
<1>4. /\ set.next_id \in Nat /\ DOMAIN set.breakers \subseteq Nat
      /\ \A i \in DOMAIN set.breakers : i < set.next_id
      /\ IsFiniteSet(DOMAIN set.breakers)
    BY DEF IsStoredSet, Validates
<1>5. id \notin DOMAIN set.breakers
    BY <1>1, <1>4
<1>6. Evolves(set, s)
    BY <1>1, <1>2, <1>3, <1>4, <1>5 DEF Evolves
<1>7. NewBreaker(b).breaker = b /\ IsBreakerState(NewBreaker(b))
    BY DEF NewBreaker, IsBreakerState
<1>8. Validates(s)
    BY <1>1, <1>2, <1>3, <1>4, <1>7 DEF Validates
<1>9. /\ IsFiniteSet(DOMAIN bs) /\ Cardinality(DOMAIN bs) = Cardinality(DOMAIN set.breakers) + 1
      /\ Cardinality(DOMAIN set.breakers) \in Nat
    BY <1>2, <1>4, <1>5, FS_AddElement, FS_CardinalityType
<1>10. Cardinality(DOMAIN bs) <= max
    BY <1>9
<1>11. \A i \in DOMAIN bs : IsBreakerState(bs[i])
    BY <1>2, <1>7 DEF IsStoredSet
<1>12. IsStoredSet(s, max)
    <2>1. DOMAIN s.breakers \subseteq Nat /\ s.next_id \in Nat
        BY <1>1, <1>2, <1>3, <1>4
    <2>2. /\ IsHistory(s.accepted, s.history_len) /\ s.history_len \in Nat
          /\ s.observed = {} \/ (s.history_len > 0 /\ \E o : s.observed = {o})
        BY <1>3, Zenon DEF IsStoredSet
    <2>3. /\ IsFiniteSet(DOMAIN s.breakers) /\ Cardinality(DOMAIN s.breakers) <= max
          /\ \A i \in DOMAIN s.breakers : IsBreakerState(s.breakers[i])
        BY <1>3, <1>9, <1>10, <1>11
    <2> QED BY <1>3, <2>1, <2>2, <2>3, Zenon DEF IsStoredSet
<1> QED BY <1>6, <1>8, <1>12 DEF Edited

-----------------------------------------------------------------------------
(* Aggregation                                                             *)

Answer == [price : Int, conf : Nat, publish_time : Nat]

\* Each source answers nothing or one price, and what passes the filters is
\* positive over its whole interval.
IsAnswered(f) ==
    \A i \in DOMAIN f :
       f[i] = {} \/ \E p \in Answer : IsPositive(p) /\ f[i] = {p}

\* What an entry of the median stands for.
IsEntry(config, f, e) ==
    /\ e.source \in DOMAIN f /\ config.sources[e.source].weight > 0
    /\ e.side \in {-1, 1}
    /\ \E p \in f[e.source] :
          e = [value |-> p.price + e.side * p.conf, publish_time |-> p.publish_time,
               weight |-> config.sources[e.source].weight, source |-> e.source,
               side |-> e.side]

\* The entries are such records, one for each end of each valid interval.
LEMMA Entries ==
    ASSUME NEW config, NEW f
    PROVE  /\ \A e \in MedianEntries(config, f) : IsEntry(config, f, e)
           /\ \A i \in DOMAIN f, side \in {-1, 1} : \A p \in f[i] :
                 config.sources[i].weight > 0 =>
                    [value |-> p.price + side * p.conf, publish_time |-> p.publish_time,
                     weight |-> config.sources[i].weight, source |-> i, side |-> side]
                    \in MedianEntries(config, f)
<1> DEFINE entry(i, p, side) ==
             [value |-> p.price + side * p.conf, publish_time |-> p.publish_time,
              weight |-> config.sources[i].weight, source |-> i, side |-> side]
           at(i) == UNION {{entry(i, p, side) : side \in {-1, 1}} : p \in f[i]}
           weighted == {j \in DOMAIN f : config.sources[j].weight > 0}
<1>1. MedianEntries(config, f) = UNION {at(i) : i \in weighted}
    BY DEF MedianEntries
<1>2. \A i, p, side : entry(i, p, side).source = i /\ entry(i, p, side).side = side
    OBVIOUS
<1>3. \A e \in MedianEntries(config, f) :
         \E i \in weighted, side \in {-1, 1} : \E p \in f[i] : e = entry(i, p, side)
    <2> HIDE DEF entry, weighted
    <2> QED BY <1>1
<1>4. \A i \in weighted, side \in {-1, 1} : \A p \in f[i] :
         entry(i, p, side) \in MedianEntries(config, f)
    <2> HIDE DEF entry, weighted
    <2> QED BY <1>1
<1>5. ASSUME NEW e \in MedianEntries(config, f) PROVE IsEntry(config, f, e)
    <2> PICK i \in weighted, side \in {-1, 1} : \E p \in f[i] : e = entry(i, p, side)
        BY <1>3
    <2> PICK p \in f[i] : e = entry(i, p, side)
        OBVIOUS
    <2> QED BY <1>2 DEF IsEntry
<1> QED BY <1>4, <1>5

\* Every end of an interval that passed the filters is a positive number.
LEMMA EntryValues ==
    ASSUME NEW config, NEW f, IsAnswered(f), NEW e \in MedianEntries(config, f)
    PROVE  e.value \in Nat /\ e.publish_time \in Nat
<1>1. IsEntry(config, f, e)
    BY Entries
<1>2. PICK p \in f[e.source] :
         e = [value |-> p.price + e.side * p.conf, publish_time |-> p.publish_time,
              weight |-> config.sources[e.source].weight, source |-> e.source,
              side |-> e.side]
    BY <1>1 DEF IsEntry
<1>3. e.source \in DOMAIN f /\ e.side \in {-1, 1}
    BY <1>1 DEF IsEntry
<1>4. p \in Answer /\ IsPositive(p)
    BY <1>3 DEF IsAnswered
<1>5. /\ p.price \in Int /\ p.conf \in Nat /\ p.publish_time \in Nat /\ p.price > p.conf
    BY <1>4 DEF Answer, IsPositive
<1>6. e.value = p.price + e.side * p.conf /\ e.publish_time = p.publish_time
    BY <1>2
<1>7. CASE e.side = 1
    BY <1>5, <1>6, <1>7
<1>8. CASE e.side = -1
    BY <1>5, <1>6, <1>8
<1> QED BY <1>3, <1>7, <1>8

\* The filters leave answers that are positive.
LEMMA FilteredAnswers ==
    ASSUME NEW config, NEW answers, NEW t,
           \A i \in DOMAIN answers : answers[i] = {} \/ \E p \in Answer : answers[i] = {p}
    PROVE  /\ IsAnswered(Filtered(config, answers, t))
           /\ DOMAIN Filtered(config, answers, t) = DOMAIN answers
<1> DEFINE f == Filtered(config, answers, t)
<1>1. DOMAIN f = DOMAIN answers
    BY DEF Filtered
<1>2. ASSUME NEW i \in DOMAIN answers
      PROVE  f[i] = {} \/ \E p \in Answer : IsPositive(p) /\ f[i] = {p}
    <2>1. f[i] = {p \in answers[i] : IsPositive(p) /\ IsFresh(config, p, t)}
        BY DEF Filtered
    <2> HIDE DEF f
    <2>2. CASE answers[i] = {}
        BY <2>1, <2>2
    <2>3. CASE \E p \in Answer : answers[i] = {p}
        <3> PICK p \in Answer : answers[i] = {p}
            BY <2>3
        <3> QED BY <2>1
    <2> QED BY <2>2, <2>3
<1> HIDE DEF f
<1> QED BY <1>1, <1>2 DEF IsAnswered, f

\* Aggregates have a price and a time as the histories keep them.
LEMMA AggregateType ==
    ASSUME NEW config, NEW answers, NEW t,
           \A i \in DOMAIN answers : answers[i] = {} \/ \E p \in Answer : answers[i] = {p},
           NEW q \in Aggregate(config, answers, t)
    PROVE  q.price \in Nat /\ q.publish_time \in Nat
<1> DEFINE f == Filtered(config, answers, t)
<1>1. IsAnswered(f)
    BY FilteredAnswers
<1> HIDE DEF f
<1>2. CASE q \in PriorityPrice(f)
    <2>1. PICK i \in DOMAIN f : q \in f[i]
        BY <1>2 DEF PriorityPrice
    <2>2. q \in Answer /\ IsPositive(q)
        BY <1>1, <2>1 DEF IsAnswered
    <2> QED BY <2>2 DEF Answer, IsPositive
<1>3. CASE q \in MedianPrices(config, f)
    <2>1. PICK e \in MedianEntries(config, f) :
             q = [price |-> e.value, conf |-> 0, publish_time |-> e.publish_time]
        BY <1>3, Zenon DEF MedianPrices, EntriesAt
    <2> QED BY <1>1, <2>1, EntryValues
<1> QED BY <1>2, <1>3 DEF Aggregate, f

-----------------------------------------------------------------------------
(* The weighted median                                                     *)

\* The sources are finitely many and their weights natural numbers.
IsWeighted(config, f) ==
    /\ IsFiniteSet(DOMAIN f)
    /\ \A i \in DOMAIN f : config.sources[i].weight \in Nat

\* The entries are finitely many, with natural weights.
LEMMA EntriesFinite ==
    ASSUME NEW config, NEW f, IsAnswered(f), IsWeighted(config, f)
    PROVE  /\ IsFiniteSet(MedianEntries(config, f))
           /\ \A e \in MedianEntries(config, f) :
                 e.source \in DOMAIN f /\ e.weight = config.sources[e.source].weight
           /\ \A e \in MedianEntries(config, f) : e.weight \in Nat
<1> DEFINE E == MedianEntries(config, f)
<1>1. \A e \in E : IsEntry(config, f, e)
    BY Entries
<1>2. \A e \in E : e.source \in DOMAIN f /\ e.weight = config.sources[e.source].weight
    BY <1>1 DEF IsEntry
<1> HIDE DEF E
<1>3. ASSUME NEW d \in E, NEW e \in E, d.source = e.source, d.side = e.side PROVE d = e
    <2>1. IsEntry(config, f, d) /\ IsEntry(config, f, e)
        BY <1>1
    <2>2. PICK p : f[d.source] = {p}
        BY <2>1, Zenon DEF IsEntry, IsAnswered
    <2> QED BY <1>3, <2>1, <2>2 DEF IsEntry
<1>4. ASSUME NEW side PROVE IsFiniteSet({e \in E : e.side = side})
    <2> DEFINE P == {e \in E : e.side = side}
               key == [e \in P |-> e.source]
    <2>1. key \in [P -> DOMAIN f]
        BY <1>2
    <2>2. \A d, e \in P : key[d] = key[e] => d = e
        BY <1>3
    <2>3. key \in Injection(P, DOMAIN f)
        BY <2>1, <2>2 DEF Injection, IsInjective
    <2>4. IsFiniteSet(DOMAIN f)
        BY DEF IsWeighted
    <2> HIDE DEF key, P
    <2>5. IsFiniteSet(P)
        BY ONLY <2>3, <2>4, FS_Injection
    <2> QED BY <2>5 DEF P
<1>5. E = {e \in E : e.side = -1} \cup {e \in E : e.side = 1}
    BY <1>1 DEF IsEntry
<1>6. IsFiniteSet(E)
    <2> DEFINE low == {e \in E : e.side = -1}
               high == {e \in E : e.side = 1}
    <2>1. IsFiniteSet(low) /\ IsFiniteSet(high) /\ E = low \cup high
        BY <1>4, <1>5
    <2> HIDE DEF low, high
    <2> QED BY ONLY <2>1, FS_Union
<1> QED BY <1>2, <1>6 DEF IsWeighted, E

\* The weight of a part of the entries, as a sum of one function.
LEMMA PartWeight ==
    ASSUME NEW E, IsFiniteSet(E), \A e \in E : e.weight \in Nat, NEW T \in SUBSET E
    PROVE  LET wt == [e \in E |-> e.weight]
           IN /\ WeightOf(T) = SumFunctionOnSet(wt, T)
              /\ WeightOf(T) \in Nat
              /\ WeightOf(T) <= WeightOf(E)
              /\ WeightOf(E \ T) = WeightOf(E) - WeightOf(T)
<1> DEFINE wt == [e \in E |-> e.weight]
<1>1. \A S \in SUBSET E : IsFiniteSet(S) /\ WeightOf(S) = SumFunctionOnSet(wt, S)
    <2> TAKE S \in SUBSET E
    <2>1. IsFiniteSet(S)
        BY FS_Subset
    <2>2. \A e \in S : [x \in S |-> x.weight][e] = wt[e]
        OBVIOUS
    <2> QED BY <2>1, <2>2, SumSame DEF WeightOf
<1>2. \A e \in E : wt[e] \in Nat /\ wt[e] \in Int
    OBVIOUS
<1> HIDE DEF wt
<1>3. WeightOf(T) \in Nat
    BY <1>1, <1>2, SumNat
<1>4. WeightOf(T) <= WeightOf(E)
    BY <1>1, <1>2, SumPart
<1>5. WeightOf(E \ T) = WeightOf(E) - WeightOf(T)
    BY <1>1, <1>2, SumDifference
<1> QED BY <1>1, <1>3, <1>4, <1>5 DEF wt

\* Both ends of every interval count, so the total weight is even.
LEMMA TotalIsEven ==
    ASSUME NEW config, NEW f, IsAnswered(f), IsWeighted(config, f)
    PROVE  \E half \in Nat : WeightOf(MedianEntries(config, f)) = half + half
<1> DEFINE E == MedianEntries(config, f)
           D == DOMAIN f
           wt == [e \in E |-> e.weight]
           own == [e \in E |-> e.source]
           of(a) == {e \in E : own[e] = a}
           total == [a \in D |-> SumFunctionOnSet(wt, of(a))]
           once == [a \in D |-> IF of(a) = {} THEN 0 ELSE config.sources[a].weight]
<1>1. /\ IsFiniteSet(E) /\ IsFiniteSet(D)
      /\ \A e \in E : e.source \in D /\ e.weight = config.sources[e.source].weight
      /\ \A e \in E : e.weight \in Nat
    BY EntriesFinite DEF IsWeighted
<1>2. WeightOf(E) = SumFunctionOnSet(wt, E)
    <2> HIDE DEF E
    <2> QED BY <1>1, PartWeight, Zenon
<1>3. SumFunctionOnSet(total, D) = SumFunctionOnSet(wt, E)
    <2>1. \A e \in E : wt[e] \in Int /\ own[e] \in D
        BY <1>1
    <2> HIDE DEF E, D, wt, own
    <2> QED BY <1>1, <2>1, SumByOwner
<1>4. ASSUME NEW a \in D
      PROVE  once[a] \in Nat /\ total[a] = once[a] + once[a]
    <2>1. once[a] \in Nat
        BY DEF IsWeighted
    <2>2. CASE of(a) = {}
        <3>1. total[a] = SumFunctionOnSet(wt, of(a)) /\ once[a] = 0
            BY <2>2
        <3> HIDE DEF total, once, of, wt
        <3>2. total[a] = 0
            BY <2>2, <3>1, SumEmpty
        <3> QED BY <3>1, <3>2
    <2>3. CASE of(a) # {}
        <3> DEFINE w == config.sources[a].weight
        <3>1. PICK e \in E : e.source = a
            BY <2>3, Zenon
        <3>2. IsEntry(config, f, e)
            BY Entries
        <3>3. PICK p : f[a] = {p} /\ w > 0
            BY <3>1, <3>2 DEF IsEntry, IsAnswered
        <3> DEFINE at(side) ==
                [value |-> p.price + side * p.conf, publish_time |-> p.publish_time,
                 weight |-> w, source |-> a, side |-> side]
        <3>4. at(-1) \in E /\ at(1) \in E
            BY <3>3, Entries
        <3>5. /\ at(-1).side = -1 /\ at(1).side = 1
              /\ at(-1).source = a /\ at(1).source = a
              /\ at(-1).weight = w /\ at(1).weight = w
            OBVIOUS
        <3>6. ASSUME NEW d \in E, d.source = a PROVE d = at(-1) \/ d = at(1)
            <4>1. IsEntry(config, f, d)
                BY Entries
            <4> QED BY <3>3, <3>6, <4>1 DEF IsEntry
        <3> HIDE DEF at, E
        <3>7. of(a) = {at(-1)} \cup {at(1)} /\ at(-1) # at(1)
            BY <3>4, <3>5, <3>6
        <3>8. wt[at(-1)] = w /\ wt[at(1)] = w /\ w \in Nat
            BY <3>4, <3>5 DEF IsWeighted
        <3> HIDE DEF wt, own, of, w
        <3>9. IsFiniteSet({}) /\ IsFiniteSet({at(-1)})
            BY FS_EmptySet, FS_Singleton
        <3>10. SumFunctionOnSet(wt, {at(-1)}) = w
            <4>1. SumFunctionOnSet(wt, {} \cup {at(-1)}) = SumFunctionOnSet(wt, {}) + w
                BY <3>8, <3>9, SumAdd
            <4>2. {} \cup {at(-1)} = {at(-1)}
                OBVIOUS
            <4> QED BY <3>8, <4>1, <4>2, SumEmpty
        <3>11. SumFunctionOnSet(wt, {at(-1)} \cup {at(1)}) = w + w
            <4>1. at(1) \notin {at(-1)} /\ \A x \in {at(-1)} : wt[x] \in Int
                BY <3>7, <3>8
            <4>2. SumFunctionOnSet(wt, {at(-1)} \cup {at(1)}) =
                    SumFunctionOnSet(wt, {at(-1)}) + wt[at(1)]
                BY <3>8, <3>9, <4>1, SumAdd
            <4> QED BY <3>8, <3>10, <4>2
        <3>12. total[a] = w + w
            BY <3>7, <3>11
        <3>13. once[a] = w
            BY <2>3 DEF w
        <3> QED BY <2>1, <3>12, <3>13
    <2> QED BY <2>1, <2>2, <2>3, Zenon
<1> HIDE DEF E, D, wt, own, total, once
<1>5. SumFunctionOnSet(total, D) = SumFunctionOnSet(once, D) + SumFunctionOnSet(once, D)
    <2>1. \A a \in D : once[a] \in Int /\ once[a] \in Int /\ total[a] = once[a] + once[a]
        BY <1>4
    <2> QED BY <1>1, <2>1, SumPlus
<1>6. SumFunctionOnSet(once, D) \in Nat
    BY <1>1, <1>4, SumNat
<1> QED BY <1>2, <1>3, <1>5, <1>6 DEF E

\* Sources with more than half of the weight keep the median within their
\* intervals.
LEMMA MajorityDecides ==
    ASSUME NEW config, NEW f, IsAnswered(f), IsWeighted(config, f),
           NEW T \in SUBSET MedianEntries(config, f),
           2 * WeightOf(T) > WeightOf(MedianEntries(config, f)),
           NEW aggregator,
           NEW e \in EntriesAt(MedianEntries(config, f),
                               MedianTarget(aggregator, MedianEntries(config, f)))
    PROVE  /\ \E x \in T : x.value <= e.value
           /\ \E x \in T : e.value <= x.value
<1> DEFINE E == MedianEntries(config, f)
           target == MedianTarget(aggregator, E)
           before == {x \in E : Precedes(x, e)}
           upto == {x \in E : ~Precedes(e, x)}
<1>1. /\ IsFiniteSet(E) /\ \A x \in E : x.weight \in Nat
    BY EntriesFinite
<1>2. \A x \in E : x.value \in Nat
    BY EntryValues
<1>3. e \in E /\ WeightOf(before) < target /\ WeightOf(upto) >= target
    BY DEF EntriesAt
<1>4. PICK half \in Nat : WeightOf(E) = half + half
    BY TotalIsEven
<1>5. target = half \/ target = half + 1
    <2>1. (half + half) \div 2 = half
        OBVIOUS
    <2> QED BY <1>4, <2>1 DEF MedianTarget
<1>6. before \in SUBSET E /\ upto \in SUBSET E /\ T \in SUBSET E /\ E \in SUBSET E
    OBVIOUS
<1> HIDE DEF E, target
<1>7. /\ WeightOf(before) \in Nat /\ WeightOf(upto) \in Nat /\ WeightOf(T) \in Nat
      /\ WeightOf(E \ upto) = WeightOf(E) - WeightOf(upto)
    BY <1>1, <1>6, PartWeight, Zenon
<1>8. 2 * WeightOf(T) > half + half
    BY <1>4 DEF E
<1>9. ASSUME \A x \in T : ~(x.value <= e.value) PROVE FALSE
    <2>1. T \in SUBSET (E \ upto) /\ E \ upto \in SUBSET E
        BY <1>2, <1>3, <1>6, <1>9 DEF Precedes
    <2>2. IsFiniteSet(E \ upto) /\ \A x \in E \ upto : x.weight \in Nat
        BY <1>1, FS_Subset
    <2> HIDE DEF upto
    <2>3. WeightOf(T) <= WeightOf(E \ upto)
        BY <2>1, <2>2, PartWeight, Zenon
    <2> QED BY <1>3, <1>4, <1>5, <1>7, <1>8, <2>3
<1>10. ASSUME \A x \in T : ~(e.value <= x.value) PROVE FALSE
    <2>1. T \in SUBSET before
        BY <1>2, <1>3, <1>6, <1>10 DEF Precedes
    <2>2. IsFiniteSet(before) /\ \A x \in before : x.weight \in Nat
        BY <1>1, <1>6, FS_Subset
    <2> HIDE DEF before
    <2>3. WeightOf(T) <= WeightOf(before)
        BY <2>1, <2>2, PartWeight, Zenon
    <2> QED BY <1>3, <1>4, <1>5, <1>7, <1>8, <2>3
<1> QED BY <1>9, <1>10

-----------------------------------------------------------------------------
(* The ledger                                                              *)

\* The pending ids, the bodies and the policies they were filed under belong
\* together, and ids are only issued.
LedgerInv ==
    /\ next_id \in Nat
    /\ active_ids \subseteq 0..(next_id - 1)
    /\ IsFiniteSet(active_ids) /\ Cardinality(active_ids) <= MaxPendingProposals
    /\ DOMAIN proposals = active_ids /\ DOMAIN filed = active_ids

\* The bounds are natural numbers.
LEMMA Bounds == MaxPendingProposals \in Nat /\ MaxProposalTtl \in Nat
BY GovernanceBounds

\* A step of the ledger: nothing, one new id, or one id less.
LedgerStep ==
    \/ UNCHANGED <<next_id, active_ids, proposals, filed>>
    \/ /\ active_ids' = active_ids \cup {next_id}
       /\ Cardinality(active_ids) < MaxPendingProposals
       /\ next_id' = next_id + 1
       /\ \E p : proposals' = With(proposals, next_id, p)
       /\ filed' = With(filed, next_id, ttls)
    \/ \E id \in active_ids :
          /\ active_ids' = active_ids \ {id}
          /\ next_id' = next_id
          /\ proposals' = Without(proposals, id)
          /\ filed' = Without(filed, id)

\* create, and cancel or execute, are steps of the ledger.
LEMMA LedgerSteps ==
    /\ \A op, valid, minimum, requested, at :
          Create(next_id, op, valid, minimum, requested, at) => LedgerStep
    /\ \A id \in active_ids : Drop(id) => LedgerStep
<1>1. \A op, valid, minimum, requested, at :
         Create(next_id, op, valid, minimum, requested, at) => LedgerStep
    BY DEF Create, LedgerStep
<1>2. \A id \in active_ids : Drop(id) => LedgerStep
    BY DEF Drop, LedgerStep
<1> QED BY <1>1, <1>2

\* The ledger's invariant is inductive.
LEMMA LedgerInductive ==
    /\ \A admin, policy : GovernanceInit(admin, policy) => LedgerInv
    /\ LedgerInv /\ LedgerStep => LedgerInv'
<1>1. \A admin, policy : GovernanceInit(admin, policy) => LedgerInv
    BY Bounds, FS_EmptySet DEF GovernanceInit, LedgerInv
<1>2. ASSUME LedgerInv, LedgerStep PROVE LedgerInv'
    <2>1. CASE UNCHANGED <<next_id, active_ids, proposals, filed>>
        BY <1>2, <2>1 DEF LedgerInv
    <2>2. CASE /\ active_ids' = active_ids \cup {next_id}
               /\ Cardinality(active_ids) < MaxPendingProposals
               /\ next_id' = next_id + 1
               /\ \E p : proposals' = With(proposals, next_id, p)
               /\ filed' = With(filed, next_id, ttls)
        <3>1. next_id \notin active_ids
            BY <1>2 DEF LedgerInv
        <3>2. /\ IsFiniteSet(active_ids')
              /\ Cardinality(active_ids') = Cardinality(active_ids) + 1
              /\ Cardinality(active_ids) \in Nat
            BY <1>2, <2>2, <3>1, FS_AddElement, FS_CardinalityType DEF LedgerInv
        <3> QED BY <1>2, <2>2, <3>2, Bounds DEF LedgerInv, With
    <2>3. CASE \E id \in active_ids :
                  /\ active_ids' = active_ids \ {id}
                  /\ next_id' = next_id
                  /\ proposals' = Without(proposals, id)
                  /\ filed' = Without(filed, id)
        <3> PICK id \in active_ids : /\ active_ids' = active_ids \ {id}
                                     /\ next_id' = next_id
                                     /\ proposals' = Without(proposals, id)
                                     /\ filed' = Without(filed, id)
            BY <2>3
        <3>1. /\ IsFiniteSet(active_ids')
              /\ Cardinality(active_ids') = Cardinality(active_ids) - 1
              /\ Cardinality(active_ids) \in Nat
            BY <1>2, FS_RemoveElement, FS_CardinalityType DEF LedgerInv
        <3> QED BY <1>2, <3>1, Bounds DEF LedgerInv, Without
    <2> QED BY <1>2, <2>1, <2>2, <2>3 DEF LedgerStep
<1> QED BY <1>1, <1>2

\* Proposals that stay pending keep their bodies and the policies they were
\* filed under.
LEMMA BodiesKept ==
    ASSUME LedgerInv, LedgerStep, NEW id \in active_ids, id \in active_ids'
    PROVE  proposals'[id] = proposals[id] /\ filed'[id] = filed[id]
<1>1. id # next_id
    BY DEF LedgerInv
<1>2. \A f, value : DOMAIN f = active_ids => With(f, next_id, value)[id] = f[id]
    BY <1>1 DEF With
<1>3. \A f, other : DOMAIN f = active_ids /\ other # id => Without(f, other)[id] = f[id]
    BY DEF Without
<1> QED BY <1>2, <1>3 DEF LedgerInv, LedgerStep

\* What every pending proposal satisfies: its operation is one of Ops, and its
\* timelock is within the maximum.
IsBody(body, Ops) ==
    /\ body.operation \in Ops
    /\ body.created_at \in Nat
    /\ body.ttl \in 0..MaxProposalTtl

\* A proposal the ledger takes waits at least the minimum, and is filed under
\* the present policy.
LEMMA CreatedBody ==
    ASSUME NEW Ops, NEW op \in Ops, NEW valid, NEW minimum \in Nat, NEW requested \in Nat,
           NEW at \in Nat, Create(next_id, op, valid, minimum, requested, at)
    PROVE  /\ IsBody(proposals'[next_id], Ops)
           /\ proposals'[next_id].operation = op
           /\ proposals'[next_id].ttl >= minimum
           /\ filed'[next_id] = ttls
           /\ UNCHANGED <<ttls, roles>>
<1> DEFINE ttl == IF minimum > requested THEN minimum ELSE requested
           body == [operation |-> op, created_at |-> at, ttl |-> ttl]
<1>1. /\ ttl <= MaxProposalTtl
      /\ proposals' = With(proposals, next_id, body)
      /\ filed' = With(filed, next_id, ttls)
      /\ UNCHANGED <<ttls, roles>>
    BY DEF Create
<1>2. proposals'[next_id] = body /\ filed'[next_id] = ttls
    BY <1>1 DEF With
<1> QED BY <1>1, <1>2, Bounds DEF IsBody

-----------------------------------------------------------------------------
(* Roles                                                                   *)

\* There is an administrator.
RolesInv == roles \in [Role -> SUBSET Accounts] /\ roles["Admin"] # {}

\* Revoking leaves an administrator (assert_can_set_role, roles::revoke).
LEMMA AdminStays ==
    ASSUME RolesInv, NEW op, IsRoleChange(op), SetRole(op)
    PROVE  RolesInv'
<1> DEFINE members == roles["Admin"]
<1>1. roles' \in [Role -> SUBSET Accounts]
    BY DEF SetRole, IsRoleChange, RolesInv
<1>2. CASE op.set \/ op.role # "Admin" \/ op.account \notin members
    BY <1>1, <1>2 DEF SetRole, IsRoleChange, Role, RolesInv
<1>3. CASE ~op.set /\ op.role = "Admin" /\ op.account \in members
    <2>1. Cardinality(members) > 1
        BY <1>3 DEF SetRole, MayRevoke, IsRoleChange
    <2>2. members # {op.account}
        <3>1. Cardinality({op.account}) = 1
            BY FS_Singleton
        <3> QED BY <2>1, <3>1
    <2>3. roles'["Admin"] = members \ {op.account}
        BY <1>3 DEF SetRole, IsRoleChange, Role, RolesInv
    <2> QED BY <1>1, <1>3, <2>2, <2>3 DEF RolesInv
<1> QED BY <1>1, <1>2, <1>3

-----------------------------------------------------------------------------
(* The NEAR contract                                                       *)

\* An override or the default is a policy entry.
LEMMA ResolveType ==
    ASSUME NEW policy, IsNearPolicy(policy), NEW m
    PROVE  Resolve(policy, m) \in MethodPolicy
BY DEF IsNearPolicy, Resolve

\* minimum_ttl of the NEAR contract is at least the lock the operation lowers
\* (lock_edit_ttl).
LEMMA NearMinimum ==
    ASSUME IsNearPolicy(ttls), NEW op, IsNearOperation(op)
    PROVE  /\ NearMinimumTtl(op) \in Nat
           /\ \A e \in LockEdit(ttls, op) :
                 e.new < e.current => e.current <= NearMinimumTtl(op)
<1> DEFINE base == ttls.reflexive[ReflexiveKindOf(op)]
<1>1. CASE op.kind = "TargetFunctionCall"
    BY <1>1, ResolveType DEF NearMinimumTtl, LockEdit, MethodPolicy
<1>2. CASE op.kind # "TargetFunctionCall"
    <2>1. base \in Nat
        BY <1>2 DEF IsNearOperation, IsNearPolicy, ReflexiveKindOf, ReflexiveKind
    <2>2. \A e, f \in LockEdit(ttls, op) :
             e = f /\ e.new \in Nat /\ e.current \in Nat
        <3>1. CASE op.kind = "SetReflexiveTtl"
            BY <3>1 DEF LockEdit, IsNearOperation, IsNearPolicy
        <3>2. CASE op.kind = "SetTargetDefault"
            BY <3>2 DEF LockEdit, IsNearOperation, IsNearPolicy, MethodPolicy
        <3>3. CASE op.kind = "SetMethodPolicy"
            BY <3>3, ResolveType DEF LockEdit, IsNearOperation, MethodPolicy
        <3>4. CASE op.kind \notin {"SetReflexiveTtl", "SetTargetDefault", "SetMethodPolicy"}
            BY <3>4 DEF LockEdit
        <3> QED BY <3>1, <3>2, <3>3, <3>4
    <2>3. CASE LockEdit(ttls, op) = {}
        BY <1>2, <2>1, <2>3 DEF NearMinimumTtl
    <2>4. CASE LockEdit(ttls, op) # {}
        <3> DEFINE edit == CHOOSE e \in LockEdit(ttls, op) : TRUE
        <3>1. edit \in LockEdit(ttls, op)
            BY <2>4
        <3>2. NearMinimumTtl(op) = LockEditTtl(base, edit)
            BY <1>2, <2>4 DEF NearMinimumTtl
        <3> HIDE DEF edit, base
        <3> QED BY <2>1, <2>2, <3>1, <3>2 DEF LockEditTtl
    <2> QED BY <2>3, <2>4
<1> QED BY <1>1, <1>2

\* One more or one less method policy leaves a finite table.
LEMMA MethodTable ==
    ASSUME NEW S, IsFiniteSet(S), Cardinality(S) <= MaxMethodPolicies, NEW m
    PROVE  /\ IsFiniteSet(S \cup {m}) /\ IsFiniteSet(S \ {m})
           /\ Cardinality(S \ {m}) <= MaxMethodPolicies
           /\ m \in S \/ Cardinality(S) < MaxMethodPolicies =>
                 Cardinality(S \cup {m}) <= MaxMethodPolicies
<1>1. Cardinality(S) \in Nat
    BY FS_CardinalityType
<1>2. CASE m \in S
    <2>1. S \cup {m} = S
        BY <1>2
    <2>2. IsFiniteSet(S \ {m}) /\ Cardinality(S \ {m}) = Cardinality(S) - 1
        BY <1>2, FS_RemoveElement
    <2>3. Cardinality(S \ {m}) <= MaxMethodPolicies
        BY <1>1, <2>2, MethodBound
    <2> QED BY <2>1, <2>2, <2>3
<1>3. CASE m \notin S
    <2>1. S \ {m} = S
        BY <1>3
    <2>2. IsFiniteSet(S \cup {m}) /\ Cardinality(S \cup {m}) = Cardinality(S) + 1
        BY <1>3, FS_AddElement
    <2>3. Cardinality(S) < MaxMethodPolicies => Cardinality(S \cup {m}) <= MaxMethodPolicies
        BY <1>1, <2>2, MethodBound
    <2> QED BY <1>3, <2>1, <2>2, <2>3
<1> QED BY <1>2, <1>3

\* An edit of the NEAR policy table leaves it within its bounds.
LEMMA NearPolicyStays ==
    ASSUME IsNearPolicy(ttls), NEW op, IsNearOperation(op), NearValid(op),
           \/ /\ op.kind = "SetReflexiveTtl"
              /\ ttls' = [ttls EXCEPT !.reflexive[op.lock] = op.ttl]
           \/ op.kind = "SetTargetDefault" /\ SetTargetDefault(op.policy)
           \/ op.kind = "SetMethodPolicy" /\ SetMethodPolicy(op.method, op.policy)
    PROVE  IsNearPolicy(ttls')
<1>1. CASE /\ op.kind = "SetReflexiveTtl"
           /\ ttls' = [ttls EXCEPT !.reflexive[op.lock] = op.ttl]
    <2>1. /\ DOMAIN ttls' = DOMAIN ttls
          /\ ttls'.default = ttls.default /\ ttls'.methods = ttls.methods
          /\ ttls'.reflexive = [ttls.reflexive EXCEPT ![op.lock] = op.ttl]
        BY <1>1 DEF IsNearPolicy
    <2> QED BY <1>1, <2>1 DEF IsNearPolicy, PolicyWithinBounds, IsNearOperation, NearValid
<1>2. CASE op.kind = "SetTargetDefault" /\ SetTargetDefault(op.policy)
    <2>1. /\ DOMAIN ttls' = DOMAIN ttls
          /\ ttls'.reflexive = ttls.reflexive /\ ttls'.methods = ttls.methods
          /\ ttls'.default = op.policy
          /\ op.policy.ttl <= MaxProposalTtl
          /\ \A m \in DOMAIN ttls.methods : ttls.methods[m].ttl <= op.policy.ttl
        BY <1>2 DEF IsNearPolicy, SetTargetDefault
    <2> QED BY <1>2, <2>1 DEF IsNearPolicy, PolicyWithinBounds, IsNearOperation
<1>3. CASE op.kind = "SetMethodPolicy" /\ SetMethodPolicy(op.method, op.policy)
    <2> DEFINE table == ttls.methods
    <2>1. IsFiniteSet(DOMAIN table) /\ Cardinality(DOMAIN table) <= MaxMethodPolicies
        BY DEF IsNearPolicy, PolicyWithinBounds
    <2>2. CASE op.policy = {}
        <3>1. /\ DOMAIN ttls' = DOMAIN ttls
              /\ ttls'.reflexive = ttls.reflexive /\ ttls'.default = ttls.default
              /\ ttls'.methods = [i \in DOMAIN table \ {op.method} |-> table[i]]
            BY <1>3, <2>2 DEF IsNearPolicy, SetMethodPolicy, Without
        <3> QED BY <2>1, <3>1, MethodTable, Zenon DEF IsNearPolicy, PolicyWithinBounds
    <2>3. CASE op.policy # {}
        <3> PICK p \in op.policy : TRUE
            BY <2>3
        <3>1. /\ DOMAIN ttls' = DOMAIN ttls
              /\ ttls'.reflexive = ttls.reflexive /\ ttls'.default = ttls.default
              /\ ttls'.methods = [i \in DOMAIN table \cup {op.method} |->
                                    IF i = op.method THEN p ELSE table[i]]
              /\ p.ttl <= ttls.default.ttl
              /\ op.method \in DOMAIN table \/ Cardinality(DOMAIN table) < MaxMethodPolicies
            BY <1>3 DEF IsNearPolicy, SetMethodPolicy, With
        <3>2. p \in MethodPolicy
            BY <1>3 DEF IsNearOperation
        <3> QED BY <2>1, <3>1, <3>2, MethodTable, Zenon DEF IsNearPolicy, PolicyWithinBounds
    <2> QED BY <2>2, <2>3
<1> QED BY <1>1, <1>2, <1>3

\* A pending proposal of the NEAR contract waits at least for the lock it
\* lowers, as that lock was when the proposal was filed.
IsNearBody(body, policy, Ops) ==
    /\ IsBody(body, Ops)
    /\ IsNearPolicy(policy)
    /\ \A e \in LockEdit(policy, body.operation) : e.new < e.current => e.current <= body.ttl

\* create_proposal
LEMMA NearCreated ==
    ASSUME IsNearPolicy(ttls), NEW Ops, NEW op \in Ops, IsNearOperation(op),
           NEW requested \in Nat, NEW at \in Nat, NEW a,
           near_create_proposal(a, op, requested, at)
    PROVE  /\ LedgerStep
           /\ IsNearBody(proposals'[next_id], filed'[next_id], Ops)
           /\ UNCHANGED <<ttls, roles>>
<1>1. Create(next_id, op, NearValid(op), NearMinimumTtl(op), requested, at)
    BY DEF near_create_proposal
<1>2. /\ NearMinimumTtl(op) \in Nat
      /\ \A e \in LockEdit(ttls, op) : e.new < e.current => e.current <= NearMinimumTtl(op)
    BY NearMinimum
<1>3. \A e \in LockEdit(ttls, op) : e.current \in Nat
    BY ResolveType DEF LockEdit, IsNearOperation, IsNearPolicy, MethodPolicy
<1>4. /\ IsBody(proposals'[next_id], Ops)
      /\ proposals'[next_id].operation = op
      /\ proposals'[next_id].ttl >= NearMinimumTtl(op)
      /\ filed'[next_id] = ttls
      /\ UNCHANGED <<ttls, roles>>
    BY <1>1, <1>2, CreatedBody
<1>5. proposals'[next_id].ttl \in Nat
    BY <1>4, Bounds DEF IsBody
<1>6. \A e \in LockEdit(ttls, op) : e.new < e.current => e.current <= proposals'[next_id].ttl
    BY <1>2, <1>3, <1>4, <1>5
<1> QED BY <1>1, <1>4, <1>6, LedgerSteps DEF IsNearBody

\* The effect of execute_proposal on policy and roles.
LEMMA NearEffect ==
    ASSUME NEW a, NEW id, NEW at, near_execute_proposal(a, id, at)
    PROVE  LET op == proposals[id].operation
           IN /\ Drop(id) /\ NearValid(op) /\ CanExecute(proposals[id], at)
              /\ \/ /\ op.kind = "SetReflexiveTtl"
                    /\ ttls' = [ttls EXCEPT !.reflexive[op.lock] = op.ttl]
                    /\ roles' = roles
                 \/ op.kind = "SetTargetDefault" /\ SetTargetDefault(op.policy) /\ roles' = roles
                 \/ /\ op.kind = "SetMethodPolicy" /\ SetMethodPolicy(op.method, op.policy)
                    /\ roles' = roles
                 \/ op.kind = "SetRole" /\ SetRole(op) /\ ttls' = ttls
                 \/ ttls' = ttls /\ roles' = roles
BY DEF near_execute_proposal

\* execute_proposal leaves a sound policy and an administrator.
LEMMA NearExecuted ==
    ASSUME IsNearPolicy(ttls), RolesInv, NEW id \in active_ids,
           IsNearOperation(proposals[id].operation),
           NEW a, NEW at, near_execute_proposal(a, id, at)
    PROVE  LedgerStep /\ active_ids' = active_ids \ {id} /\ IsNearPolicy(ttls') /\ RolesInv'
<1> DEFINE op == proposals[id].operation
<1>1. LedgerStep /\ active_ids' = active_ids \ {id}
    BY NearEffect, LedgerSteps DEF Drop
<1>2. \/ IsNearPolicy(ttls') /\ roles' = roles
      \/ op.kind = "SetRole" /\ SetRole(op) /\ ttls' = ttls
    BY NearEffect, NearPolicyStays
<1>3. CASE op.kind = "SetRole" /\ SetRole(op) /\ ttls' = ttls
    BY <1>1, <1>3, AdminStays DEF IsNearOperation
<1> QED BY <1>1, <1>2, <1>3 DEF RolesInv

\* The lock that l names.
NearLock(policy, l) ==
    IF l \in ReflexiveKind THEN policy.reflexive[l] ELSE Resolve(policy, l).ttl

\* It is a natural number, and no override exceeds the default
\* (GovernancePolicyWire::try_from).
LEMMA NearLockType ==
    ASSUME NEW policy, IsNearPolicy(policy), NEW l
    PROVE  /\ NearLock(policy, l) \in Nat
           /\ policy.default.ttl \in Nat
           /\ l \notin ReflexiveKind => NearLock(policy, l) <= policy.default.ttl
BY ResolveType DEF NearLock, IsNearPolicy, PolicyWithinBounds, Resolve, MethodPolicy

\* An execution of the NEAR contract that lowers a lock below what it was at
\* the filing of the proposal waited that long: an edit of the default is one
\* of every method without an override, which was then no longer than the
\* default.
LEMMA NearExecutionWaited ==
    ASSUME IsNearPolicy(ttls), NEW id, NEW Ops, IsNearBody(proposals[id], filed[id], Ops),
           IsNearOperation(proposals[id].operation),
           NEW a, NEW at, near_execute_proposal(a, id, at), NEW l,
           NearLock(ttls', l) < NearLock(ttls, l), NearLock(ttls', l) < NearLock(filed[id], l)
    PROVE  NearLock(filed[id], l) <= proposals[id].ttl
<1> DEFINE op == proposals[id].operation
           old == filed[id]
<1>1. /\ IsNearPolicy(ttls) /\ IsNearPolicy(old) /\ IsNearOperation(op)
      /\ \A e \in LockEdit(old, op) : e.new < e.current => e.current <= proposals[id].ttl
      /\ proposals[id].ttl \in Nat
    BY Bounds DEF IsNearBody, IsBody
<1>2. NearLock(ttls, l) \in Nat /\ NearLock(old, l) \in Nat
    BY <1>1, NearLockType
<1>3. \A policy : NearLock(policy, l) = IF l \in ReflexiveKind THEN policy.reflexive[l]
                                        ELSE Resolve(policy, l).ttl
    BY DEF NearLock
<1>4. \/ /\ op.kind = "SetReflexiveTtl"
         /\ ttls' = [ttls EXCEPT !.reflexive[op.lock] = op.ttl]
      \/ op.kind = "SetTargetDefault" /\ SetTargetDefault(op.policy)
      \/ op.kind = "SetMethodPolicy" /\ SetMethodPolicy(op.method, op.policy)
      \/ ttls' = ttls
    BY NearEffect
<1> SUFFICES ASSUME NearLock(ttls', l) < NearLock(old, l)
             PROVE  NearLock(old, l) <= proposals[id].ttl
    OBVIOUS
<1> HIDE DEF op, old
<1>5. CASE ttls' = ttls
    BY <1>2, <1>5
<1>6. CASE /\ op.kind = "SetReflexiveTtl"
           /\ ttls' = [ttls EXCEPT !.reflexive[op.lock] = op.ttl]
    <2>1. op.lock \in ReflexiveKind /\ op.ttl \in Nat
        BY <1>1, <1>6 DEF IsNearOperation
    <2>2. /\ ttls'.default = ttls.default /\ ttls'.methods = ttls.methods
          /\ \A k \in ReflexiveKind :
                ttls'.reflexive[k] = IF k = op.lock THEN op.ttl ELSE ttls.reflexive[k]
        BY <1>1, <1>6 DEF IsNearPolicy
    <2>3. l = op.lock
        BY <1>2, <1>3, <2>2 DEF Resolve
    <2>4. [current |-> old.reflexive[l], new |-> op.ttl] \in LockEdit(old, op)
        BY <1>6, <2>3 DEF LockEdit
    <2> QED BY <1>1, <1>3, <2>1, <2>2, <2>3, <2>4
<1>7. CASE op.kind = "SetTargetDefault" /\ SetTargetDefault(op.policy)
    <2>1. /\ ttls'.reflexive = ttls.reflexive /\ ttls'.methods = ttls.methods
          /\ ttls'.default = op.policy
        BY <1>1, <1>7 DEF IsNearPolicy, SetTargetDefault
    <2>2. l \notin ReflexiveKind /\ NearLock(ttls', l) = op.policy.ttl
        BY <1>2, <1>3, <2>1 DEF Resolve
    <2>3. /\ old.default.ttl \in Nat /\ op.policy.ttl \in Nat
          /\ NearLock(old, l) <= old.default.ttl
        BY <1>1, <1>3, <1>7, <2>2, NearLockType
           DEF IsNearPolicy, IsNearOperation, MethodPolicy
    <2>4. [current |-> old.default.ttl, new |-> op.policy.ttl] \in LockEdit(old, op)
        BY <1>7 DEF LockEdit
    <2>5. op.policy.ttl < old.default.ttl
        BY <1>2, <2>2, <2>3
    <2>6. old.default.ttl <= proposals[id].ttl
        BY <1>1, <2>4, <2>5
    <2> QED BY <1>1, <1>2, <2>3, <2>6
<1>8. CASE op.kind = "SetMethodPolicy" /\ SetMethodPolicy(op.method, op.policy)
    <2>1. CASE op.policy = {}
        <3>1. /\ ttls'.reflexive = ttls.reflexive /\ ttls'.default = ttls.default
              /\ ttls'.methods = Without(ttls.methods, op.method)
            BY <1>1, <1>8, <2>1 DEF IsNearPolicy, SetMethodPolicy
        <3>2. l \notin ReflexiveKind
            <4>1. l \in ReflexiveKind => NearLock(ttls', l) = NearLock(ttls, l)
                BY <1>3, <3>1, Zenon
            <4> QED BY <1>2, <4>1
        <3>3. NearLock(ttls', l) \in {NearLock(ttls, l), ttls.default.ttl}
            BY <1>3, <3>1, <3>2 DEF Resolve, Without
        <3>4. NearLock(ttls, l) <= ttls.default.ttl /\ ttls.default.ttl \in Nat
            BY <1>1, <1>3, <3>2, NearLockType DEF IsNearPolicy, MethodPolicy
        <3> QED BY <1>2, <3>3, <3>4
    <2>2. CASE op.policy # {}
        <3> PICK p \in op.policy : TRUE
            BY <2>2
        <3>1. /\ ttls'.reflexive = ttls.reflexive /\ ttls'.default = ttls.default
              /\ ttls'.methods = With(ttls.methods, op.method, p)
            BY <1>1, <1>8 DEF IsNearPolicy, SetMethodPolicy
        <3>2. l \notin ReflexiveKind
            <4>1. l \in ReflexiveKind => NearLock(ttls', l) = NearLock(ttls, l)
                BY <1>3, <3>1, Zenon
            <4> QED BY <1>2, <4>1
        <3>3. l = op.method
            BY <1>2, <1>3, <3>1, <3>2 DEF Resolve, With
        <3>4. NearLock(ttls', l) = p.ttl
            BY <1>3, <3>1, <3>2, <3>3 DEF Resolve, With
        <3>5. [current |-> NearLock(old, l), new |-> p.ttl] \in LockEdit(old, op)
            BY <1>3, <1>8, <3>2, <3>3 DEF LockEdit
        <3> QED BY <1>1, <3>4, <3>5
    <2> QED BY <2>1, <2>2
<1> QED BY <1>4, <1>5, <1>6, <1>7, <1>8

-----------------------------------------------------------------------------
(* The Soroban contract                                                    *)

\* minimum_ttl is at least the lock the action changes.
LEMMA SorobanMinimum ==
    ASSUME IsSorobanPolicy(ttls), NEW op, IsSorobanOperation(op)
    PROVE  /\ SorobanMinimumTtl(op) \in Nat
           /\ op.kind = "SetActionTtl" =>
                 ttls[op.target] \in Nat /\ ttls[op.target] <= SorobanMinimumTtl(op)
<1>1. op.kind \in OperationKind
    BY DEF IsSorobanOperation, OperationKind
<1>2. \A k \in OperationKind : ttls[k] \in Nat
    BY Bounds DEF IsSorobanPolicy
<1>3. op.kind = "SetActionTtl" => op.target \in OperationKind
    BY DEF IsSorobanOperation, RuntimeMethod
<1> QED BY <1>1, <1>2, <1>3 DEF SorobanMinimumTtl

\* A pending proposal of the Soroban contract waits at least for the lock it
\* changes, as that lock was when the proposal was filed.
IsSorobanBody(body, policy, Ops) ==
    /\ IsBody(body, Ops)
    /\ IsSorobanPolicy(policy)
    /\ body.operation.kind = "SetActionTtl" => policy[body.operation.target] <= body.ttl

\* create_proposal
LEMMA SorobanCreated ==
    ASSUME IsSorobanPolicy(ttls), NEW Ops, NEW op \in Ops, IsSorobanOperation(op),
           NEW requested \in Nat, NEW at \in Nat, NEW a,
           soroban_create_proposal(a, op, requested, at)
    PROVE  /\ LedgerStep
           /\ IsSorobanBody(proposals'[next_id], filed'[next_id], Ops)
           /\ UNCHANGED <<ttls, roles>>
<1>1. Create(next_id, op, SorobanValid(op), SorobanMinimumTtl(op), requested, at)
    BY DEF soroban_create_proposal
<1>2. /\ SorobanMinimumTtl(op) \in Nat
      /\ op.kind = "SetActionTtl" =>
            ttls[op.target] \in Nat /\ ttls[op.target] <= SorobanMinimumTtl(op)
    BY SorobanMinimum
<1>3. /\ IsBody(proposals'[next_id], Ops)
      /\ proposals'[next_id].operation = op
      /\ proposals'[next_id].ttl >= SorobanMinimumTtl(op)
      /\ filed'[next_id] = ttls
      /\ UNCHANGED <<ttls, roles>>
    BY <1>1, <1>2, CreatedBody
<1>4. proposals'[next_id].ttl \in Nat
    BY <1>3, Bounds DEF IsBody
<1>5. op.kind = "SetActionTtl" => ttls[op.target] <= proposals'[next_id].ttl
    BY <1>2, <1>3, <1>4
<1> QED BY <1>1, <1>3, <1>5, LedgerSteps DEF IsSorobanBody

\* execute_proposal of an action on the contract itself leaves sound timelocks
\* and an administrator.
LEMMA SorobanExecuted ==
    ASSUME IsSorobanPolicy(ttls), RolesInv, NEW id \in active_ids,
           IsSorobanOperation(proposals[id].operation),
           NEW a, NEW at, soroban_execute_reflexive(a, id, at)
    PROVE  LedgerStep /\ active_ids' = active_ids \ {id} /\ IsSorobanPolicy(ttls') /\ RolesInv'
<1> DEFINE op == proposals[id].operation
<1>1. Drop(id) /\ SorobanValid(op)
    BY DEF soroban_execute_reflexive, soroban_execute_checks
<1>2. LedgerStep /\ active_ids' = active_ids \ {id}
    BY <1>1, LedgerSteps DEF Drop
<1>3. CASE /\ op.kind = "SetActionTtl"
           /\ ttls' = [ttls EXCEPT ![op.target] = op.ttl] /\ roles' = roles
    <2>1. op.ttl \in 0..MaxProposalTtl
        BY <1>1, <1>3, Bounds DEF IsSorobanOperation, SorobanValid, RuntimeMethod
    <2> QED BY <1>2, <1>3, <2>1, Zenon DEF IsSorobanPolicy, RolesInv
<1>4. CASE op.kind = "SetRole" /\ SetRole(op) /\ ttls' = ttls
    <2>1. IsRoleChange(op)
        BY <1>4 DEF IsSorobanOperation, RuntimeMethod
    <2> QED BY <1>2, <1>4, <2>1, AdminStays
<1> QED BY <1>3, <1>4 DEF soroban_execute_reflexive

\* An execution of the Soroban contract that lowers a lock waited as long as
\* that lock was at the filing of the proposal.
LEMMA SorobanExecutionWaited ==
    ASSUME IsSorobanPolicy(ttls), NEW id, NEW Ops, IsSorobanBody(proposals[id], filed[id], Ops),
           NEW a, NEW at, soroban_execute_reflexive(a, id, at), NEW l \in OperationKind,
           ttls'[l] < ttls[l]
    PROVE  filed[id][l] <= proposals[id].ttl
<1> DEFINE op == proposals[id].operation
<1>1. ttls[l] \in Nat
    BY Bounds DEF IsSorobanPolicy
<1>2. /\ op.kind = "SetActionTtl"
      /\ ttls' = [ttls EXCEPT ![op.target] = op.ttl]
    BY <1>1 DEF soroban_execute_reflexive
<1>3. l = op.target
    BY <1>1, <1>2 DEF IsSorobanPolicy
<1> QED BY <1>2, <1>3 DEF IsSorobanBody
=============================================================================
