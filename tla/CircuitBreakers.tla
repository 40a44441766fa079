-------------------------- MODULE CircuitBreakers --------------------------
(***************************************************************************)
(* The circuit breaker set of the proxy oracle kernel (crate               *)
(* contract/proxy-oracle/kernel, proxy/circuit_breaker): the rules, the    *)
(* set that holds them with its price histories, and try_accept_price.     *)
(* The NEAR and the Soroban runtimes both store such a set per asset and   *)
(* run every resolved price through it.                                    *)
(*                                                                         *)
(* Abstractions.  Prices are at one exponent, so compare_scaled compares   *)
(* the numbers; a threshold is a fraction [n, d].  The ring buffer of      *)
(* observed prices is only ever asked for its newest entry, which is what  *)
(* `observed' keeps (none once the capacity is 0).  A tripped status       *)
(* drops its time and its price, and events are left out: nothing reads    *)
(* them.  Both histories have the capacity history_len, so the check of    *)
(* validate_structure that they agree has nothing to compare here.         *)
(*                                                                         *)
(* An optional value is a set with at most one element.                    *)
(***************************************************************************)
EXTENDS Integers, Sequences, FiniteSets, Functions

-----------------------------------------------------------------------------
(* Rules.  A history is a sequence of [price, publish_time].               *)

\* relative_abs_change_exceeds: strictly above the threshold
RelativeChangeExceeds(previous, current, th) ==
    IF previous = 0 THEN current # 0
    ELSE (IF current > previous THEN current - previous
                                ELSE previous - current) * th.d > previous * th.n

\* classify_step_change: at or above the threshold, with a direction
StepChange(previous, current, th) ==
    IF /\ previous # current
       /\ (IF current > previous THEN current - previous
                                 ELSE previous - current) * th.d >= previous * th.n
    THEN (IF current > previous THEN "Increase" ELSE "Decrease")
    ELSE "None"

\* rule/stepwise_change.rs should_trip
StepwiseChangeTrips(b, h) ==
    /\ Len(h) >= 2
    /\ RelativeChangeExceeds(h[Len(h) - 1].price, h[Len(h)].price, b.threshold)

\* rule/monotonic_run.rs should_trip: the newest max_streak steps all move
\* one way
MonotonicRunTrips(b, h) ==
    /\ b.max_streak > 0
    /\ Len(h) > b.max_streak
    /\ \E direction \in {"Increase", "Decrease"} :
          \A i \in (Len(h) - b.max_streak + 1)..Len(h) :
             StepChange(h[i - 1].price, h[i].price, b.threshold) = direction

WindowSum(h, first, last) ==
    SumFunctionOnSet([i \in first..last |-> h[i].price], first..last)

\* rule/windowed_change_delta.rs should_trip: the newest window against the
\* one lookback_windows earlier
WindowedChangeDeltaTrips(b, h) ==
    LET n == Len(h)
        back == b.window_len * b.lookback_windows
    IN /\ b.window_len >= 2
       /\ b.lookback_windows > 0
       /\ n >= b.window_len + back
       /\ RelativeChangeExceeds(
             WindowSum(h, n - back - b.window_len + 1, n - back),
             WindowSum(h, n - b.window_len + 1, n), b.threshold)

\* rule/cumulative_change.rs should_trip
CumulativeChangeTrips(b, h) ==
    /\ h # <<>>
    /\ RelativeChangeExceeds(b.baseline, h[Len(h)].price, b.threshold)

ShouldTrip(b, h) ==
    \/ b.rule = "StepwiseChange" /\ StepwiseChangeTrips(b, h)
    \/ b.rule = "MonotonicRun" /\ MonotonicRunTrips(b, h)
    \/ b.rule = "WindowedChangeDelta" /\ WindowedChangeDeltaTrips(b, h)
    \/ b.rule = "CumulativeChange" /\ CumulativeChangeTrips(b, h)

\* is_valid_for: can the rule ever fire with this much history?
IsValidFor(b, history_len, sample_interval) ==
    /\ 0 < b.threshold.n /\ b.threshold.n <= b.threshold.d
    /\ \/ b.rule = "StepwiseChange" /\ history_len >= 2
       \/ /\ b.rule = "MonotonicRun"
          /\ 0 < b.max_streak /\ b.max_streak < history_len
          /\ sample_interval = 0
       \/ /\ b.rule = "WindowedChangeDelta"
          /\ b.window_len >= 2 /\ b.lookback_windows > 0
          /\ b.window_len * (b.lookback_windows + 1) <= history_len
       \/ b.rule = "CumulativeChange" /\ history_len >= 1 /\ b.baseline > 0

-----------------------------------------------------------------------------
(* The set                                                                 *)

ArmedAfter(t) == [tripped |-> FALSE, armed_after |-> t]
Tripped == [tripped |-> TRUE, armed_after |-> 0]

\* CircuitBreakerState::new
NewBreaker(b) == [breaker |-> b, is_enforced |-> TRUE, status |-> ArmedAfter(0)]

\* CircuitBreakerSet::empty
EmptySet ==
    [sample_interval |-> 0, history_len |-> 0, accepted |-> <<>>, observed |-> {},
     next_id |-> 0, is_manually_tripped |-> FALSE, breakers |-> <<>>]

\* CircuitBreakerSet: a record with these fields
IsBreakerSet(set) == DOMAIN set = DOMAIN EmptySet

\* what a rule, a breaker's state and a set hold, as they are stored
IsBreaker(b) ==
    /\ {"rule", "threshold"} \subseteq DOMAIN b
    /\ b.threshold.n \in Nat /\ b.threshold.d \in Nat

IsBreakerState(state) ==
    DOMAIN state = {"breaker", "is_enforced", "status"} /\ IsBreaker(state.breaker)

\* a set of at most max breakers that an owner configured and no price has
\* reached yet
IsConfiguredSet(set, max) ==
    /\ IsBreakerSet(set)
    /\ set.history_len \in Nat /\ set.accepted = <<>> /\ set.observed = {}
    /\ set.next_id \in Nat
    /\ DOMAIN set.breakers \subseteq 0..(set.next_id - 1)
    /\ Cardinality(DOMAIN set.breakers) <= max
    /\ \A id \in DOMAIN set.breakers : IsBreakerState(set.breakers[id])

\* a history whose publication times increase
StrictlyNewer(h) ==
    \A i \in 1..(Len(h) - 1) : h[i].publish_time < h[i + 1].publish_time

\* RingBuffer::last
Last(h) == h[Len(h)]

\* RingBuffer::set_capacity: the newest n entries
Newest(h, n) == SubSeq(h, IF Len(h) > n THEN Len(h) - n + 1 ELSE 1, Len(h))

\* RingBuffer::push, for a buffer of capacity n
Pushed(h, o, n) == Newest(Append(h, o), n)

\* validate, with the id range of validate_structure
Validates(set) ==
    \A id \in DOMAIN set.breakers :
       /\ id < set.next_id
       /\ IsValidFor(set.breakers[id].breaker, set.history_len, set.sample_interval)

\* CircuitBreakerState::is_blocking and CircuitBreakerSet::is_blocking
BreakerBlocks(state) == state.is_enforced /\ state.status.tripped

IsBlocking(set) ==
    \/ set.is_manually_tripped
    \/ \E id \in DOMAIN set.breakers : BreakerBlocks(set.breakers[id])

(* The edits.  Each is the set of its possible results: empty when the     *)
(* kernel returns an error.                                                *)

SetManualTrip(set, trip) == {[set EXCEPT !.is_manually_tripped = trip]}

\* Mutant: the rules are not asked whether they can work with it.
SetConfigUnchecked(set, interval, len) ==
    {[set EXCEPT !.sample_interval = interval, !.history_len = len,
                 !.accepted = Newest(@, len), !.observed = IF len = 0 THEN {} ELSE @]}

SetConfig(set, interval, len) ==
    {s \in {[set EXCEPT !.sample_interval = interval,
                        !.history_len = len,
                        !.accepted = Newest(@, len),
                        !.observed = IF len = 0 THEN {} ELSE @]} :
        \A id \in DOMAIN set.breakers :
           IsValidFor(set.breakers[id].breaker, len, interval)}

AddBreaker(set, id, b) ==
    {s \in {[set EXCEPT !.next_id = @ + 1,
                        !.breakers = [i \in DOMAIN @ \cup {id} |->
                                         IF i = id THEN NewBreaker(b) ELSE @[i]]]} :
        /\ IsValidFor(b, set.history_len, set.sample_interval)
        /\ id = set.next_id}

RemoveBreaker(set, id) ==
    {s \in {[set EXCEPT !.breakers = [i \in DOMAIN @ \ {id} |-> @[i]]]} :
        id \in DOMAIN set.breakers}

SetEnforced(set, id, enforced) ==
    IF id \in DOMAIN set.breakers
    THEN {[set EXCEPT !.breakers[id].is_enforced = enforced]} ELSE {}

Rearm(set, id, armed_after) ==
    IF id \in DOMAIN set.breakers
    THEN {[set EXCEPT !.breakers[id].status = ArmedAfter(armed_after)]} ELSE {}

-----------------------------------------------------------------------------
(* try_accept_price                                                        *)

\* should_persist_sample
ShouldPersistSample(set, now) ==
    \A last \in set.observed : now - last.observed_at >= set.sample_interval

\* Mutant: a price published together with the last one is recorded again.
AcceptedMayRepeat(set, price) ==
    \/ set.accepted = <<>>
    \/ price.publish_time >= Last(set.accepted).publish_time

AcceptedShouldAdvance(set, price) ==
    \/ set.accepted = <<>>
    \/ price.publish_time > Last(set.accepted).publish_time

\* the push of a sampled, newer price to the observed history
WithObservation(set, price, now) ==
    IF /\ set.history_len > 0
       /\ ShouldPersistSample(set, now)
       /\ \A last \in set.observed : price.publish_time > last.publish_time
    THEN [set EXCEPT !.observed =
             {[publish_time |-> price.publish_time, observed_at |-> now]}]
    ELSE set

\* Mutant: the breaker does not watch at the moment it is armed.
AppliedTransitionOnceArmed(state, proposed, now) ==
    IF /\ ~state.status.tripped
       /\ now > state.status.armed_after
       /\ ShouldTrip(state.breaker, proposed)
    THEN [state EXCEPT !.status = Tripped]
    ELSE state

\* apply_armed_transition: only a breaker armed by now tests its rule
AppliedArmedTransition(state, proposed, now) ==
    IF /\ ~state.status.tripped
       /\ now >= state.status.armed_after
       /\ ShouldTrip(state.breaker, proposed)
    THEN [state EXCEPT !.status = Tripped]
    ELSE state

\* try_accept_price: the set afterwards, and whether the price is accepted.
\* Nothing is tested, and the accepted history stands still, while the set
\* already blocks; a candidate is tested whether or not it is sampled.
TryAcceptPrice(set, price, now) ==
    LET observed == WithObservation(set, price, now)
        proposed == Pushed(set.accepted, price, set.history_len)
        tested == [observed EXCEPT !.breakers =
                     [id \in DOMAIN @ |-> AppliedArmedTransition(@[id], proposed, now)]]
    IN IF IsBlocking(set) THEN [set |-> observed, accepted |-> FALSE]
       ELSE IF IsBlocking(tested) THEN [set |-> tested, accepted |-> FALSE]
       ELSE IF ShouldPersistSample(set, now) /\ AcceptedShouldAdvance(set, price)
            THEN [set |-> [tested EXCEPT !.accepted = proposed], accepted |-> TRUE]
       ELSE [set |-> tested, accepted |-> TRUE]
=============================================================================
