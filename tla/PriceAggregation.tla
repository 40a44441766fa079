------------------------- MODULE PriceAggregation --------------------------
(***************************************************************************)
(* How a proxy turns the answers of its sources into one price (crate      *)
(* contract/proxy-oracle/kernel, proxy/): the validity and freshness       *)
(* filters and the Priority, MedianLow and MedianHigh aggregators.         *)
(*                                                                         *)
(* A source's answer is optional: {} or {[price, conf, publish_time]}.     *)
(* Prices are at one exponent.  The median sorts with an unstable sort, so *)
(* entries equal in price and in weight come in either order: Aggregate    *)
(* is the set of prices the build may return, empty for                    *)
(* TooFewValidSources.  The median's fallback for a total weight of 0 is   *)
(* left out: zero weights are filtered before it.                          *)
(***************************************************************************)
EXTENDS Integers, Sequences, FiniteSets, FiniteSetsExt, Functions

\* Proxy: what its fields hold
IsProxy(proxy) ==
    /\ proxy.max_age \subseteq Nat /\ proxy.max_clock_drift \subseteq Nat
    /\ IsFiniteSet(DOMAIN proxy.sources)
    /\ \A i \in DOMAIN proxy.sources : proxy.sources[i].weight \in Nat

\* has_strictly_positive_confidence_interval
IsPositive(p) == p.price > p.conf

\* FreshnessFilter::accepts, with optional bounds
IsFresh(proxy, p, now) ==
    IF now >= p.publish_time
    THEN \A max_age \in proxy.max_age : now - p.publish_time <= max_age
    ELSE \A drift \in proxy.max_clock_drift : p.publish_time - now <= drift

\* Proxy::aggregate drops what fails either filter
Filtered(proxy, answers, now) ==
    [i \in DOMAIN answers |->
        {p \in answers[i] : IsPositive(p) /\ IsFresh(proxy, p, now)}]

\* Priority: the first source with an answer left
PriorityPrice(filtered) ==
    UNION {filtered[i] : i \in {j \in DOMAIN filtered :
                                  \A k \in 1..(j - 1) : filtered[k] = {}}}

\* SpecificPrice::split, kept with the weight: both ends of the interval
MedianEntries(proxy, filtered) ==
    UNION {UNION {{[value |-> p.price + side * p.conf, publish_time |-> p.publish_time,
                    weight |-> proxy.sources[i].weight, source |-> i, side |-> side] :
                     side \in {-1, 1}} : p \in filtered[i]} :
             i \in {j \in DOMAIN filtered : proxy.sources[j].weight > 0}}

\* the order of (SpecificPrice, weight) pairs
Precedes(e, f) ==
    \/ e.value < f.value
    \/ e.value = f.value /\ e.weight < f.weight

WeightOf(entries) == SumFunctionOnSet([e \in entries |-> e.weight], entries)

\* the entries at which the cumulative weight may first reach the target
EntriesAt(entries, target) ==
    {e \in entries :
        /\ WeightOf({f \in entries : Precedes(f, e)}) < target
        /\ WeightOf({f \in entries : ~Precedes(e, f)}) >= target}

\* Mutant: the target forgets that every source counts twice.
TargetOncePerSource(aggregator, entries) ==
    (WeightOf(entries) \div 4) + (IF aggregator = "MedianLow" THEN 0 ELSE 1)

\* every source counts twice, so the total is even; the low median is
\* reached at half of it and the high one just above
MedianTarget(aggregator, entries) ==
    (WeightOf(entries) \div 2) + (IF aggregator = "MedianLow" THEN 0 ELSE 1)

\* the median aggregators
MedianPrices(proxy, filtered) ==
    LET entries == MedianEntries(proxy, filtered)
        valid_sources == Cardinality({e.source : e \in entries})
    IN IF valid_sources < Max({proxy.min_sources, 1}) THEN {}
       ELSE {[price |-> e.value, conf |-> 0, publish_time |-> e.publish_time] :
               e \in EntriesAt(entries, MedianTarget(proxy.aggregator, entries))}

\* Proxy::aggregate
Aggregate(proxy, answers, now) ==
    LET filtered == Filtered(proxy, answers, now)
    IN IF proxy.aggregator = "Priority" THEN PriorityPrice(filtered)
       ELSE MedianPrices(proxy, filtered)
=============================================================================
