--------------------------- MODULE MCProxyOracle ---------------------------
(***************************************************************************)
(* The instance of ProxyOracleSystem that TLC checks: for each deployment, *)
(* the proxies, prices, calls and proposals it considers.                  *)
(***************************************************************************)
EXTENDS ProxyOracleProperties, TLC

Third == [n |-> 1, d |-> 3]

Step == [rule |-> "StepwiseChange", threshold |-> Third]
Run == [rule |-> "MonotonicRun", threshold |-> Third, max_streak |-> 1]
Drift == [rule |-> "CumulativeChange", threshold |-> Third, baseline |-> 4]
Window == [rule |-> "WindowedChangeDelta", threshold |-> Third, window_len |-> 2,
           lookback_windows |-> 1]

Proxy(aggregator, weights, min_sources, max_age) ==
    [aggregator |-> aggregator,
     sources |-> [i \in DOMAIN weights |-> [source |-> i, weight |-> weights[i]]],
     min_sources |-> min_sources, max_age |-> {max_age}, max_clock_drift |-> {1}]

Single == Proxy("MedianLow", <<1>>, 1, 1)
Patient == Proxy("MedianHigh", <<1>>, 1, 2)
Ranked == Proxy("Priority", <<0, 0>>, 1, 1)
Trio == Proxy("MedianHigh", <<1, 1, 1>>, 2, 1)
TrioLow == Proxy("MedianLow", <<1, 2, 2>>, 1, 1)

SetWith(interval, len, rules) ==
    [EmptySet EXCEPT !.sample_interval = interval, !.history_len = len,
                     !.next_id = Len(rules),
                     !.breakers = [id \in 0..(Len(rules) - 1) |-> NewBreaker(rules[id + 1])]]

Configured(p, set) == [proxy |-> p, set |-> set]

Policy(t, methods) ==
    [reflexive |-> [k \in ReflexiveKind |-> t],
     default |-> [ttl |-> t, role |-> "Admin"], methods |-> methods]

Trip(method, on) == [method |-> method, trip |-> on]

\* set_proxy on Soroban: MedianLow with weights of 1
Feed(source, max_age) ==
    [Proxy("MedianLow", <<1>>, 1, max_age) EXCEPT !.sources[1].source = source]

\* a workload without inputs, to be given some
Idle(d) ==
    [deployment |-> d, initial |-> {}, updates |-> {}, prices |-> {}, confs |-> {0},
     ahead |-> 0, proxies |-> {}, calls |-> {}, operations |-> {}, requested |-> {0},
     policies |-> IF d \in {"near_owned", "near_governed"} THEN {Policy(0, <<>>)}
                  ELSE {[k \in OperationKind |-> 0]}]

NearOwned ==
    [Idle("near_owned") EXCEPT
     !.initial = {Configured(Single, SetWith(1, 2, <<Step>>))},
     !.updates = Updates, !.prices = {4, 6},
     !.calls = {[method |-> "admin_set_proxy", proxy |-> p] : p \in {{}, {Single}, {Patient}}}
               \cup {[method |-> "admin_configure_circuit_breakers", interval |-> i, len |-> 2] :
                       i \in {0, 1}}
               \cup {[method |-> "admin_add_circuit_breaker", id |-> 1, breaker |-> Run]}
               \cup {[method |-> "admin_remove_circuit_breaker", id |-> 0]}
               \cup {Trip("admin_set_manual_trip", b) : b \in BOOLEAN}
               \cup {[method |-> "admin_rearm", id |-> 0, delay |-> 1]}
               \cup {[method |-> "admin_set_enforced", id |-> 0, enforced |-> b] :
                       b \in BOOLEAN}]

\* a rule that needs every price, with and without sampling: a set that an
\* older version stored may not validate
NearLegacy ==
    [Idle("near_owned") EXCEPT
     !.initial = {Configured(Single, SetWith(i, 2, <<Run>>)) : i \in {0, 1}},
     !.updates = Updates, !.prices = {4},
     !.calls = {[method |-> "admin_set_proxy", proxy |-> p] : p \in {{}, {Single}}}
               \cup {[method |-> "admin_configure_circuit_breakers", interval |-> i, len |-> 2] :
                       i \in {0, 1}}]

\* a rule that compares windows of prices
Windows ==
    [Idle("near_owned") EXCEPT
     !.initial = {Configured(Patient, SetWith(0, 4, <<Window>>))},
     !.updates = Updates, !.prices = {4, 6}]

SetFeeds ==
    {[method |-> "set_proxy", config |-> c] : c \in {Feed(1, 1), Feed(1, 2), Feed(2, 1)}}

\* configurations that set_proxy refuses: a source that cannot be read, an
\* age above the limit, one oracle twice, more sources than the limit
RefusedFeeds ==
    {[method |-> "set_proxy", config |-> c] :
       c \in {Feed(3, 1), Feed(1, 3),
              [Proxy("MedianLow", <<1, 1>>, 1, 1) EXCEPT !.sources[2].source = 1],
              Proxy("MedianLow", <<1, 1, 1>>, 1, 1)}}

SorobanOwned ==
    [Idle("soroban_owned") EXCEPT
     !.initial = {Configured(Feed(1, 1), SetWith(1, 2, <<Step>>))},
     !.prices = {4, 6},
     !.calls = SetFeeds \cup RefusedFeeds
               \cup {[method |-> "remove_proxy"]}
               \cup {[method |-> "configure_breakers", interval |-> i, len |-> 2] :
                       i \in {0, 1}}
               \cup {[method |-> "add_breaker", breaker |-> b] :
                       b \in {Run, [Drift EXCEPT !.baseline = 0]}}
               \cup {[method |-> "remove_breaker", id |-> 0]}
               \cup {[method |-> "rearm", id |-> 0, delay |-> 1]}
               \cup {[method |-> "set_enforced", id |-> 0, enforced |-> b] : b \in BOOLEAN}
               \cup {Trip("set_manual_trip", b) : b \in BOOLEAN}]

\* feeds whose clock runs ahead of the chain's
SorobanAhead == [SorobanOwned EXCEPT !.ahead = 1, !.calls = SetFeeds]

\* two ranked sources
Priorities ==
    [Idle("near_owned") EXCEPT
     !.initial = {Configured(Ranked, SetWith(0, 2, <<Step>>))},
     !.updates = Updates, !.prices = {4, 6}, !.ahead = 1]

\* every answer of three sources, for the median; no steps to speak of
Medians ==
    [Idle("near_owned") EXCEPT
     !.prices = {4, 6, 9}, !.confs = {0, 1, 4}, !.proxies = {Trio, TrioLow}]

NearTrips == {Trip("admin_set_manual_trip", b) : b \in BOOLEAN}

TargetCall(c) == [kind |-> "TargetFunctionCall", gas |-> 1, call |-> c]

\* operations that are refused when they are filed
IllFormed ==
    {[TargetCall(Trip("admin_set_manual_trip", TRUE)) EXCEPT !.gas = 0],
     TargetCall(Trip("", TRUE)), [kind |-> "SelfUpgrade", code |-> ""]}

SetsRole(account, role, on) ==
    [kind |-> "SetRole", account |-> account, role |-> role, set |-> on]

\* queued edits of the policy table
NearPolicies ==
    [Idle("near_governed") EXCEPT
     !.calls = NearTrips,
     !.operations =
        {[kind |-> "SetReflexiveTtl", lock |-> "SetPolicy", ttl |-> t] : t \in {0, 2, 3}}
        \cup {[kind |-> "SetTargetDefault", policy |-> [ttl |-> t, role |-> "Admin"]] :
                t \in {0, 2}}
        \cup {[kind |-> "SetMethodPolicy", method |-> "admin_set_manual_trip", policy |-> p] :
                p \in {{}, {[ttl |-> 0, role |-> "ManualTripper"]},
                       {[ttl |-> 1, role |-> "Admin"]}}}
        \cup {[kind |-> "SelfUpgrade", code |-> "wasm"]} \cup IllFormed,
     !.policies = {Policy(t, <<>>) : t \in {1, 2}}]

\* roles that come and go while proposals wait
RoleChanges ==
    {SetsRole("bob", r, TRUE) : r \in {"Admin", "ManualTripper"}}
    \cup {SetsRole(a, "Admin", FALSE) : a \in Accounts}

NearRoles ==
    [Idle("near_governed") EXCEPT
     !.calls = NearTrips,
     !.operations = RoleChanges \cup {TargetCall(c) : c \in NearTrips},
     !.policies = {Policy(0, [admin_set_manual_trip |-> [ttl |-> 0, role |-> "ManualTripper"]])}]

\* calls to an oracle whose price is being updated
NearCalls ==
    [Idle("near_governed") EXCEPT
     !.initial = {Configured(Single, EmptySet)},
     !.updates = Updates, !.prices = {4},
     !.calls = NearTrips,
     !.operations =
        {TargetCall([method |-> "admin_set_proxy", proxy |-> p]) : p \in {{}, {Single}}},
     !.policies = {Policy(0, <<>>)}]

SorobanPolicies ==
    [Idle("soroban_governed") EXCEPT
     !.operations =
        {[kind |-> "SetActionTtl", target |-> k, ttl |-> t] :
            k \in {"SetActionTtl", "SetManualTrip"}, t \in {0, 2, 3}}
        \cup {SetsRole("bob", "ProxyConfigurationManager", TRUE)},
     !.policies = {[k \in OperationKind |-> t] : t \in {1, 2}}]

SorobanTrips ==
    {[kind |-> "SetManualTrip", call |-> Trip("set_manual_trip", b)] : b \in BOOLEAN}

SorobanRoles ==
    [Idle("soroban_governed") EXCEPT
     !.operations = RoleChanges \cup SorobanTrips, !.requested = {0, 1, 3}]

SorobanCalls ==
    [Idle("soroban_governed") EXCEPT
     !.initial = {Configured(Feed(1, 1), EmptySet)},
     !.prices = {4},
     !.operations = SorobanTrips \cup
        {[kind |-> "RemoveProxy", call |-> [method |-> "remove_proxy"]],
         [kind |-> "SetProxy", call |-> [method |-> "set_proxy", config |-> Feed(1, 2)]],
         [kind |-> "RemoveBreaker", call |-> [method |-> "remove_breaker", id |-> 0]]}]

MCWorkload ==
    [near_owned |-> NearOwned, near_legacy |-> NearLegacy, windows |-> Windows,
     soroban_owned |-> SorobanOwned, soroban_ahead |-> SorobanAhead,
     medians |-> Medians, priorities |-> Priorities,
     near_policies |-> NearPolicies, near_roles |-> NearRoles, near_calls |-> NearCalls,
     soroban_policies |-> SorobanPolicies, soroban_roles |-> SorobanRoles,
     soroban_calls |-> SorobanCalls]

UpdateSymmetry == Permutations(Updates)
=============================================================================
