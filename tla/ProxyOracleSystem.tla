------------------------- MODULE ProxyOracleSystem -------------------------
(***************************************************************************)
(* The proxy oracle deployments: a NEAR or a Soroban oracle, owned either  *)
(* by an account, which may call every admin method at any time, or by its *)
(* governance contract, through which alone the admin methods are reached. *)
(* Anyone updates prices, and the sources answer as they like.             *)
(***************************************************************************)
EXTENDS NearProxyOracle, SorobanProxyOracle, NearGovernance, SorobanGovernance

CONSTANTS
    Workload,      \* the deployments considered, each with its inputs:
                   \* name -> [deployment, initial, updates, prices, confs, ahead,
                   \*          proxies, calls, operations, requested, policies]
    MaxOwnerCalls, \* bound on the calls of an owner account
    Admin          \* the account the governance contract is created with

ASSUME CallBound == MaxOwnerCalls \in Nat /\ Admin \in Accounts

Deployments == {"near_owned", "near_governed", "soroban_owned", "soroban_governed"}

\* the inputs of each deployment are of the types the contracts accept
ASSUME WorkloadShape ==
    \A w \in DOMAIN Workload :
       LET in == Workload[w]
       IN /\ in.deployment \in Deployments
          /\ \A i \in in.initial : IsProxy(i.proxy) /\ IsConfiguredSet(i.set, MaxBreakersPerProxy)
          /\ in.prices \subseteq Int /\ in.confs \subseteq Nat /\ in.ahead \in Nat
          /\ \A p \in in.proxies : IsProxy(p)
          /\ in.requested \subseteq Nat
          /\ in.deployment \in {"near_owned", "near_governed"} =>
                \A c \in in.calls : IsNearCall(c)
          /\ in.deployment = "soroban_owned" => \A c \in in.calls : IsSorobanCall(c)
          /\ in.deployment = "near_governed" =>
                /\ \A op \in in.operations :
                      /\ IsNearOperation(op)
                      /\ op.kind = "TargetFunctionCall" => IsNearCall(op.call)
                /\ \A policy \in in.policies : IsNearPolicy(policy)
          /\ in.deployment = "soroban_governed" =>
                /\ \A op \in in.operations :
                      /\ IsSorobanOperation(op)
                      /\ op.kind \in DOMAIN RuntimeMethod => IsSorobanCall(op.call)
                /\ \A policy \in in.policies : IsSorobanPolicy(policy)

VARIABLES
    workload,      \* which workload, fixed for ever
    owner_calls    \* the owner's calls so far, for the bound

governanceVars == <<next_id, active_ids, ttls, proposals, roles, filed, calls>>
oracleVars == <<now, proxy, circuit_breakers, cached, cache_epoch, updates, superseded, history>>
vars == <<workload, owner_calls, governanceVars, oracleVars>>

W == Workload[workload]
deployment == W.deployment
Near == deployment \in {"near_owned", "near_governed"}
Governed == deployment \in {"near_governed", "soroban_governed"}

\* what a source may answer now: nothing, or a price published until now or
\* stamped by a clock that runs ahead
SourceAnswers ==
    {{}} \cup {{[price |-> p, conf |-> c, publish_time |-> t]} :
                 p \in W.prices, c \in W.confs, t \in 0..(now + W.ahead)}

\* The asset is new, or in a configuration an owner left it in
Init ==
    /\ workload \in DOMAIN Workload /\ owner_calls = 0
    /\ OracleInit \/ /\ now = 0
                     /\ cached = {}
                     /\ \E i \in W.initial : proxy = {i.proxy} /\ circuit_breakers = {i.set}
    /\ NearInit
    /\ SorobanInit
    /\ \E policy \in W.policies : GovernanceInit(Admin, policy)
    /\ calls = {}

-----------------------------------------------------------------------------
Time == Tick /\ UNCHANGED <<workload, owner_calls, governanceVars, proxy, circuit_breakers, cached,
                            cache_epoch, updates, superseded, history>>

NearUpdate ==
    /\ Near
    /\ \E u \in W.updates :
          \/ update_prices(u)
          \/ update_prices_01_consume_results(u, SourceAnswers)
          \/ update_callback_fails(u)
    /\ UNCHANGED <<workload, owner_calls, governanceVars, history>>

SorobanRefresh ==
    /\ ~Near
    /\ refresh(SourceAnswers)
    /\ UNCHANGED <<workload, owner_calls, governanceVars, nearVars>>

\* an owner account calls an admin method
OwnerCall ==
    /\ ~Governed
    /\ owner_calls < MaxOwnerCalls /\ owner_calls' = owner_calls + 1
    /\ \E c \in W.calls :
          \/ Near /\ near_admin_call(c) /\ UNCHANGED history
          \/ ~Near /\ soroban_admin_call(c) /\ UNCHANGED nearVars
    /\ UNCHANGED <<workload, governanceVars>>

NearPropose ==
    /\ deployment = "near_governed"
    /\ \E a \in Accounts :
          \/ \E op \in W.operations, requested \in W.requested :
                near_create_proposal(a, op, requested, now)
          \/ \E id \in active_ids : near_cancel_proposal(a, id)
          \/ \E id \in active_ids : near_execute_proposal(a, id, now)
    /\ UNCHANGED <<workload, owner_calls, oracleVars>>

\* a target call lands: it is applied, or it fails at the oracle (a panic,
\* or the gas its proposal named); its proposal is gone either way
TargetCallLands ==
    /\ deployment = "near_governed"
    /\ \E c \in calls :
          /\ calls' = calls \ {c}
          /\ near_admin_call(c.call) \/ UNCHANGED oracleVars
    /\ UNCHANGED <<workload, owner_calls, next_id, active_ids, ttls, proposals, roles, filed,
                   history>>

SorobanPropose ==
    /\ deployment = "soroban_governed"
    /\ \E a \in Accounts :
          \/ \E op \in W.operations, requested \in W.requested :
                /\ op.kind = "SetProxy" => ValidProxyConfig(op.call.config)
                /\ soroban_create_proposal(a, op, requested, now)
          \/ \E id \in active_ids : soroban_cancel_proposal(a, id)
          \/ \E id \in active_ids : soroban_execute_reflexive(a, id, now)
    /\ UNCHANGED <<workload, owner_calls, calls, oracleVars>>

\* execute_proposal with its runtime call, in one transaction
SorobanExecuteRuntime ==
    /\ deployment = "soroban_governed"
    /\ \E a \in Accounts, id \in active_ids :
          /\ soroban_execute_runtime(a, id, now)
          /\ soroban_admin_call(proposals[id].operation.call)
    /\ UNCHANGED <<workload, owner_calls, calls, nearVars>>

Next ==
    \/ Time \/ NearUpdate \/ SorobanRefresh \/ OwnerCall
    \/ NearPropose \/ TargetCallLands \/ SorobanPropose \/ SorobanExecuteRuntime

Spec == Init /\ [][Next]_vars
=============================================================================
