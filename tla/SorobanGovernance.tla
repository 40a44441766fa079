------------------------- MODULE SorobanGovernance -------------------------
(***************************************************************************)
(* The Soroban governance contract of the proxy oracle                     *)
(* (contract/proxy-oracle/soroban/governance-contract and                  *)
(* governance-common).  Each kind of action has its own timelock, and a    *)
(* runtime call is made inside the execution: when it fails, everything is *)
(* reverted and the proposal stays pending.  The ownership actions and     *)
(* Upgrade are left out: they act on stellar_access and on the deployer.   *)
(***************************************************************************)
EXTENDS GovernanceKernel

\* the method a runtime action calls
RuntimeMethod ==
    [SetProxy |-> "set_proxy", RemoveProxy |-> "remove_proxy",
     ConfigureBreakers |-> "configure_breakers", AddBreaker |-> "add_breaker",
     RemoveBreaker |-> "remove_breaker", Rearm |-> "rearm",
     SetEnforced |-> "set_enforced", SetManualTrip |-> "set_manual_trip"]

OperationKind == DOMAIN RuntimeMethod \cup {"SetActionTtl", "SetRole"}

\* the timelocks, as the constructor takes them
IsSorobanPolicy(policy) == policy \in [OperationKind -> 0..MaxProposalTtl]

\* GovernanceAction: what its variants carry
IsSorobanOperation(op) ==
    \/ op.kind \in DOMAIN RuntimeMethod
    \/ op.kind = "SetActionTtl" /\ op.target \in OperationKind /\ op.ttl \in Nat
    \/ op.kind = "SetRole" /\ IsRoleChange(op)

\* OperationKind::required_role
KindRequiredRole(kind) ==
    CASE kind = "SetManualTrip" -> "ManualTripper"
      [] kind \in {"Rearm", "SetEnforced"} -> "CircuitBreakerOperator"
      [] kind \in {"SetActionTtl", "SetRole"} -> "Admin"
      [] OTHER -> "ProxyConfigurationManager"

\* GovernanceAction::required_role: the lock of an action that is not an
\* administrator's may be set by the configuration manager
SorobanRequiredRole(op) ==
    IF op.kind = "SetActionTtl" /\ KindRequiredRole(op.target) # "Admin"
    THEN "ProxyConfigurationManager" ELSE KindRequiredRole(op.kind)

\* minimum_ttl: a change of a lock waits out that lock as well
SorobanMinimumTtl(op) ==
    IF op.kind = "SetActionTtl" /\ ttls[op.target] > ttls["SetActionTtl"]
    THEN ttls[op.target] ELSE ttls[op.kind]

\* validate_action (the composition adds SetProxy's part, ValidProxyConfig)
SorobanValid(op) == op.kind = "SetActionTtl" => op.ttl <= MaxProposalTtl

-----------------------------------------------------------------------------
\* create_proposal
soroban_create_proposal(caller, op, requested_ttl, at) ==
    /\ Authorized(caller, SorobanRequiredRole(op))
    /\ Create(next_id, op, SorobanValid(op), SorobanMinimumTtl(op), requested_ttl, at)

\* cancel_proposal
soroban_cancel_proposal(caller, id) ==
    /\ id \in DOMAIN proposals
    /\ Authorized(caller, SorobanRequiredRole(proposals[id].operation))
    /\ IsPending(id)
    /\ Drop(id)
    /\ UNCHANGED <<ttls, roles>>

\* what execute_proposal checks and drops before it acts
soroban_execute_checks(caller, id, at) ==
    /\ id \in DOMAIN proposals
    /\ Authorized(caller, SorobanRequiredRole(proposals[id].operation))
    /\ IsPending(id)
    /\ SorobanValid(proposals[id].operation)
    /\ CanExecute(proposals[id], at)
    /\ Drop(id)

\* execute_proposal of an action on the governance contract itself
soroban_execute_reflexive(caller, id, at) ==
    /\ soroban_execute_checks(caller, id, at)
    /\ LET op == proposals[id].operation
       IN \/ /\ op.kind = "SetActionTtl"
             /\ ttls' = [ttls EXCEPT ![op.target] = op.ttl]
             /\ UNCHANGED roles
          \/ /\ op.kind = "SetRole"
             /\ SetRole(op)
             /\ UNCHANGED ttls

\* execute_proposal of a runtime action; the caller conjoins the call
soroban_execute_runtime(caller, id, at) ==
    /\ soroban_execute_checks(caller, id, at)
    /\ proposals[id].operation.kind \in DOMAIN RuntimeMethod
    /\ UNCHANGED <<ttls, roles>>
=============================================================================
