-------------------------- MODULE NearGovernance ---------------------------
(***************************************************************************)
(* The NEAR governance contract of the proxy oracle                        *)
(* (contract/proxy-oracle/near/governance-contract and governance-common). *)
(* Reflexive operations edit the contract's own policy table and roles;    *)
(* a TargetFunctionCall becomes a detached call to the oracle, which lands *)
(* in a later block, or fails there, after the proposal is gone.           *)
(***************************************************************************)
EXTENDS GovernanceKernel

CONSTANT MaxMethodPolicies   \* MAX_METHOD_POLICIES

ASSUME MethodBound == MaxMethodPolicies \in Nat

VARIABLE calls               \* target calls in flight, each with its proposal's id

ReflexiveKind == {"SetPolicy", "SetRole", "SelfUpgrade"}

\* ReflexiveOperation::kind
ReflexiveKindOf(op) ==
    IF op.kind \in {"SetReflexiveTtl", "SetTargetDefault", "SetMethodPolicy"}
    THEN "SetPolicy" ELSE op.kind

\* MethodPolicy
MethodPolicy == [ttl : Nat, role : Role]

\* Operation: what its variants carry
IsNearOperation(op) ==
    \/ op.kind = "TargetFunctionCall" /\ op.gas \in Nat
    \/ op.kind = "SelfUpgrade"
    \/ op.kind = "SetReflexiveTtl" /\ op.lock \in ReflexiveKind /\ op.ttl \in Nat
    \/ op.kind = "SetTargetDefault" /\ op.policy \in MethodPolicy
    \/ /\ op.kind = "SetMethodPolicy"
       /\ \A p, q \in op.policy : p \in MethodPolicy /\ p = q
    \/ op.kind = "SetRole" /\ IsRoleChange(op)

-----------------------------------------------------------------------------
(* GovernancePolicy: ttls is [reflexive, default, methods]                 *)

\* resolve: a method's override, else the default
Resolve(policy, method) ==
    IF method \in DOMAIN policy.methods THEN policy.methods[method] ELSE policy.default

\* GovernancePolicyWire::try_from
PolicyWithinBounds(policy) ==
    /\ \A k \in ReflexiveKind : policy.reflexive[k] <= MaxProposalTtl
    /\ policy.default.ttl <= MaxProposalTtl
    /\ Cardinality(DOMAIN policy.methods) <= MaxMethodPolicies
    /\ \A m \in DOMAIN policy.methods : policy.methods[m].ttl <= policy.default.ttl

\* GovernancePolicy, as init takes it
IsNearPolicy(policy) ==
    /\ DOMAIN policy = {"reflexive", "default", "methods"}
    /\ policy.reflexive \in [ReflexiveKind -> Nat]
    /\ policy.default \in MethodPolicy
    /\ IsFiniteSet(DOMAIN policy.methods)
    /\ \A m \in DOMAIN policy.methods : policy.methods[m] \in MethodPolicy
    /\ PolicyWithinBounds(policy)

\* lock_edit: the lock an operation edits, before and after
LockEdit(policy, op) ==
    CASE op.kind = "SetReflexiveTtl" -> {[current |-> policy.reflexive[op.lock], new |-> op.ttl]}
      [] op.kind = "SetTargetDefault" -> {[current |-> policy.default.ttl, new |-> op.policy.ttl]}
      [] op.kind = "SetMethodPolicy" ->
           {[current |-> Resolve(policy, op.method).ttl, new |-> p.ttl] : p \in op.policy}
      [] OTHER -> {}

\* Mutant: an edit waits only for the lock on edits.
LockEditTtlOfEdits(edit_lock, edit) == edit_lock

\* lock_edit_ttl: shortening a lock waits out that lock too
LockEditTtl(edit_lock, edit) ==
    IF edit.new < edit.current /\ edit.current > edit_lock THEN edit.current ELSE edit_lock

\* minimum_ttl under the policy in force
NearMinimumTtl(op) ==
    IF op.kind = "TargetFunctionCall" THEN Resolve(ttls, op.call.method).ttl
    ELSE LET base == ttls.reflexive[ReflexiveKindOf(op)]
             edits == LockEdit(ttls, op)
         IN IF edits = {} THEN base
            ELSE LockEditTtl(base, CHOOSE e \in edits : TRUE)

\* required_role under the policy in force
NearRequiredRole(op) ==
    IF op.kind = "TargetFunctionCall" THEN Resolve(ttls, op.call.method).role ELSE "Admin"

\* on_create, also run by execute
NearValid(op) ==
    /\ op.kind = "TargetFunctionCall" => op.call.method # "" /\ op.gas > 0
    /\ op.kind = "SelfUpgrade" => op.code # ""
    /\ op.kind = "SetReflexiveTtl" => op.ttl <= MaxProposalTtl
    /\ op.kind = "SetTargetDefault" => op.policy.ttl <= MaxProposalTtl
    /\ op.kind = "SetMethodPolicy" => \A p \in op.policy : p.ttl <= MaxProposalTtl

\* set_target_default may not undercut an override
SetTargetDefault(policy) ==
    /\ policy.ttl <= MaxProposalTtl
    /\ \A m \in DOMAIN ttls.methods : ttls.methods[m].ttl <= policy.ttl
    /\ ttls' = [ttls EXCEPT !.default = policy]

\* set_method_policy may not exceed the default, or the table its size
SetMethodPolicy(method, policy) ==
    /\ \A p \in policy :
          /\ p.ttl <= ttls.default.ttl
          /\ \/ method \in DOMAIN ttls.methods
             \/ Cardinality(DOMAIN ttls.methods) < MaxMethodPolicies
          /\ ttls' = [ttls EXCEPT !.methods = With(@, method, p)]
    /\ policy = {} => ttls' = [ttls EXCEPT !.methods = Without(@, method)]

-----------------------------------------------------------------------------
\* create_proposal
near_create_proposal(caller, op, requested_ttl, at) ==
    /\ Authorized(caller, NearRequiredRole(op))
    /\ Create(next_id, op, NearValid(op), NearMinimumTtl(op), requested_ttl, at)
    /\ UNCHANGED calls

\* cancel_proposal
near_cancel_proposal(caller, id) ==
    /\ id \in DOMAIN proposals
    /\ Authorized(caller, NearRequiredRole(proposals[id].operation))
    /\ IsPending(id)
    /\ Drop(id)
    /\ UNCHANGED <<ttls, roles, calls>>

\* execute_proposal: an effect that is refused reverts the whole receipt
near_execute_proposal(caller, id, at) ==
    /\ id \in DOMAIN proposals
    /\ LET op == proposals[id].operation
       IN /\ Authorized(caller, NearRequiredRole(op))
          /\ IsPending(id)
          /\ NearValid(op)
          /\ CanExecute(proposals[id], at)
          /\ Drop(id)
          /\ \/ /\ op.kind = "SetReflexiveTtl"
                /\ ttls' = [ttls EXCEPT !.reflexive[op.lock] = op.ttl]
                /\ UNCHANGED <<roles, calls>>
             \/ /\ op.kind = "SetTargetDefault"
                /\ SetTargetDefault(op.policy)
                /\ UNCHANGED <<roles, calls>>
             \/ /\ op.kind = "SetMethodPolicy"
                /\ SetMethodPolicy(op.method, op.policy)
                /\ UNCHANGED <<roles, calls>>
             \/ /\ op.kind = "SetRole"
                /\ SetRole(op)
                /\ UNCHANGED <<ttls, calls>>
             \/ /\ op.kind = "SelfUpgrade"
                /\ UNCHANGED <<ttls, roles, calls>>
             \/ /\ op.kind = "TargetFunctionCall"
                /\ calls' = calls \cup {[id |-> id, call |-> op.call]}
                /\ UNCHANGED <<ttls, roles>>
=============================================================================
