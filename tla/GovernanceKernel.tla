------------------------- MODULE GovernanceKernel --------------------------
(***************************************************************************)
(* The proposal ledger both governance contracts of the proxy oracle share *)
(* (crate contract/proxy-oracle/governance-kernel), with the proposal      *)
(* bodies and the role memberships their runtimes keep beside it.          *)
(*                                                                         *)
(* The kernel issues ids in order, fixes a proposal's timelock when it is  *)
(* created and drops the id when the proposal is executed or cancelled;    *)
(* the runtime stores and deletes the body.  active_ids is a vector that   *)
(* ids are pushed to in increasing order, kept here as a set.              *)
(***************************************************************************)
EXTENDS Integers, FiniteSets

CONSTANTS
    Accounts,
    MaxPendingProposals,  \* max_pending_proposals of the header
    MaxProposalTtl,       \* MAX_PROPOSAL_TTL
    MaxProposals          \* bound on the ids issued

ASSUME GovernanceBounds ==
    /\ MaxPendingProposals \in Nat /\ MaxProposalTtl \in Nat /\ MaxProposals \in Nat
    /\ IsFiniteSet(Accounts)

VARIABLES
    next_id, active_ids, ttls,  \* the header
    proposals,                  \* id -> [operation, created_at, ttl]
    roles,                      \* role -> its members
    filed                       \* history variable: id -> ttls when it was created

Role == {"ManualTripper", "CircuitBreakerOperator", "ProxyConfigurationManager", "Admin"}

\* new: an empty ledger and one administrator
GovernanceInit(admin, policy) ==
    /\ next_id = 0
    /\ active_ids = {}
    /\ ttls = policy
    /\ proposals = <<>>
    /\ roles = [r \in Role |-> IF r = "Admin" THEN {admin} ELSE {}]
    /\ filed = <<>>

\* what a SetRole operation carries
IsRoleChange(op) == op.role \in Role /\ op.account \in Accounts /\ op.set \in BOOLEAN

-----------------------------------------------------------------------------
\* assert_authorized, require_authorized: the role the operation asks for
\* now, or Admin
Authorized(account, role) == account \in roles["Admin"] \cup roles[role]

With(f, id, value) == [i \in DOMAIN f \cup {id} |-> IF i = id THEN value ELSE f[i]]
Without(f, id) == [i \in DOMAIN f \ {id} |-> f[i]]

\* create, and the runtime's bounds around it; valid is validate_on_create
Create(id, operation, valid, minimum_ttl, requested_ttl, at) ==
    LET ttl == IF minimum_ttl > requested_ttl THEN minimum_ttl ELSE requested_ttl
    IN /\ id = next_id /\ id < MaxProposals
       /\ requested_ttl <= MaxProposalTtl
       /\ Cardinality(active_ids) < MaxPendingProposals
       /\ valid
       /\ ttl <= MaxProposalTtl
       /\ next_id' = next_id + 1
       /\ active_ids' = active_ids \cup {id}
       /\ proposals' = With(proposals, id,
                            [operation |-> operation, created_at |-> at, ttl |-> ttl])
       /\ filed' = With(filed, id, ttls)
       /\ UNCHANGED <<ttls, roles>>

\* Mutant: an executed proposal stays pending.
DropNothing(id) == UNCHANGED <<active_ids, proposals, filed, next_id>>

\* cancel or execute drops the id; the runtime deletes the body
Drop(id) ==
    /\ active_ids' = active_ids \ {id}
    /\ proposals' = Without(proposals, id)
    /\ filed' = Without(filed, id)
    /\ UNCHANGED next_id

\* pending_index
IsPending(id) == id < next_id /\ id \in active_ids

\* can_execute
CanExecute(proposal, at) == at - proposal.created_at >= proposal.ttl

\* Mutant: any membership can be revoked.
MayRevokeAnyone(account, role) == TRUE

\* assert_can_set_role, roles::revoke
MayRevoke(account, role) ==
    role = "Admin" /\ account \in roles["Admin"] => Cardinality(roles["Admin"]) > 1

\* a SetRole operation takes effect
SetRole(op) ==
    /\ op.set \/ MayRevoke(op.account, op.role)
    /\ roles' = [roles EXCEPT ![op.role] = IF op.set THEN @ \cup {op.account}
                                           ELSE @ \ {op.account}]
=============================================================================
