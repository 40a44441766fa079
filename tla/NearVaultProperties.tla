------------------------- MODULE NearVaultProperties -------------------------
(***************************************************************************)
(* What the NEAR vault promises across receipts.                           *)
(***************************************************************************)
EXTENDS NearVaultSystem

OpState ==
    [kind : {"Idle"}]
    \union [kind : {"Allocating"}, op_id : Nat, index : Nat, remaining : Nat,
            plan : Seq([market : Markets, amount : Nat])]
    \union [kind : {"Withdrawing"}, op_id : Nat, request_id : Nat, index : Nat,
            remaining : Nat, collected : Nat, owner : Users, receiver : Users,
            escrow_shares : Nat]
    \union [kind : {"Refreshing"}, op_id : Nat, index : Nat, plan : Seq(Markets)]
    \union [kind : {"Payout"}, op_id : Nat, request_id : Nat, amount : Nat, owner : Users,
            receiver : Users, escrow_shares : Nat, burn_shares : Nat]

\* No amount goes below zero, and the operation is one the kernel knows.
TypeOK ==
    /\ vault.idle_balance \in Nat /\ balance \in Nat
    /\ \A m \in Markets : vault.principal[m] \in Nat /\ position[m] \in Nat
    /\ \A a \in Accounts : vault.shares[a] \in Nat
    /\ vault.op_state \in OpState

\* The vault holds exactly the shares of the requests that wait, the one being
\* paid included, and those that were sent to it by mistake: a refund or a burn can
\* always be carried out, and no escrow is left over.
EscrowExact ==
    vault.shares[SELF] = Escrow(vault.withdraw_queue, DOMAIN vault.withdraw_queue.pending)
                         + vault.strays

\* Every account that the queue or the operation names can be resolved, so that
\* no callback panics on a forgotten account; and no other account is kept.
AddressBookExact ==
    vault.address_book = LiveAccounts(vault.withdraw_queue, vault.op_state)

\* A lease never outlives the operation that took it: a lease left behind would
\* let a late callback pass for current, and keep the market locked.
LeasesOfCurrentOp ==
    \A m \in Markets :
        vault.leases[m] # NoLease =>
            vault.op_state # Idle /\ vault.op_state.op_id = vault.leases[m].op_id

\* Between any two receipts the vault's books are exact: amounts have their
\* types, the escrow is that of the waiting requests, the address book names
\* exactly the accounts that are still needed, and no lease is left behind.
BooksExact == TypeOK /\ EscrowExact /\ AddressBookExact /\ LeasesOfCurrentOp

InFlight ==
    {to_token[i].then : i \in {j \in DOMAIN to_token : to_token[j].kind # "resolve"}}
    \union {to_vault[i].then : i \in {j \in DOMAIN to_vault : to_vault[j].kind = "answer"}}
    \union {c.then : c \in {d \in calls : d.kind # "create_supply_withdrawal_request"}}
    \union {r.then : r \in replies}

\* A market callback that holds its lease computes with the principal that is
\* stored now: settling it overwrites no later change of the principal.
SettlesOnCurrentPrincipal ==
    \A cb \in InFlight :
        cb.at \in {"withdraw_02", "withdraw_03"} /\ ~IsStale(vault, cb) =>
            cb.before_principal = vault.principal[cb.market]

\* A request that left the queue was either paid, and then its tokens went out
\* and its shares were burned, or refunded, and then its tokens never leave,
\* whatever order the payout's answer and an unbrick come in.  Tokens that went
\* out for a request that still waits are those of the current payout.
PaidXorRefunded ==
    /\ \A id \in DOMAIN vault.outcomes :
            IF vault.outcomes[id] = "paid" THEN id \in delivered
            ELSE /\ id \notin delivered
                 /\ \A i \in DOMAIN to_token :
                        to_token[i].kind = "transfer" => to_token[i].request # id
    /\ \A id \in delivered \ DOMAIN vault.outcomes :
            vault.op_state.kind = "Payout" /\ vault.op_state.request_id = id

\* The operation in progress has a receipt in flight whose callback ends or
\* continues it.  A withdrawal that collects waits for the keeper instead.
Driven ==
    LET op == vault.op_state
    IN  \/ op.kind = "Withdrawing"
        \/ \E cb \in InFlight :
            \/ op.kind = "Payout" /\ cb.at = "payment_01" /\ cb.op_id = op.op_id
            \/ op.kind = "Refreshing" /\ cb.at = "refresh_01" /\ cb.op_id = op.op_id
               /\ cb.index = op.index
            \/ op.kind = "Allocating" /\ op.plan # <<>> /\ cb.op_id = op.op_id
               /\ cb.at \in {"supply_01", "supply_02"}
            \/ op.kind = "Allocating" /\ op.plan = <<>> /\ cb.op_id = op.op_id
               /\ \/ cb.at = "resync_01" /\ vault.idle_resync_inflight_op_id = op.op_id
                  \/ cb.at \in {"withdraw_01", "withdraw_02", "withdraw_03"}
                     /\ ~IsStale(vault, cb)

\* No operation is orphaned: it ends by itself, also when a call it made failed
\* (near/README.md: any error stops the operation and goes Idle).
NoOrphanedOperation == vault.op_state # Idle => Driven

\* Payouts, refreshes, resyncs and rebalances always have the receipt that ends or
\* continues them, whatever callbacks of earlier operations came in between.  Only
\* an allocation can be left without one, when the market did not take its supply,
\* and then, if nothing else failed, the tokens it took off the idle balance are
\* with the vault again, so that unbrick gives back what is there.  A resync that
\* is marked as in flight is the operation in progress.
OnlySuppliesStrand ==
    /\ vault.op_state # Idle /\ ~Driven =>
            /\ vault.op_state.kind = "Allocating" /\ vault.op_state.plan # <<>>
            /\ mishaps = 0 => vault.idle_balance + vault.op_state.remaining <= balance
    /\ vault.idle_resync_inflight_op_id # 0 =>
            vault.op_state = Placeholder(vault.idle_resync_inflight_op_id)
=============================================================================
