--------------------------- MODULE GatewayDriver ---------------------------
(***************************************************************************)
(* The gateway's operation driver: it signs, persists, broadcasts and      *)
(* records the steps of an operation, under a lock per operation and a     *)
(* lease per signing key, and reconciles a submitted step with the chain.  *)
(* Every await of the code ends an action, so two operations, and a crash, *)
(* interleave between any two of them.                                     *)
(*                                                                         *)
(* A task is the holder of one operation's lock: the request that planned  *)
(* it, the relayer's broom or startup recovery.  `answer' is what the      *)
(* driver returned to a caller that has not used it yet.                   *)
(***************************************************************************)
EXTENDS GatewayStore, Integers, FiniteSetsExt

CONSTANTS
  Ops,            \* operations; an operation stands for its idempotency key
  Keys,           \* access keys of the one signing account
  PrimaryNodes,   \* number of RPC endpoints asked for a transaction's status
  ArchivalNodes,  \* the numbers of endpoints with the whole history there may be:
                  \* none for the relayer, one for the gateway's own service
  Validity,       \* age up to which the chain may still apply a transaction: what NEAR
                  \* grants its block hash, in blocks, and the time the chain stands still
  Horizon,        \* TRANSACTION_VALIDITY_HORIZON, on the same wall clock
  MaxMishaps      \* bound: store, signer and RPC calls that fail, and crashes

NoKey == "no key"

\* Neither a key nor an operation is taken for one of the names below.
ASSUME NamesApart ==
  /\ IsFiniteSet(Ops) /\ {"broom", "startup", "nobody", "none"} \cap Ops = {}
  /\ NoKey \notin Keys

ASSUME Bounds ==
  /\ {Validity, Horizon, MaxMishaps} \subseteq Nat
  /\ PrimaryNodes \in Nat \ {0} /\ ArchivalNodes \subseteq Nat

VARIABLES
  rows,     \* the Postgres rows of every operation
  task,     \* who holds an operation's lock, how far it is, its copy of the operation
  answer,   \* what the driver returned to each caller
  tx,       \* every transaction ever signed and what became of it
  mishaps   \* failed calls and crashes so far

driverVars == <<rows, task, answer, tx, mishaps>>

Callers == Ops \cup {"broom", "startup"}
NoTask == [by |-> "nobody", pc |-> "idle", mem |-> Reservation, key |-> NoKey]
NoAnswer == [kind |-> "none", op |-> Reservation]
Ok(op) == [kind |-> "ok", op |-> op]
Missing == [kind |-> "missing", op |-> Reservation]
Err == [kind |-> "err", op |-> Reservation]

Free(o) == task[o] = NoTask
Executed == {"succeeded", "reverted"}

\* A new process: whatever it finds was signed by an earlier one.
Forgotten ==
  [h \in DOMAIN tx |-> [tx[h] EXCEPT !.old = tx[h].fate \notin Executed \/ @]]

Mishap == mishaps < MaxMishaps /\ mishaps' = mishaps + 1

\* A call of the store that writes `new': it commits, or reports an error
\* before or after the commit.
Committed(o, new) == rows' = [rows EXCEPT ![o] = new] /\ UNCHANGED mishaps
WriteFails(o, new) == Mishap /\ rows' \in {rows, [rows EXCEPT ![o] = new]}

SaveOk(o, op) ==
  ~SaveRefused(op, rows[o]) /\ Committed(o, update_operation_tx(op, rows[o]))
SaveErr(o, op) ==
  IF SaveRefused(op, rows[o])
    THEN UNCHANGED <<rows, mishaps>>
    ELSE WriteFails(o, update_operation_tx(op, rows[o]))

DeleteReservation(o) ==
  IF rows[o].present /\ ~rows[o].plan THEN Absent ELSE rows[o]

Become(o, pc, mem) == task' = [task EXCEPT ![o].pc = pc, ![o].mem = mem]

Return(o, a) ==
  /\ task' = [task EXCEPT ![o] = NoTask]
  /\ answer' = [answer EXCEPT ![task[o].by] = a]

\* An error leaves the loop; only the request that reserved the operation
\* still has a reservation to clean up.
Fail(o) ==
  IF task[o].by = o
    THEN /\ task' = [task EXCEPT ![o].pc = "failed", ![o].key = NoKey]
         /\ UNCHANGED answer
    ELSE Return(o, Err)

\* advance_operation_unlocked: reconcile a submitted step, then run the rest.
Advance(o, caller, op) ==
  task' = [task EXCEPT ![o] =
             [by |-> caller, key |-> NoKey, mem |-> op,
              pc |-> IF op.current.state = "Submitted" THEN "query" ELSE "loop"]]

(***************************************************************************)
(* The chain.                                                              *)
(***************************************************************************)
Spent(k) == {tx[h].nonce : h \in {g \in DOMAIN tx : tx[g].key = k /\ tx[g].fate \in Executed}}

\* The chain may still apply h: young enough, and no later nonce used.
Landable(h) ==
  /\ tx[h].age <= Validity
  /\ \A n \in Spent(tx[h].key) : n < tx[h].nonce

\* An executed transaction has no age any more.
Land(h) ==
  /\ tx[h].fate = "inflight" /\ Landable(h)
  /\ \E f \in Executed : tx' = [tx EXCEPT ![h].fate = f, ![h].age = 0, ![h].since = 0]
  /\ UNCHANGED <<rows, task, answer, mishaps>>

Older(n, limit) == IF n > limit THEN n ELSE n + 1

\* Time passes for everything signed and not yet executed, except what an
\* earlier process signed and never sent: nobody will.
Tick ==
  /\ tx' = [h \in DOMAIN tx |->
              IF tx[h].fate \in Executed \/ (tx[h].old /\ tx[h].fate = "signed") THEN tx[h]
              ELSE [tx[h] EXCEPT !.age = Older(@, Validity),
                                 !.since = IF tx[h].fate = "signed" THEN @
                                           ELSE Older(@, Horizon)]]
  /\ tx' # tx
  /\ UNCHANGED <<rows, task, answer, mishaps>>

\* What one node may say of h.  A primary node drops old outcomes and may lag;
\* an archival node keeps every outcome.
NodeAnswers(h, whole) ==
  CASE tx[h].fate \in Executed /\ whole       -> {"Executed"}
    [] tx[h].fate \in Executed /\ ~whole      -> {"Executed", "NoRecord"}
    [] tx[h].fate = "inflight" /\ Landable(h) -> {"Pending", "NoRecord"}
    [] OTHER                                  -> {"NoRecord"}

poll(answers, n) ==
  LET decisive == {i \in 1..n : answers[i] \in {"Executed", "Pending"}}
  IN  CASE decisive # {} -> answers[Min(decisive)]
        [] decisive = {} /\ (\E i \in 1..n : answers[i] = "Error") -> "Unanswered"
        [] decisive = {} /\ n > 0 /\ (\A i \in 1..n : answers[i] # "Error") -> "NoRecord"
        [] n = 0 -> "Unasked"

query_transaction(primary, archival, n) ==
  LET first == poll(primary, PrimaryNodes)
      second == poll(archival, n)
  IN  IF first \in {"Executed", "Pending"} THEN first
      ELSE CASE second \in {"Executed", "Pending", "NoRecord"} -> second
             [] second = "Unanswered" -> "Error"
             [] second = "Unasked" -> IF first = "Unanswered" THEN "Error" ELSE "Unconfirmed"

\* The records a query of h may return; with a failed call, some node answers nothing.
QueryResults(h, failing) ==
  LET extra == IF failing THEN {"Error"} ELSE {}
  IN  UNION {{query_transaction(p, a, n) :
                p \in [1..PrimaryNodes -> NodeAnswers(h, FALSE) \cup extra],
                a \in [1..n -> NodeAnswers(h, TRUE) \cup extra]} : n \in ArchivalNodes}

\* Mutation: a transaction no node knows is rejected whatever its age.
reconcile_without_horizon(op, record) ==
  LET t == op.current.tx
      h == op.current.hash
  IN  CASE record = "Executed" /\ tx[h].fate = "succeeded" -> record_success(op, t, h)
        [] record = "Executed" /\ tx[h].fate = "reverted"  -> record_revert(op, t, h)
        [] record = "NoRecord"                             -> record_rejection(op, t, h)
        [] OTHER                                           -> op

\* Mutation: a transaction no node knows yet is prepared again.
reconcile_resubmits(op, record) ==
  LET t == op.current.tx
      h == op.current.hash
  IN  CASE record = "Executed" /\ tx[h].fate = "succeeded" -> record_success(op, t, h)
        [] record = "Executed" /\ tx[h].fate = "reverted"  -> record_revert(op, t, h)
        [] record = "NoRecord"  -> [op EXCEPT !.current.state = "Prepared"]
        [] OTHER                                           -> op

\* What reconciliation makes of the record.
reconcile_submitted_step(op, record) ==
  LET t == op.current.tx
      h == op.current.hash
  IN  CASE record = "Executed" /\ tx[h].fate = "succeeded" -> record_success(op, t, h)
        [] record = "Executed" /\ tx[h].fate = "reverted"  -> record_revert(op, t, h)
        [] record = "NoRecord" /\ tx[h].since > Horizon    -> record_rejection(op, t, h)
        [] OTHER                                           -> op

Query(o) ==
  /\ task[o].pc = "query"
  /\ \E failing \in BOOLEAN :
       /\ IF failing THEN Mishap ELSE UNCHANGED mishaps
       /\ \E r \in QueryResults(task[o].mem.current.hash, failing) :
            Become(o, "loop", reconcile_submitted_step(task[o].mem, r))
  /\ UNCHANGED <<rows, answer, tx>>

(***************************************************************************)
(* One step: lease, sign, save Prepared, save Submitted, broadcast, record.*)
(***************************************************************************)
Drivable(op) == status(op) \in {"Pending", "InProgress"} /\ has_next_transaction(op)

Idle(k) == \A o \in Ops : task[o].key # k

\* fetch_tx_nonce: the signer's cache, which lives as long as the process, or
\* the chain's own nonce of the key, whichever is ahead.
Cached(k) == {tx[h].nonce : h \in {g \in DOMAIN tx : tx[g].key = k /\ ~tx[g].old}}
NextNonce(k) == Max(Cached(k) \cup Spent(k) \cup {0}) + 1
Tries(o, i) == {h[3] : h \in {g \in DOMAIN tx : g[1] = o /\ g[2] = i}}

\* Mutation: the lease ends when the signature is made.
SignWithoutLease(o) ==
  /\ task[o].pc = "loop" /\ Drivable(task[o].mem)
  /\ \E k \in Keys :
       /\ Idle(k)
       /\ LET i == next_transaction(task[o].mem).step
              h == <<o, i, Max(Tries(o, i) \cup {0}) + 1>>
              new == [key |-> k, nonce |-> NextNonce(k), old |-> FALSE,
                      age |-> 0, since |-> 0, fate |-> "signed"]
          IN  /\ tx' = [g \in DOMAIN tx \cup {h} |-> IF g = h THEN new ELSE tx[g]]
              /\ task' = [task EXCEPT ![o].pc = "signed", ![o].mem = finish_preparation(@, h)]
  /\ UNCHANGED <<rows, answer, mishaps>>

LeaseAndSign(o) ==
  /\ task[o].pc = "loop" /\ Drivable(task[o].mem)
  /\ \E k \in Keys :
       /\ Idle(k)
       /\ \/ LET i == next_transaction(task[o].mem).step
                 h == <<o, i, Max(Tries(o, i) \cup {0}) + 1>>
                 new == [key |-> k, nonce |-> NextNonce(k), old |-> FALSE,
                         age |-> 0, since |-> 0, fate |-> "signed"]
             IN  /\ tx' = [g \in DOMAIN tx \cup {h} |-> IF g = h THEN new ELSE tx[g]]
                 /\ task' = [task EXCEPT ![o].pc = "signed", ![o].key = k,
                                         ![o].mem = finish_preparation(@, h)]
                 /\ UNCHANGED <<answer, mishaps>>
          \/ Mishap /\ Fail(o) /\ UNCHANGED tx
  /\ UNCHANGED rows

SavePrepared(o) ==
  /\ task[o].pc = "signed"
  /\ \/ SaveOk(o, task[o].mem) /\ Become(o, "prepared", task[o].mem) /\ UNCHANGED answer
     \/ SaveErr(o, task[o].mem) /\ Fail(o)
  /\ UNCHANGED tx

\* Submitted is durable before the broadcast.
SaveSubmitted(o) ==
  LET op == submit(task[o].mem)
  IN  /\ task[o].pc = "prepared"
      /\ \/ SaveOk(o, op) /\ Become(o, "submitting", op) /\ UNCHANGED answer
         \/ SaveErr(o, op) /\ Fail(o)
      /\ tx' = [tx EXCEPT ![op.current.hash].fate = "submitted"]

\* The broadcast reaches the network, or fails with the transaction lost.
Broadcast(o) ==
  /\ task[o].pc = "submitting"
  /\ \/ /\ tx' = [tx EXCEPT ![task[o].mem.current.hash].fate = "inflight"]
        /\ Become(o, "awaiting", task[o].mem)
        /\ UNCHANGED <<answer, mishaps>>
     \/ Mishap /\ Fail(o) /\ UNCHANGED tx
  /\ UNCHANGED rows

\* The outcome arrives and is recorded, or does not arrive, or the call fails
\* after the network had the transaction.
AwaitOutcome(o) ==
  LET op == task[o].mem
      t == op.current.tx
      h == op.current.hash
      done == IF tx[h].fate = "succeeded" THEN record_success(op, t, h)
                                          ELSE record_revert(op, t, h)
  IN  /\ task[o].pc = "awaiting"
      /\ \/ /\ tx[h].fate \in Executed
            /\ \/ /\ SaveOk(o, done)
                  /\ task' = [task EXCEPT ![o].pc = "loop", ![o].mem = done, ![o].key = NoKey]
                  /\ UNCHANGED answer
               \/ SaveErr(o, done) /\ Fail(o)
         \/ /\ task' = [task EXCEPT ![o].pc = "loop", ![o].key = NoKey]
            /\ UNCHANGED <<rows, answer, mishaps>>
         \/ Mishap /\ Fail(o) /\ UNCHANGED rows
      /\ UNCHANGED tx

\* The loop is over: a last save, which only recovery and the broom insist on.
LeaveLoop(o) ==
  LET op == task[o].mem
  IN  /\ task[o].pc = "loop" /\ ~Drivable(op)
      /\ \/ SaveOk(o, op) /\ Return(o, Ok(op))
         \/ SaveErr(o, op) /\ Return(o, IF task[o].by = o THEN Ok(op) ELSE Err)
      /\ UNCHANGED tx

\* After an error the request drops what is still a bare reservation.
DropAfterError(o) ==
  /\ task[o].pc = "failed"
  /\ \/ Committed(o, DeleteReservation(o))
     \/ WriteFails(o, DeleteReservation(o))
  /\ Return(o, Err)
  /\ UNCHANGED tx

TaskStep(o) ==
  \/ Query(o) \/ LeaseAndSign(o) \/ SavePrepared(o) \/ SaveSubmitted(o)
  \/ Broadcast(o) \/ AwaitOutcome(o) \/ LeaveLoop(o) \/ DropAfterError(o)

DriverInit ==
  /\ rows = [o \in Ops |-> Absent]
  /\ task = [o \in Ops |-> NoTask]
  /\ answer = [c \in Callers |-> NoAnswer]
  /\ tx = << >>
  /\ mishaps = 0
=============================================================================
