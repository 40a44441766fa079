---------------------------- MODULE GatewayStore ----------------------------
(***************************************************************************)
(* A gateway operation in memory (StoredOperation: a plan cut into         *)
(* completed steps, one current step and the remaining ones) and the rows  *)
(* the Postgres store keeps of it, with the conversion in both directions. *)
(* A save rewrites every step row inside one database transaction, taking  *)
(* over the signed bytes of the rows it replaces.                          *)
(*                                                                         *)
(* A planned transaction is [step, tolerant]: its place in the plan and    *)
(* its continue_on_failure flag.  A hash names one signature of a step;    *)
(* the signed bytes are represented by the hash they were signed under.    *)
(***************************************************************************)
EXTENDS Naturals, Sequences, FiniteSets

NoHash == <<>>

NoStep == [state |-> "None"]

\* A bare reservation: holds the idempotency key, planning not finished.
Reservation ==
  [planned |-> FALSE, completed |-> <<>>, current |-> NoStep, remaining |-> <<>>]

is_reservation(op) == ~op.planned

current_step_is_failed(op) == op.current.state \in {"Reverted", "Rejected"}

status(op) ==
  IF ~op.planned THEN "Pending"
  ELSE CASE current_step_is_failed(op)                     -> "Failed"
         [] op.current.state \in {"Prepared", "Submitted"} -> "InProgress"
         [] op.current = NoStep /\ op.remaining = <<>>     -> "Succeeded"
         [] op.current = NoStep /\ op.remaining # <<>> /\ op.completed = <<>> -> "Pending"
         [] OTHER                                          -> "InProgress"

is_terminal(op) == status(op) \in {"Succeeded", "Failed"}

Step(state, t, h) == [state |-> state, tx |-> t, hash |-> h]

record_success(op, t, h) ==
  [op EXCEPT !.completed = Append(@, Step("Succeeded", t, h)), !.current = NoStep]

\* The step's own flag decides whether its revert is tolerated.
record_revert(op, t, h) ==
  IF t.tolerant
    THEN [op EXCEPT !.completed = Append(@, Step("Reverted", t, h)), !.current = NoStep]
    ELSE [op EXCEPT !.current = Step("Reverted", t, h)]

record_rejection(op, t, h) == [op EXCEPT !.current = Step("Rejected", t, h)]

\* There is a step to sign: a prepared one is signed afresh, a submitted one never.
has_next_transaction(op) ==
  \/ op.current.state = "Prepared"
  \/ op.current = NoStep /\ op.remaining # <<>>

next_transaction(op) ==
  IF op.current.state = "Prepared" THEN op.current.tx ELSE Head(op.remaining)

\* PendingPreparation::finish, before its save.
finish_preparation(op, h) ==
  [op EXCEPT !.current = Step("Prepared", next_transaction(op), h),
             !.remaining = IF op.current = NoStep THEN Tail(@) ELSE @]

\* PreparedCurrentStep::submit, before its save.
submit(op) == [op EXCEPT !.current = Step("Submitted", @.tx, @.hash)]

\* How many steps executed on chain, as the operation's record tells: every
\* completed one, and a current one that reverted.
ExecutedSteps(op) == Len(op.completed) + IF op.current.state = "Reverted" THEN 1 ELSE 0

latest_tx_hash_exists(op) == op.completed # <<>> \/ op.current # NoStep

(***************************************************************************)
(* Rows.                                                                   *)
(***************************************************************************)
Absent == [present |-> FALSE]

NoExecution == [hash |-> NoHash, signed |-> NoHash, submitted |-> FALSE]

\* What the rows of one operation carry over from the ones they replace.
existing_execution(stored, i) ==
  IF i <= Len(stored.steps) THEN stored.steps[i].execution ELSE NoExecution

\* All the steps of an operation, in plan order.
AllSteps(op) ==
  op.completed
    \o (IF op.current = NoStep THEN <<>> ELSE <<op.current>>)
    \o [i \in 1..Len(op.remaining) |-> Step("Remaining", op.remaining[i], NoHash)]

Finished == {"Succeeded", "Reverted", "Rejected"}

\* Mutation: a step signed again keeps the bytes of its first signature.
insert_step_lifecycle_keeps_bytes(s, existing) ==
  [tx |-> s.tx,
   execution |->
     CASE s.state = "Remaining" -> NoExecution
       [] s.state = "Prepared" /\ existing = NoExecution ->
            [hash |-> s.hash, signed |-> s.hash, submitted |-> FALSE]
       [] s.state = "Submitted" -> [hash |-> s.hash, signed |-> existing.signed, submitted |-> TRUE]
       [] OTHER                 -> [hash |-> s.hash, signed |-> existing.signed,
                                    submitted |-> existing.submitted],
   result |-> IF s.state \in Finished THEN s.hash ELSE NoHash,
   outcome |-> CASE s.state = "Succeeded" -> "succeeded"
                 [] s.state = "Reverted"  -> "failed"
                 [] OTHER                 -> "none"]

insert_step_lifecycle(s, existing) ==
  [tx |-> s.tx,
   execution |->
     CASE s.state = "Remaining" -> NoExecution
       [] s.state = "Prepared"  -> [hash |-> s.hash, signed |-> s.hash, submitted |-> FALSE]
       [] s.state = "Submitted" -> [hash |-> s.hash, signed |-> existing.signed, submitted |-> TRUE]
       [] OTHER                 -> [hash |-> s.hash, signed |-> existing.signed,
                                    submitted |-> existing.submitted],
   result |-> IF s.state \in Finished THEN s.hash ELSE NoHash,
   outcome |-> CASE s.state = "Succeeded" -> "succeeded"
                 [] s.state = "Reverted"  -> "failed"
                 [] OTHER                 -> "none"]

\* A step past Prepared needs the signed transaction an earlier save stored;
\* without it the whole database transaction is refused.
SaveRefused(op, stored) ==
  \/ stored = Absent
  \/ \E i \in 1..Len(AllSteps(op)) :
       /\ AllSteps(op)[i].state \in Finished \cup {"Submitted"}
       /\ existing_execution(stored, i) = NoExecution

update_operation_tx(op, stored) ==
  [present |-> TRUE,
   plan |-> op.planned,
   completed_at |-> is_terminal(op),
   steps |-> IF op.planned
               THEN [i \in 1..Len(AllSteps(op)) |->
                       insert_step_lifecycle(AllSteps(op)[i], existing_execution(stored, i))]
               ELSE <<>>]

\* Mutation: a finished row without an outcome is taken for a submitted one.
row_lifecycle_forgets_rejection(row) ==
  CASE row.execution.hash = NoHash -> "Remaining"
    [] row.execution.hash # NoHash /\ row.outcome = "none" ->
         IF row.execution.submitted THEN "Submitted" ELSE "Prepared"
    [] row.execution.hash # NoHash /\ row.result \notin {NoHash, row.execution.hash} -> "Invalid"
    [] OTHER -> IF row.outcome = "failed" THEN "Reverted" ELSE "Succeeded"

row_lifecycle(row) ==
  CASE row.execution.hash = NoHash -> "Remaining"
    [] row.execution.hash # NoHash /\ row.result = NoHash ->
         IF row.execution.submitted THEN "Submitted" ELSE "Prepared"
    [] row.execution.hash # NoHash /\ row.result \notin {NoHash, row.execution.hash} -> "Invalid"
    [] OTHER -> CASE row.outcome = "none"      -> "Rejected"
                  [] row.outcome = "failed"    -> "Reverted"
                  [] row.outcome = "succeeded" -> "Succeeded"

IsCompletedRow(row) ==
  \/ row_lifecycle(row) = "Succeeded"
  \/ row_lifecycle(row) = "Reverted" /\ row.tx.tolerant

IsRemainingRow(row) == row_lifecycle(row) = "Remaining"

IsCurrentRow(row) == ~IsCompletedRow(row) /\ ~IsRemainingRow(row)

LoadRefused(stored) ==
  \/ \E i \in 1..Len(stored.steps) : row_lifecycle(stored.steps[i]) = "Invalid"
  \/ \E i, j \in 1..Len(stored.steps) :
       i < j /\ IsCurrentRow(stored.steps[i]) /\ IsCurrentRow(stored.steps[j])

\* The rows with an index in I, in plan order.
Picked(steps, I) ==
  [J \in {I} |-> [k \in 1..Cardinality(J) |->
                   steps[CHOOSE i \in J : Cardinality({j \in J : j <= i}) = k]]][I]

rows_to_stored_operation(stored) ==
  LET step(row) == Step(row_lifecycle(row), row.tx, row.execution.hash)
      all == 1..Len(stored.steps)
      done == Picked(stored.steps, {i \in all : IsCompletedRow(stored.steps[i])})
      open == Picked(stored.steps, {i \in all : IsCurrentRow(stored.steps[i])})
      rest == Picked(stored.steps, {i \in all : IsRemainingRow(stored.steps[i])})
  IN  [planned |-> stored.plan,
       completed |-> [i \in 1..Len(done) |-> step(done[i])],
       current |-> IF open = <<>> THEN NoStep ELSE step(open[1]),
       remaining |-> [i \in 1..Len(rest) |-> rest[i].tx]]
=============================================================================
