--------------------------- MODULE RelayerCharges ---------------------------
(***************************************************************************)
(* The relayer on top of the gateway: every request locks allowance for a  *)
(* charge, has the gateway execute one operation and resolves the charge   *)
(* from the operation's record.  What the request could not resolve is     *)
(* left to the broom, a periodic sweep over old charges, and to startup    *)
(* recovery, which runs before the process serves anything.                *)
(***************************************************************************)
EXTENDS GatewayDriver

CONSTANTS
  Accounts,              \* charged accounts
  Payers,                \* which accounts the requests may name: functions from Ops
  Mark,                  \* an account's mark: default, always_approve, always_deny
  Allowance,             \* what each account has left when the process first starts
  GasEstimate,           \* gas reserved by a charge
  InnerSpend,            \* deposit reserved by a charge
  TokensBurnt,           \* gas a single executed step burns
  Plans,                 \* per operation, the plans planning may return,
                         \* each a sequence of tolerance flags
  BatchSize,             \* broom_batch_size
  SlowInserts            \* may a reservation take longer than MIN_PENDING_AGE to insert?

\* Nothing ties the gas estimate to what the plan burns.
ASSUME Amounts ==
  /\ Allowance \in [Accounts -> Nat]
  /\ {GasEstimate, InnerSpend, TokensBurnt} \subseteq Nat /\ BatchSize \in Nat \ {0}
  /\ SlowInserts \in BOOLEAN /\ Payers \subseteq [Ops -> Accounts]
  /\ \A o \in Ops : Plans[o] \subseteq Seq(BOOLEAN)

VARIABLES
  up,         \* the process: down, recovering or serving
  recovery,   \* operations startup recovery still has to resume, and whether one failed
  request,    \* how far each request is
  plan,       \* what planning returned
  account_of, \* the account each request names, which pays for it
  charge,     \* the ledger row of each operation's charge
  locks,      \* the charges in the order they were locked in (updated_at)
  aged,       \* charges older than MIN_PENDING_AGE
  allowance,  \* per account
  broom       \* the sweep: its batch and the charge in hand

relayerVars == <<up, recovery, request, plan, account_of, charge, locks, aged, allowance, broom>>
vars == <<driverVars, relayerVars>>

NoSweep == [pc |-> "idle", op |-> "none", batch |-> <<>>]
NoRecovery == [todo |-> {}, failed |-> FALSE]
Charged(a) == {o \in Ops : account_of[o] = a}
Reserved(a) ==
  (GasEstimate + InnerSpend) * Cardinality({o \in Charged(a) : charge[o] = "locked"})

Init ==
  /\ DriverInit
  /\ up = "down" /\ recovery = NoRecovery
  /\ request = [o \in Ops |-> "new"]
  /\ plan = [o \in Ops |-> <<>>]
  /\ account_of \in Payers
  /\ charge = [o \in Ops |-> "none"]
  /\ locks = <<>> /\ aged = {}
  /\ allowance = Allowance
  /\ broom = NoSweep

Goto(o, pc) == request' = [request EXCEPT ![o] = pc]

(***************************************************************************)
(* Charges.                                                                *)
(***************************************************************************)
\* Mutation: other locked charges do not count.
MayLockIgnoringReserved(o) ==
  LET a == account_of[o]
  IN  /\ Mark[a] # "always_deny"
      /\ Mark[a] = "always_approve" \/ allowance[a] >= GasEstimate + InnerSpend

MayLock(o) ==
  LET a == account_of[o]
  IN  /\ Mark[a] # "always_deny"
      /\ \/ Mark[a] = "always_approve"
         \/ allowance[a] - Reserved(a) >= GasEstimate + InnerSpend

Lock(o) == charge' = [charge EXCEPT ![o] = "locked"] /\ locks' = Append(locks, o)

lock_pending(o) ==
  /\ up = "serving" /\ request[o] = "new"
  /\ \/ MayLock(o) /\ Lock(o) /\ Goto(o, "locked") /\ UNCHANGED mishaps
     \/ ~MayLock(o) /\ Goto(o, "done") /\ UNCHANGED <<charge, locks, mishaps>>
     \/ Mishap /\ Goto(o, "done") /\ UNCHANGED <<charge, locks>>
     \/ Mishap /\ Goto(o, "done") /\ MayLock(o) /\ Lock(o)
  /\ UNCHANGED <<rows, task, answer, tx, up, recovery, plan, account_of, aged, allowance, broom>>

\* Mutation: the account pays whether or not the ledger row was still there.
settle_unconditionally(o, tokens_burnt, succeeded) ==
  /\ charge' = [charge EXCEPT ![o] = IF @ = "locked" THEN "settled" ELSE @]
  /\ LET a == account_of[o]
         cost == tokens_burnt + IF succeeded THEN InnerSpend ELSE 0
     IN  allowance' = [allowance EXCEPT ![a] = IF @ > cost THEN @ - cost ELSE 0]

\* The ledger row goes and the account pays, in one statement; a charge
\* resolved before matches no row.
settle(o, tokens_burnt, succeeded) ==
  /\ charge' = [charge EXCEPT ![o] = IF @ = "locked" THEN "settled" ELSE @]
  /\ LET a == account_of[o]
         cost == tokens_burnt + IF succeeded THEN InnerSpend ELSE 0
     IN  allowance' = IF charge[o] = "locked"
                        THEN [allowance EXCEPT ![a] = IF @ > cost THEN @ - cost ELSE 0]
                        ELSE allowance

release_pending(o) ==
  /\ charge' = [charge EXCEPT ![o] = IF @ = "locked" THEN "released" ELSE @]
  /\ UNCHANGED allowance

\* Mutation: a charge whose operation was never persisted is left alone.
resolve_charge_ignores_missing(o, a) ==
  LET n == ExecutedSteps(a.op)
      s == status(a.op)
  IN  CASE a.kind = "ok" /\ s = "Succeeded"   -> settle(o, n * TokensBurnt, n > 0)
        [] a.kind = "ok" /\ s = "Failed" /\ n > 0 -> settle(o, n * TokensBurnt, FALSE)
        [] a.kind = "ok" /\ s = "Failed" /\ n = 0 -> release_pending(o)
        [] OTHER                              -> UNCHANGED <<charge, allowance>>

\* The one rule by which the request and the broom resolve a charge.
resolve_charge(o, a) ==
  LET n == ExecutedSteps(a.op)
      s == status(a.op)
  IN  CASE a.kind = "missing"                 -> release_pending(o)
        [] a.kind = "ok" /\ s = "Succeeded"   -> settle(o, n * TokensBurnt, n > 0)
        [] a.kind = "ok" /\ s = "Failed" /\ n > 0 -> settle(o, n * TokensBurnt, FALSE)
        [] a.kind = "ok" /\ s = "Failed" /\ n = 0 -> release_pending(o)
        [] OTHER                              -> UNCHANGED <<charge, allowance>>

\* The table of pending charges, oldest first.
Pending == SelectSeq(locks, LAMBDA o : charge[o] = "locked")

\* The oldest young charge passes MIN_PENDING_AGE.
AgeCharge(o) ==
  /\ LET young == SelectSeq(Pending, LAMBDA p : p \notin aged)
     IN  young # <<>> /\ o = Head(young)
  /\ request[o] = "locked" => SlowInserts
  /\ aged' = aged \cup {o}
  /\ UNCHANGED <<driverVars, up, recovery, request, plan, account_of, charge, locks>>
  /\ UNCHANGED <<allowance, broom>>

(***************************************************************************)
(* A request (execute_and_account and the driver's plan_and_complete).     *)
(***************************************************************************)
Reserve(o) ==
  LET new == update_operation_tx(Reservation, Absent)
  IN  /\ request[o] = "locked"
      /\ \/ Committed(o, new) /\ Goto(o, "planning") /\ UNCHANGED answer
         \/ /\ WriteFails(o, new) /\ Goto(o, "driving")
            /\ answer' = [answer EXCEPT ![o] = Err]
  /\ UNCHANGED <<task, tx, up, recovery, plan, account_of, charge, locks, aged, allowance, broom>>

PlanFails(o) ==
  /\ request[o] = "planning"
  /\ \/ Committed(o, DeleteReservation(o))
     \/ WriteFails(o, DeleteReservation(o))
  /\ Goto(o, "driving") /\ answer' = [answer EXCEPT ![o] = Err]
  /\ UNCHANGED <<task, tx, up, recovery, plan, account_of, charge, locks, aged, allowance, broom>>

PlanSucceeds(o) ==
  /\ request[o] = "planning"
  /\ \E p \in Plans[o] : plan' = [plan EXCEPT ![o] = p]
  /\ Goto(o, "planned")
  /\ UNCHANGED <<driverVars, up, recovery, account_of, charge, locks, aged, allowance, broom>>

finish_reserved(o) ==
  LET op == IF rows[o].present THEN rows_to_stored_operation(rows[o]) ELSE Reservation
      steps == [i \in 1..Len(plan[o]) |-> [step |-> i, tolerant |-> plan[o][i]]]
      planned == [planned |-> TRUE, completed |-> op.completed, current |-> op.current,
                  remaining |-> steps]
      reply(a) == answer' = [answer EXCEPT ![o] = a] /\ UNCHANGED task
  IN  /\ request[o] = "planned" /\ Free(o)
      /\ \/ Mishap /\ reply(Err) /\ UNCHANGED rows
         \/ /\ steps = <<>> \/ ~is_reservation(op)
            /\ IF is_reservation(op)
                 THEN (SaveOk(o, planned) \/ SaveErr(o, planned)) /\ reply(Ok(planned))
                 ELSE reply(Ok(op)) /\ UNCHANGED <<rows, mishaps>>
         \/ /\ is_reservation(op) /\ steps # <<>>
            /\ task' = [task EXCEPT ![o] =
                          [by |-> o, pc |-> "loop", mem |-> planned, key |-> NoKey]]
            /\ UNCHANGED <<rows, answer, mishaps>>
      /\ Goto(o, "driving")
      /\ UNCHANGED <<tx, up, recovery, plan, account_of, charge, locks, aged, allowance, broom>>

\* The gateway answered: without a transaction hash the charge is left alone.
AccountOutcome(o) ==
  /\ request[o] = "driving" /\ answer[o].kind = "ok"
  /\ \/ /\ IF latest_tx_hash_exists(answer[o].op)
             THEN resolve_charge(o, answer[o])
             ELSE UNCHANGED <<charge, allowance>>
        /\ UNCHANGED mishaps
     \/ Mishap /\ UNCHANGED <<charge, allowance>>
  /\ Goto(o, "done") /\ answer' = [answer EXCEPT ![o] = NoAnswer]
  /\ UNCHANGED <<rows, task, tx, up, recovery, plan, account_of, locks, aged, broom>>

\* What the store holds under the key of o.
get_by_idempotency_key(o) ==
  IF rows[o].present THEN Ok(rows_to_stored_operation(rows[o])) ELSE Missing

\* The gateway failed: look up what it persisted under the key ...
LookUpAfterError(o) ==
  /\ request[o] = "driving" /\ answer[o].kind = "err"
  /\ \/ /\ answer' = [answer EXCEPT ![o] = get_by_idempotency_key(o)]
        /\ Goto(o, "looked_up") /\ UNCHANGED mishaps
     \/ /\ Mishap
        /\ answer' = [answer EXCEPT ![o] = NoAnswer] /\ Goto(o, "done")
  /\ UNCHANGED <<rows, task, tx, up, recovery, plan, account_of, charge, locks, aged>>
  /\ UNCHANGED <<allowance, broom>>

\* ... and resolve the charge from it.
AccountAfterError(o) ==
  /\ request[o] = "looked_up"
  /\ \/ resolve_charge(o, answer[o]) /\ UNCHANGED mishaps
     \/ Mishap /\ UNCHANGED <<charge, allowance>>
  /\ Goto(o, "done") /\ answer' = [answer EXCEPT ![o] = NoAnswer]
  /\ UNCHANGED <<rows, task, tx, up, recovery, plan, account_of, locks, aged, broom>>

RequestStep(o) ==
  \/ Reserve(o) \/ PlanFails(o) \/ PlanSucceeds(o) \/ finish_reserved(o)
  \/ AccountOutcome(o) \/ LookUpAfterError(o) \/ AccountAfterError(o)

(***************************************************************************)
(* The broom.                                                              *)
(***************************************************************************)
BroomRest == <<tx, up, recovery, request, plan, account_of, locks, aged>>

\* The oldest charges past MIN_PENDING_AGE, at most BatchSize of them.
get_pending_charges ==
  /\ up = "serving" /\ broom = NoSweep
  /\ LET old == SelectSeq(Pending, LAMBDA o : o \in aged)
     IN  /\ old # <<>>
         /\ broom' = [broom EXCEPT !.batch = SubSeq(old, 1, Min({Len(old), BatchSize}))]
  /\ UNCHANGED <<rows, task, answer, mishaps, charge, allowance, BroomRest>>

BroomAnswer(a) == answer' = [answer EXCEPT !["broom"] = a]

\* reconcile_operation, up to the lock: no operation under the key.
BroomLookUp ==
  /\ broom.pc = "idle" /\ broom.batch # <<>>
  /\ \E o \in {Head(broom.batch)} :
       \/ /\ ~rows[o].present /\ BroomAnswer(Missing) /\ UNCHANGED mishaps
          /\ broom' = [broom EXCEPT !.op = o, !.pc = "resolve"]
       \/ /\ rows[o].present /\ UNCHANGED <<answer, mishaps>>
          /\ broom' = [broom EXCEPT !.op = o, !.pc = "lock"]
       \/ Mishap /\ UNCHANGED answer /\ broom' = [broom EXCEPT !.batch = Tail(@)]
  /\ UNCHANGED <<rows, task, charge, allowance, BroomRest>>

\* Under the lock: a reservation is left to its request, the rest is advanced.
BroomLock ==
  /\ broom.pc = "lock" /\ Free(broom.op)
  /\ \E found \in {get_by_idempotency_key(broom.op)} :
       \/ Mishap /\ BroomAnswer(Err) /\ UNCHANGED task
       \/ /\ found.kind = "ok" => is_reservation(found.op)
          /\ BroomAnswer(found) /\ UNCHANGED <<task, mishaps>>
       \/ /\ found.kind = "ok" /\ ~is_reservation(found.op)
          /\ Advance(broom.op, "broom", found.op) /\ UNCHANGED <<answer, mishaps>>
  /\ broom' = [broom EXCEPT !.pc = "resolve"]
  /\ UNCHANGED <<rows, charge, allowance, BroomRest>>

BroomResolve ==
  /\ broom.pc = "resolve" /\ answer["broom"] # NoAnswer
  /\ \/ resolve_charge(broom.op, answer["broom"]) /\ UNCHANGED mishaps
     \/ Mishap /\ UNCHANGED <<charge, allowance>>
  /\ BroomAnswer(NoAnswer)
  /\ broom' = [pc |-> "idle", op |-> "none", batch |-> Tail(broom.batch)]
  /\ UNCHANGED <<rows, task, BroomRest>>

BroomStep == get_pending_charges \/ BroomLookUp \/ BroomLock \/ BroomResolve

(***************************************************************************)
(* Startup recovery and crashes.                                           *)
(***************************************************************************)
StartupRest == <<request, plan, account_of, charge, locks, aged, allowance, broom>>

Start ==
  /\ up = "down" /\ up' = "recovering"
  /\ recovery' = [todo |-> {o \in Ops : rows[o].present /\ ~rows[o].completed_at},
                  failed |-> FALSE]
  /\ tx' = Forgotten
  /\ UNCHANGED <<rows, task, answer, mishaps, StartupRest>>

\* resume_incomplete_operations: a reservation is reaped, the rest advanced.
Resume ==
  /\ up = "recovering" /\ \A o \in Ops : Free(o)
  /\ answer["startup"] = NoAnswer
  /\ \E o \in recovery.todo :
       LET op == rows_to_stored_operation(rows[o])
       IN  \/ /\ is_reservation(op)
              /\ Committed(o, DeleteReservation(o)) /\ UNCHANGED <<task, up>>
              /\ recovery' = [todo |-> recovery.todo \ {o}, failed |-> recovery.failed]
           \/ /\ is_reservation(op)
              /\ WriteFails(o, DeleteReservation(o)) /\ UNCHANGED <<task, up>>
              /\ recovery' = [todo |-> recovery.todo \ {o}, failed |-> TRUE]
           \/ /\ ~is_reservation(op)
              /\ Advance(o, "startup", op) /\ UNCHANGED <<rows, mishaps, up>>
              /\ recovery' = [todo |-> recovery.todo \ {o}, failed |-> recovery.failed]
  /\ UNCHANGED <<answer, tx, StartupRest>>

\* The process exits, to be restarted, or serves all the same if the operator
\* set ignore_startup_recovery_failure.
AfterFailure == {"down", "serving"}

\* Listing the operations or loading one fails: the rest is not resumed.
RecoveryAborts ==
  /\ up = "recovering" /\ \A o \in Ops : Free(o)
  /\ answer["startup"] = NoAnswer
  /\ Mishap /\ up' \in AfterFailure /\ recovery' = NoRecovery
  /\ UNCHANGED <<rows, task, answer, tx, StartupRest>>

ResumeAnswered ==
  /\ up = "recovering" /\ answer["startup"] # NoAnswer
  /\ recovery' = [recovery EXCEPT !.failed = @ \/ answer["startup"].kind = "err"]
  /\ answer' = [answer EXCEPT !["startup"] = NoAnswer]
  /\ UNCHANGED <<rows, task, tx, mishaps, up, StartupRest>>

\* Every operation was resumed.
RecoveryDone ==
  /\ up = "recovering" /\ recovery.todo = {}
  /\ answer["startup"] = NoAnswer /\ \A o \in Ops : Free(o)
  /\ up' \in IF recovery.failed THEN AfterFailure ELSE {"serving"}
  /\ recovery' = NoRecovery
  /\ UNCHANGED <<driverVars, StartupRest>>

StartupStep == Start \/ Resume \/ ResumeAnswered \/ RecoveryAborts \/ RecoveryDone

Crash ==
  /\ up # "down" /\ Mishap
  /\ up' = "down" /\ recovery' = NoRecovery
  /\ task' = [o \in Ops |-> NoTask]
  /\ answer' = [c \in Callers |-> NoAnswer]
  /\ broom' = NoSweep
  /\ request' = [o \in Ops |-> IF request[o] = "new" THEN "new" ELSE "done"]
  /\ UNCHANGED <<rows, tx, plan, account_of, charge, locks, aged, allowance>>

Next ==
  \/ \E o \in Ops : lock_pending(o) \/ RequestStep(o) \/ AgeCharge(o)
  \/ \E o \in Ops : TaskStep(o) /\ UNCHANGED relayerVars
  \/ \E h \in DOMAIN tx : Land(h) /\ UNCHANGED relayerVars
  \/ Tick /\ UNCHANGED relayerVars
  \/ BroomStep \/ StartupStep \/ Crash

\* Everything but clients, the chain and mishaps keeps running: requests in
\* hand, driver tasks, the broom's timer, recovery after a restart, the clock.
Fairness ==
  /\ \A o \in Ops : WF_vars(RequestStep(o)) /\ WF_vars(AgeCharge(o))
  /\ \A o \in Ops : WF_vars(TaskStep(o) /\ UNCHANGED relayerVars)
  /\ WF_vars(Tick /\ UNCHANGED relayerVars)
  /\ WF_vars(BroomStep) /\ WF_vars(StartupStep)

Spec == Init /\ [][Next]_vars
FairSpec == Spec /\ Fairness
=============================================================================
