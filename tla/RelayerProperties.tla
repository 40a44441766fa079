------------------------- MODULE RelayerProperties -------------------------
(***************************************************************************)
(* What must hold of operations, transactions and charges together.        *)
(***************************************************************************)
EXTENDS RelayerCharges, Functions

TaskPcs == {"idle", "query", "loop", "signed", "prepared", "submitting", "awaiting", "failed"}

\* The shape of the state.
TypeOK ==
  /\ up \in {"down", "recovering", "serving"}
  /\ \A o \in Ops :
       /\ task[o].pc \in TaskPcs /\ task[o].by \in Callers \cup {"nobody"}
       /\ task[o].key \in Keys \cup {NoKey}
       /\ charge[o] \in {"none", "locked", "settled", "released"}
       /\ request[o] \in {"new", "locked", "planning", "planned", "driving", "looked_up", "done"}
  /\ \A h \in DOMAIN tx :
       /\ tx[h].fate \in {"signed", "submitted", "inflight"} \cup Executed
       /\ tx[h].age \in 0..Validity + 1 /\ tx[h].since \in 0..Horizon + 1
  /\ \A a \in Accounts : allowance[a] \in 0..Allowance[a]
  /\ mishaps \in 0..MaxMishaps

\* The state has its shape, the rows can always be loaded, a save is never
\* refused for a missing signed transaction, each stored signature belongs to
\* the stored hash, and what was just saved loads back as the operation in
\* memory: the conversion between StoredOperation and its rows loses nothing
\* the driver relies on, across re-signing, reconciliation and crashes.
RowsFaithful ==
  /\ TypeOK
  /\ \A o \in Ops :
       /\ rows[o].present =>
            /\ ~LoadRefused(rows[o])
            /\ \A i \in 1..Len(rows[o].steps) :
                 rows[o].steps[i].execution.signed = rows[o].steps[i].execution.hash
       /\ task[o].pc \in {"prepared", "submitting", "awaiting"} =>
            rows_to_stored_operation(rows[o]) = task[o].mem
       /\ task[o].pc = "signed" => ~SaveRefused(task[o].mem, rows[o])
       /\ task[o].pc = "prepared" => ~SaveRefused(submit(task[o].mem), rows[o])

\* A step the store holds as rejected never executed and never will, unless the
\* chain can apply a transaction the horizon has given up: as long as it stands
\* still for no longer than the horizon exceeds the validity of a block hash, the
\* rejection that releases a charge is proof.  Past that the wall clock proves
\* nothing, as operation_driver.rs says of it.
RejectionIsProof ==
  \A o \in Ops : rows[o].present =>
    \A i \in 1..Len(rows[o].steps) :
      LET h == rows[o].steps[i].execution.hash
      IN  row_lifecycle(rows[o].steps[i]) = "Rejected" /\ Validity <= Horizon
          => tx[h].fate \notin Executed /\ ~(tx[h].fate = "inflight" /\ Landable(h))

\* Transactions one process signs with a key reach the network in the order of
\* their nonces: while one is signed and not yet broadcast, none of the same
\* process with its nonce or a later one is out to invalidate it.  (Those of an
\* earlier process may: the nonce cache dies with it.)
LaneOrder ==
  \A o \in Ops : task[o].pc \in {"signed", "prepared", "submitting"} =>
    \A g \in DOMAIN tx :
      LET h == task[o].mem.current.hash
      IN  /\ tx[g].key = tx[h].key /\ ~tx[g].old
          /\ tx[g].fate \in {"inflight"} \cup Executed
          => tx[g].nonce < tx[h].nonce

LandedOf(o) == {h \in DOMAIN tx : h[1] = o /\ tx[h].fate \in Executed}

\* The deposit was attached and is due: something executed, and no step failed for good.
DepositDue(o) ==
  /\ LandedOf(o) # {}
  /\ Len(plan[o]) = Cardinality(LandedOf(o))
  /\ \A h \in LandedOf(o) : tx[h].fate = "reverted" => plan[o][h[2]]

CostOf(o) ==
  Cardinality(LandedOf(o)) * TokensBurnt + IF DepositDue(o) THEN InnerSpend ELSE 0

Settled(a) == {o \in Charged(a) : charge[o] = "settled"}

\* Every account has paid exactly the chain's cost of its settled operations,
\* each once, whoever resolved the charge and however often it was tried, down
\* to an allowance of zero: settle cuts off what the allowance does not cover.
BilledExactly ==
  \A a \in Accounts :
    LET cost == SumFunctionOnSet([o \in Ops |-> CostOf(o)], Settled(a))
    IN  allowance[a] = Max({Allowance[a] - cost, 0})

\* What settling o took beyond its reservation.
Overrun(o) == Max({CostOf(o) - (GasEstimate + InnerSpend), 0})

\* A default account is overcommitted by estimates that fell short and by
\* nothing else: its locked reservations exceed what it has left by at most the
\* overruns of its settled operations, however its requests interleave.
ReservationsCovered ==
  \A a \in Accounts : Mark[a] = "default" =>
    Reserved(a) <= allowance[a] + SumFunctionOnSet([o \in Ops |-> Overrun(o)], Settled(a))

\* A terminal operation is final: whatever is saved again later, its rows stay,
\* so a retry under its key keeps getting the same record.
TerminalIsFinal ==
  [][\A o \in Ops :
       rows[o].present /\ rows[o].completed_at => rows'[o] = rows[o]]_vars

ResultOf(h) ==
  CASE tx[h].fate = "succeeded" -> "succeeded"
    [] tx[h].fate = "reverted"  -> IF plan[h[1]][h[2]] THEN "tolerated" ELSE "fatal"

\* The relayer implements metered execution: steps execute in order, at most
\* once, only under a locked charge, and never after the charge is resolved.  It
\* does as long as a rejection is proof (Validity <= Horizon) and a reservation is
\* inserted before its charge is MIN_PENDING_AGE old (~SlowInserts).
Metered == INSTANCE MeteredExecution WITH
  executed <- [o \in Ops |-> {<<h[2], h[3], ResultOf(h)>> : h \in LandedOf(o)}]

MeteredSpec == Metered!AbsSpec

\* A reservation whose request is over: only a restart removes it.
Leaked(o) == rows[o].present /\ ~rows[o].plan /\ request[o] = "done"

\* A step was submitted, and there may be no archival endpoint to rule it out.
Unconfirmed(o) ==
  /\ 0 \in ArchivalNodes /\ rows[o].present
  /\ \E i \in 1..Len(rows[o].steps) : row_lifecycle(rows[o].steps[i]) = "Submitted"

\* A charge is locked for ever only if its own reservation leaked, or its own
\* operation hangs on a submitted step the nodes cannot confirm: every other
\* charge is settled or released in the end, however its request ended.
EveryChargeResolves ==
  \A o \in Ops :
    <>[](charge[o] = "locked") => <>[](Leaked(o) \/ Unconfirmed(o))
=============================================================================
