-------------------------- MODULE MeteredExecution --------------------------
(***************************************************************************)
(* What the relayer promises the accounts it pays for.  An operation       *)
(* executes its steps in plan order, each at most once, and only while its *)
(* charge is locked.  The charge is then resolved once: settled for what   *)
(* executed, or released when nothing did and nothing ever will.           *)
(***************************************************************************)
EXTENDS Naturals, FiniteSets

CONSTANTS Ops, Accounts, InnerSpend, TokensBurnt

VARIABLES
  charge,    \* none, locked, settled or released
  executed,  \* the steps of an operation that executed: <<step, signature, result>>
  allowance,
  account_of \* the account that pays for an operation

absVars == <<charge, executed, allowance, account_of>>

Results == {"succeeded", "tolerated", "fatal"}

Lock(o) ==
  /\ charge[o] = "none"
  /\ charge' = [charge EXCEPT ![o] = "locked"]
  /\ UNCHANGED <<executed, allowance, account_of>>

\* The next step executes: none did yet under this number, and none failed for
\* good.
Execute(o) ==
  /\ charge[o] = "locked"
  /\ \A e \in executed[o] : e[3] # "fatal"
  /\ \E e \in executed'[o] :
       /\ e[1] = Cardinality(executed[o]) + 1 /\ e[3] \in Results
       /\ executed' = [executed EXCEPT ![o] = @ \cup {e}]
  /\ UNCHANGED <<charge, allowance, account_of>>

\* The deposit is due only when something executed and nothing failed for good.
Settle(o) ==
  LET a == account_of[o]
  IN  /\ charge[o] = "locked"
      /\ charge' = [charge EXCEPT ![o] = "settled"]
      /\ \E deposit \in {0, InnerSpend} :
           /\ deposit > 0 => /\ executed[o] # {}
                             /\ \A e \in executed[o] : e[3] # "fatal"
           /\ LET cost == Cardinality(executed[o]) * TokensBurnt + deposit
              IN  allowance' = [allowance EXCEPT ![a] = IF @ > cost THEN @ - cost ELSE 0]
      /\ UNCHANGED <<executed, account_of>>

Release(o) ==
  /\ charge[o] = "locked" /\ executed[o] = {}
  /\ charge' = [charge EXCEPT ![o] = "released"]
  /\ UNCHANGED <<executed, allowance, account_of>>

AbsInit ==
  /\ charge = [o \in Ops |-> "none"]
  /\ executed = [o \in Ops |-> {}]
  /\ allowance \in [Accounts -> Nat]
  /\ account_of \in [Ops -> Accounts]

AbsNext == \E o \in Ops : Lock(o) \/ Execute(o) \/ Settle(o) \/ Release(o)

AbsSpec == AbsInit /\ [][AbsNext]_absVars
=============================================================================
