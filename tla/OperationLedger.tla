--------------------------- MODULE OperationLedger ---------------------------
(***************************************************************************)
(* What the durable Operation ledger promises to its readers, with no      *)
(* locks, threads, processes or transactions in sight: every Operation     *)
(* goes queued -> running -> one terminal status at most once, at most one *)
(* Operation is active, an idempotency key identifies one retained         *)
(* Operation, and a Plan is claimed, run and settled together with the     *)
(* Apply Operation that owns it.                                           *)
(*                                                                         *)
(* OperationRuntime, the module that models the code, implements this      *)
(* specification (its property Ledger!LedgerSpec).                         *)
(***************************************************************************)
EXTENDS Naturals

CONSTANTS
    Ops,        \* Operations that may ever be requested
    Plans,      \* Plans an Apply Operation may claim
    NoPlan,     \* target of an Operation that creates a Plan or runs a Check
    Target,     \* the Plan an Operation applies, or NoPlan
    Key         \* the idempotency key of an Operation

VARIABLES
    status,     \* status[o]: status of the operations row, "absent" before it exists
    row,        \* row[o]: "absent", "full", "tombstone" (payload expired), "purged"
    plan,       \* plan[p]: status of the plans row
    run         \* run[o]: the Run created with an Apply Operation

ledgerVars == <<status, row, plan, run>>

Active   == {"queued", "running"}
Terminal == {"succeeded", "failed", "interrupted"}

\* Operations whose rows still hold an idempotency key.
Retained == {o \in Ops : row[o] \in {"full", "tombstone"}}

LedgerInit ==
    /\ status = [o \in Ops |-> "absent"]
    /\ row = [o \in Ops |-> "absent"]
    /\ plan = [p \in Plans |-> "ready"]
    /\ run = [o \in Ops |-> "none"]

\* A new Operation is accepted. An Apply takes its ready Plan and starts its
\* Run in the same step.
Accept(o) ==
    /\ status[o] = "absent"
    /\ \A other \in Ops : status[other] \notin Active
    /\ \A other \in Retained : Key[other] # Key[o]
    /\ status' = [status EXCEPT ![o] = "queued"]
    /\ row' = [row EXCEPT ![o] = "full"]
    /\ \/ /\ Target[o] = NoPlan
          /\ UNCHANGED <<plan, run>>
       \/ /\ Target[o] # NoPlan
          /\ plan[Target[o]] = "ready"
          /\ plan' = [plan EXCEPT ![Target[o]] = "applying"]
          /\ run' = [run EXCEPT ![o] = "running"]

StartWork(o) ==
    /\ status[o] = "queued"
    /\ status' = [status EXCEPT ![o] = "running"]
    /\ UNCHANGED <<row, plan, run>>

\* An active Operation reaches a terminal status; its Plan and Run settle with it.
Settle(o) ==
    /\ status[o] \in Active
    /\ \E s \in Terminal : status' = [status EXCEPT ![o] = s]
    /\ plan' = [p \in Plans |->
                  IF p = Target[o] /\ plan[p] = "applying" THEN "settled" ELSE plan[p]]
    /\ run' = [run EXCEPT ![o] = IF @ = "running" THEN "settled" ELSE @]
    /\ UNCHANGED row

\* Terminal Operations lose their payload, then their row.
Forget ==
    /\ row' \in [Ops -> {"absent", "full", "tombstone", "purged"}]
    /\ \A o \in Ops :
          \/ row'[o] = row[o]
          \/ /\ status[o] \in Terminal
             /\ \/ row[o] = "full" /\ row'[o] \in {"tombstone", "purged"}
                \/ row[o] = "tombstone" /\ row'[o] = "purged"
    /\ UNCHANGED <<status, plan, run>>

\* A ready Plan is cancelled by its user, or expired by an Apply that found
\* another Library root.
Withdraw(p) ==
    /\ plan[p] = "ready"
    /\ \E s \in {"cancelled", "expired"} : plan' = [plan EXCEPT ![p] = s]
    /\ UNCHANGED <<status, row, run>>

LedgerNext ==
    \/ \E o \in Ops : Accept(o) \/ StartWork(o) \/ Settle(o)
    \/ Forget
    \/ \E p \in Plans : Withdraw(p)

LedgerSpec == LedgerInit /\ [][LedgerNext]_ledgerVars
=============================================================================
