------------------------ MODULE OperationRuntimeProofs ------------------------
(***************************************************************************)
(* Proofs about OperationRuntime for any callers, Plans, keys and number   *)
(* of faults: type correctness; mutual exclusion of work; agreement of     *)
(* Plan, Run and Operation rows; and that the transactions implement the   *)
(* abstract ledger.                                                        *)
(***************************************************************************)
EXTENDS OperationRuntime, TLAPS

-----------------------------------------------------------------------------
(* Type correctness.                                                       *)

LEMMA InitTypeOK == Init => TypeOK
<1> SUFFICES ASSUME Init PROVE TypeOK
  OBVIOUS
<1>1. /\ lock \in Callers \cup {"free", "supervisor"}
      /\ web \in {"down", "starting", "up", "closing"}
      /\ thread \in BOOLEAN
      /\ sup \in {"off", "try", "reconcile", "cleanup", "release", "wait"}
      /\ worked \in SUBSET Ops
  BY DEF Init
<1>0. faults \in 0 .. MaxFaults
  BY CallersAssumption DEF Init
<1>2. /\ pc \in [Callers -> {"idle", "lock", "contended", "recheck", "done", "lost"} \cup HoldingPcs]
      /\ answer \in [Callers -> {"none", "accepted", "replayed", "key_reused", "busy",
                                 "not_ready", "expired", "rejected", "cancelled", "failed"}]
      /\ exec \in [Ops -> {"none", "waiting", "ended"} \cup Executing]
  BY DEF Init
<1>3. /\ status \in [Ops -> {"absent"} \cup Active \cup Terminal]
      /\ row \in [Ops -> {"absent", "full", "tombstone", "purged"}]
      /\ age \in [Ops -> 0 .. 2]
      /\ plan \in [Plans -> {"ready", "applying", "settled", "cancelled", "expired"}]
      /\ run \in [Ops -> {"none", "running", "settled"}]
  BY DEF Init
<1> QED
  BY <1>0, <1>1, <1>2, <1>3 DEF TypeOK

LEMMA ReconcileType ==
    ASSUME TypeOK, NEW failed, Reconcile(failed)
    PROVE  /\ status' \in [Ops -> {"absent"} \cup Active \cup Terminal]
           /\ plan' \in [Plans -> {"ready", "applying", "settled", "cancelled", "expired"}]
           /\ run' \in [Ops -> {"none", "running", "settled"}]
           /\ row' = row /\ age' = age
BY DEF TypeOK, Reconcile, Active, Terminal

LEMMA CleanupType ==
    ASSUME TypeOK, Cleanup
    PROVE  /\ row' \in [Ops -> {"absent", "full", "tombstone", "purged"}]
           /\ status' = status /\ age' = age /\ plan' = plan /\ run' = run
BY DEF TypeOK, Cleanup

LEMMA FinishType ==
    ASSUME TypeOK, NEW o \in Ops, NEW s \in Terminal, Finish(o, s)
    PROVE  /\ status' \in [Ops -> {"absent"} \cup Active \cup Terminal]
           /\ plan' \in [Plans -> {"ready", "applying", "settled", "cancelled", "expired"}]
           /\ run' \in [Ops -> {"none", "running", "settled"}]
           /\ row' = row /\ age' = age
BY DEF TypeOK, Finish, Active, Terminal

LEMMA CallerStepType ==
    ASSUME TypeOK, NEW c \in Callers, CallerStep(c)
    PROVE  TypeOK'
<1> USE CallersAssumption DEF TypeOK, database, execution, Goto, Reply, HoldingPcs, Executing
<1>1. CASE Arrive(c)
  BY <1>1 DEF Arrive, ReplayVerdict
<1>2. CASE Invoke(c)
  BY <1>2 DEF Invoke
<1>3. CASE TryLock(c)
  BY <1>3 DEF TryLock
<1>4. CASE Contended(c)
  BY <1>4 DEF Contended, ReplayVerdict
<1>5. CASE Recheck(c)
  BY <1>5 DEF Recheck
<1>6. CASE CallerReconciles(c)
  BY <1>6, ReconcileType DEF CallerReconciles
<1>7. CASE CallerCleansUp(c)
  BY <1>7, CleanupType DEF CallerCleansUp
<1>8. CASE Reject(c)
  BY <1>8 DEF Reject
<1>9. CASE Refuse(c)
  BY <1>9 DEF Refuse, ReplayVerdict
<1>10. CASE Reserve(c)
  BY <1>10 DEF Reserve, NewOperation, Accepted, Active, Terminal
<1>11. CASE Claim(c)
  <2>1. /\ status' \in [Ops -> {"absent"} \cup Active \cup Terminal]
        /\ row' \in [Ops -> {"absent", "full", "tombstone", "purged"}]
        /\ plan' \in [Plans -> {"ready", "applying", "settled", "cancelled", "expired"}]
        /\ run' \in [Ops -> {"none", "running", "settled"}]
    BY <1>11 DEF Claim, NewOperation, Active, Terminal
  <2>2. /\ pc' \in [Callers -> {"idle", "lock", "contended", "recheck", "done", "lost"} \cup HoldingPcs]
        /\ answer' \in [Callers -> {"none", "accepted", "replayed", "key_reused", "busy",
                                    "not_ready", "expired", "rejected", "cancelled", "failed"}]
        /\ exec' \in [Ops -> {"none", "waiting", "ended"} \cup Executing]
    BY <1>11 DEF Claim, Accepted
  <2> QED
    BY <1>11, <2>1, <2>2 DEF Claim, NewOperation
<1>12. CASE ExpirePlan(c)
  BY <1>12 DEF ExpirePlan
<1>13. CASE Cancel(c)
  BY <1>13 DEF Cancel
<1>14. CASE Submit(c)
  BY <1>14 DEF Submit
<1>15. CASE SubmitRaises(c)
  BY <1>15 DEF SubmitRaises
<1>16. CASE Undispatch(c)
  BY <1>16, ReconcileType DEF Undispatch
<1>17. CASE Release(c)
  BY <1>17 DEF Release
<1> QED
  BY <1>1, <1>2, <1>3, <1>4, <1>5, <1>6, <1>7, <1>8, <1>9, <1>10, <1>11, <1>12,
     <1>13, <1>14, <1>15, <1>16, <1>17 DEF CallerStep

LEMMA ExecutionStepType ==
    ASSUME TypeOK, NEW o \in Ops, ExecutionStep(o)
    PROVE  TypeOK'
<1> USE CallersAssumption DEF TypeOK, database, Move, HoldingPcs, Executing
<1>1. CASE TakeTask(o)
  BY <1>1 DEF TakeTask
<1>2. CASE MarkRunning(o)
  BY <1>2 DEF MarkRunning, Active, Terminal
<1>3. CASE WorkCommits(o)
  BY <1>3, FinishType DEF WorkCommits, Terminal
<1>4. CASE WorkReturns(o) \/ WorkRaises(o)
  BY <1>4 DEF WorkReturns, WorkRaises
<1>5. CASE CheckFinished(o)
  BY <1>5, FinishType DEF CheckFinished, Terminal
<1>6. CASE HandleFailure(o)
  BY <1>6, FinishType, ReconcileType DEF HandleFailure, Terminal
<1>7. CASE Leave(o)
  BY <1>7 DEF Leave, Goto, Callers
<1> QED
  BY <1>1, <1>2, <1>3, <1>4, <1>5, <1>6, <1>7 DEF ExecutionStep

LEMMA SupervisorStepType ==
    ASSUME TypeOK, SupervisorStep
    PROVE  TypeOK'
<1> USE DEF TypeOK, database, execution, PassEnds
<1>1. CASE SupervisorTries
  BY <1>1 DEF SupervisorTries
<1>2. CASE SupervisorReconciles
  BY <1>2, ReconcileType DEF SupervisorReconciles
<1>3. CASE SupervisorCleansUp
  BY <1>3, CleanupType DEF SupervisorCleansUp
<1>4. CASE SupervisorReleases
  BY <1>4 DEF SupervisorReleases
<1>5. CASE SupervisorWakes
  BY <1>5 DEF SupervisorWakes
<1> QED
  BY <1>1, <1>2, <1>3, <1>4, <1>5 DEF SupervisorStep

LEMMA LoseType ==
    ASSUME TypeOK, NEW callers, Lose(callers)
    PROVE  /\ pc' \in [Callers -> {"idle", "lock", "contended", "recheck", "done", "lost"} \cup HoldingPcs]
           /\ exec' \in [Ops -> {"none", "waiting", "ended"} \cup Executing]
BY DEF TypeOK, Lose

LEMMA EnvironmentType ==
    ASSUME TypeOK, Environment
    PROVE  TypeOK'
<1> USE CallersAssumption DEF TypeOK, database, execution, HoldingPcs, Executing
<1>1. CASE StartWeb \/ Close \/ SupervisorFails
  BY <1>1 DEF StartWeb, Close, SupervisorFails
<1>2. CASE Exit
  BY <1>2, LoseType DEF Exit
<1>3. CASE CrashWeb
  <2>1. faults' \in 0 .. MaxFaults
    BY <1>3 DEF CrashWeb
  <2>2. /\ lock' \in Callers \cup {"free", "supervisor"}
        /\ web' = "down" /\ thread' = FALSE /\ sup' = "off"
    BY <1>3 DEF CrashWeb
  <2>3. Lose(WebCallers) /\ UNCHANGED <<answer, worked, status, row, age, plan, run>>
    BY <1>3 DEF CrashWeb
  <2> QED
    BY <2>1, <2>2, <2>3, LoseType
<1>4. ASSUME NEW c \in Callers, CallerFails(c)
      PROVE  TypeOK'
  BY <1>4 DEF CallerFails, Reply, Goto
<1>5. ASSUME NEW c \in Callers, CrashCommand(c)
      PROVE  TypeOK'
  BY <1>5, LoseType DEF CrashCommand
<1>6. ASSUME NEW o \in Ops, ExecutionFails(o)
      PROVE  TypeOK'
  BY <1>6 DEF ExecutionFails, Move
<1>7. ASSUME NEW o \in Ops, Elapse(o)
      PROVE  TypeOK'
  BY <1>7 DEF Elapse
<1> QED
  BY <1>1, <1>2, <1>3, <1>4, <1>5, <1>6, <1>7 DEF Environment

\* TypeOK holds in every reachable state: the types of the rows, locks, program
\* counters and answers of operation_composition.py.
THEOREM TypeCorrect == Spec => []TypeOK
<1>1. TypeOK /\ [Next]_vars => TypeOK'
  <2> SUFFICES ASSUME TypeOK, [Next]_vars PROVE TypeOK'
    OBVIOUS
  <2>1. CASE Next
    BY <2>1, CallerStepType, ExecutionStepType, SupervisorStepType, EnvironmentType DEF Next
  <2>2. CASE UNCHANGED vars
    BY <2>2 DEF vars, TypeOK
  <2> QED
    BY <2>1, <2>2
<1> QED
  BY <1>1, InitTypeOK, PTL DEF Spec

-----------------------------------------------------------------------------
(* The inductive invariant.                                                *)

\* Who owns the lock: callers and supervisor passes inside their critical
\* section, and executions of Operations that are still active. A task left in
\* the queue by a failed submit owns nothing, and no thread can take it before
\* the reconciliation that precedes the next acceptance.
Ownership ==
    /\ \A c \in Callers : pc[c] \in HoldingPcs => lock = c
    /\ sup \in {"reconcile", "cleanup", "release"} => lock = "supervisor"
    /\ \A o \in Ops :
          /\ exec[o] \in Executing => pc[o] = IF o \in Starts THEN "done" ELSE "inline"
          /\ exec[o] \in Executing /\ status[o] \in Active => lock = o
          /\ exec[o] = "work" => status[o] = "running"
          /\ exec[o] = "waiting" =>
                /\ o \in Starts /\ pc[o] \in {"undispatch", "release", "done"}
                /\ thread => pc[o] = "done" /\ (status[o] \in Active => lock = o)

\* What a caller has written to the database before it is accepted: nothing.
Untouched ==
    \A o \in Ops :
        /\ pc[o] \in {"idle", "lock", "contended", "recheck", "reconcile", "cleanup", "reserve"}
              => exec[o] = "none" /\ status[o] = "absent"
        /\ pc[o] = "submit" => exec[o] = "none" /\ status[o] = "queued"

OneActive ==
    \A o1, o2 \in Ops : status[o1] \in Active /\ status[o2] \in Active => o1 = o2

RowsMatch ==
    \A o \in Ops : (status[o] = "absent" <=> row[o] = "absent")

\* The part of the invariant that only the rows of the database decide.
Rows == OneActive /\ RowsMatch /\ PlanRunOperationAgree

Threads == Ownership /\ Untouched

IInv == TypeOK /\ Threads /\ Rows

-----------------------------------------------------------------------------
(* What each transaction does to the rows.                                 *)

LEMMA CallerKinds ==
    /\ Ops \subseteq Callers /\ WebCallers \subseteq Callers
    /\ Starts \subseteq Ops /\ Commands \subseteq Ops /\ Cancels \subseteq Callers
    /\ \A o \in Ops : o \in Starts \/ o \in Commands
    /\ \A o \in Ops : ~(o \in Starts /\ o \in Commands) /\ o \notin Cancels
    /\ \A c \in Callers : c # "free" /\ c # "supervisor"
    /\ \A c \in Callers : Target[c] \in Plans \cup {NoPlan}
    /\ NoPlan \notin Plans
BY CallersAssumption DEF Ops, WebCallers, Callers

\* After a reconciliation no Operation is active; terminal ones are unchanged.
LEMMA ReconcileRows ==
    ASSUME TypeOK, Rows, NEW failed, Reconcile(failed)
    PROVE  /\ Rows'
           /\ \A o \in Ops : status'[o] \notin Active
           /\ \A o \in Ops : status[o] \notin Active => status'[o] = status[o]
           /\ \A o \in Ops : status[o] \in Active => status'[o] \in Terminal
<1>1. \A o \in Ops : /\ status'[o] \notin Active
                     /\ status[o] \notin Active => status'[o] = status[o]
                     /\ status[o] \in Active => status'[o] \in Terminal
  BY DEF TypeOK, Reconcile, Active, Terminal
<1>2. OneActive' /\ RowsMatch'
  BY <1>1 DEF Rows, OneActive, RowsMatch, Reconcile, TypeOK, Active, Terminal
<1>3. \A o \in Ops : run'[o] # "running"
  BY DEF Rows, PlanRunOperationAgree, Reconcile, Candidates, TypeOK
<1>4. \A p \in Plans : plan'[p] # "applying"
  <2> SUFFICES ASSUME NEW p \in Plans, plan[p] = "applying" PROVE plan'[p] = "settled"
    BY DEF Reconcile
  <2>1. PICK o \in Ops : Target[o] = p /\ run[o] = "running"
    BY DEF Rows, PlanRunOperationAgree
  <2>2. o \in Candidates
    BY <2>1 DEF Rows, PlanRunOperationAgree, Candidates
  <2> QED
    BY <2>1, <2>2 DEF Reconcile
<1>5. PlanRunOperationAgree'
  BY <1>1, <1>3, <1>4 DEF PlanRunOperationAgree, IsApply, Active
<1> QED
  BY <1>1, <1>2, <1>5 DEF Rows

LEMMA CleanupRows ==
    ASSUME TypeOK, Rows, Cleanup
    PROVE  Rows' /\ status' = status
<1>1. RowsMatch'
  BY DEF Rows, RowsMatch, Cleanup, TypeOK, Terminal, Active
<1>2. OneActive' /\ PlanRunOperationAgree'
  BY DEF Rows, OneActive, PlanRunOperationAgree, Cleanup, IsApply
<1> QED
  BY <1>1, <1>2 DEF Rows, Cleanup

\* A terminal write of an active Operation settles it and nothing else.
LEMMA FinishRows ==
    ASSUME TypeOK, Rows, NEW o \in Ops, NEW s \in Terminal, status[o] \in Active, Finish(o, s)
    PROVE  /\ Rows'
           /\ status' = [status EXCEPT ![o] = s]
<1> USE CallerKinds
<1>1. OneActive' /\ RowsMatch'
  BY DEF Rows, OneActive, RowsMatch, Finish, TypeOK, Active, Terminal
<1>2. \A x \in Ops : run'[x] = "running" <=> IsApply(x) /\ status'[x] \in Active
  BY DEF Rows, PlanRunOperationAgree, Finish, TypeOK, Active, Terminal, IsApply
<1>3. \A x \in Ops : run'[x] = "running" <=> run[x] = "running" /\ x # o
  BY DEF Rows, PlanRunOperationAgree, Finish, TypeOK, Active, Terminal, IsApply
<1>4. \A x \in Ops : run[x] = "running" => x = o
  BY DEF Rows, PlanRunOperationAgree, OneActive
<1>5. \A p \in Plans : plan'[p] # "applying"
  BY <1>4 DEF Rows, PlanRunOperationAgree, Finish, TypeOK
<1>6. PlanRunOperationAgree'
  BY <1>2, <1>3, <1>4, <1>5 DEF PlanRunOperationAgree, IsApply
<1> QED
  BY <1>1, <1>6 DEF Rows, Finish

LEMMA ReserveRows ==
    ASSUME TypeOK, Rows, NEW o \in Ops, ActiveOps = {}, status[o] = "absent", ~IsApply(o),
           NewOperation(o), UNCHANGED <<plan, run>>
    PROVE  Rows' /\ status' = [status EXCEPT ![o] = "queued"]
<1>1. OneActive' /\ RowsMatch'
  BY DEF Rows, OneActive, RowsMatch, NewOperation, ActiveOps, TypeOK, Active
<1>2. PlanRunOperationAgree'
  BY DEF Rows, PlanRunOperationAgree, NewOperation, TypeOK, Active, IsApply
<1> QED
  BY <1>1, <1>2 DEF Rows, NewOperation

LEMMA ClaimRows ==
    ASSUME TypeOK, Rows, NEW o \in Ops, ActiveOps = {}, status[o] = "absent", IsApply(o),
           NewOperation(o),
           plan' = [plan EXCEPT ![Target[o]] = "applying"],
           run' = [run EXCEPT ![o] = "running"]
    PROVE  Rows' /\ status' = [status EXCEPT ![o] = "queued"]
<1> USE CallerKinds
<1>1. OneActive' /\ RowsMatch'
  BY DEF Rows, OneActive, RowsMatch, NewOperation, ActiveOps, TypeOK, Active
<1>2. \A x \in Ops : run'[x] = "running" <=> IsApply(x) /\ status'[x] \in Active
  BY DEF Rows, PlanRunOperationAgree, NewOperation, TypeOK, Active, IsApply
<1>3. \A x \in Ops : run[x] # "running"
  BY DEF Rows, PlanRunOperationAgree, ActiveOps
<1>4. \A p \in Plans : plan'[p] = "applying" <=> p = Target[o]
  BY <1>3 DEF Rows, PlanRunOperationAgree, TypeOK
<1>5. \A x \in Ops : run'[x] = "running" <=> x = o
  BY <1>3 DEF TypeOK
<1>6. PlanRunOperationAgree'
  BY <1>2, <1>4, <1>5 DEF PlanRunOperationAgree, IsApply
<1> QED
  BY <1>1, <1>6 DEF Rows, NewOperation

-----------------------------------------------------------------------------
(* Each step preserves the invariant.                                      *)

LEMMA RowsUnchanged ==
    ASSUME Rows, UNCHANGED database
    PROVE  Rows'
BY DEF Rows, OneActive, RowsMatch, PlanRunOperationAgree, IsApply, database

LEMMA CallerStepInv ==
    ASSUME IInv, NEW c \in Callers, CallerStep(c)
    PROVE  Threads' /\ Rows'
<1> USE CallerKinds DEF Goto, Reply, execution, database, HoldingPcs, Executing
<1> DEFINE Inv == TypeOK /\ Ownership /\ Untouched /\ Rows
<1>0. Inv
  BY DEF IInv, Threads
<1>1. CASE Arrive(c) \/ Invoke(c) \/ Contended(c) \/ Recheck(c) \/ Reject(c) \/ Refuse(c)
  <2>1. Ownership' /\ Untouched'
    BY <1>0, <1>1 DEF Ownership, Untouched, TypeOK, Arrive, Invoke, Contended, Recheck, Reject, Refuse
  <2>2. UNCHANGED database
    BY <1>1 DEF Arrive, Invoke, Contended, Recheck, Reject, Refuse
  <2> QED
    BY <1>0, <2>1, <2>2, RowsUnchanged DEF Threads
<1>2. CASE TryLock(c)
  <2>1. Ownership' /\ Untouched'
    BY <1>0, <1>2 DEF Ownership, Untouched, TypeOK, TryLock
  <2> QED
    BY <1>0, <1>2, <2>1, RowsUnchanged DEF Threads, TryLock
<1>3. CASE CallerReconciles(c)
  <2>1. /\ Rows'
        /\ \A o \in Ops : status'[o] \notin Active
        /\ \A o \in Ops : status[o] \notin Active => status'[o] = status[o]
    BY <1>0, <1>3, ReconcileRows DEF CallerReconciles
  <2>2. Ownership' /\ Untouched'
    BY <1>0, <1>3, <2>1 DEF Ownership, Untouched, TypeOK, CallerReconciles, Active
  <2> QED
    BY <2>1, <2>2 DEF Threads
<1>4. CASE CallerCleansUp(c)
  <2>1. Rows' /\ status' = status
    BY <1>0, <1>4, CleanupRows DEF CallerCleansUp
  <2>2. Ownership' /\ Untouched'
    BY <1>0, <1>4, <2>1 DEF Ownership, Untouched, TypeOK, CallerCleansUp
  <2> QED
    BY <2>1, <2>2 DEF Threads
<1>5. CASE Reserve(c) \/ Claim(c)
  <2>1. c \in Ops /\ pc[c] = "reserve" /\ status[c] = "absent" /\ ActiveOps = {}
    BY <1>0, <1>5 DEF Reserve, Claim, Untouched, Admissible
  <2>2. Rows' /\ status' = [status EXCEPT ![c] = "queued"]
    BY <1>0, <1>5, <2>1, ReserveRows, ClaimRows DEF Reserve, Claim
  <2>3. UNCHANGED <<lock, sup, thread>>
    BY <1>5 DEF Reserve, Claim
  <2>4. Accepted(c)
    BY <1>5 DEF Reserve, Claim
  <2>5. \A o \in Ops : status[o] \notin Active
    BY <2>1 DEF ActiveOps
  <2>6. Ownership' /\ Untouched'
    BY <1>0, <2>1, <2>2, <2>3, <2>4, <2>5 DEF Ownership, Untouched, TypeOK, Accepted, Active
  <2> QED
    BY <2>2, <2>6 DEF Threads
<1>6. CASE ExpirePlan(c) \/ Cancel(c)
  <2>1. Ownership' /\ Untouched'
    BY <1>0, <1>6 DEF Ownership, Untouched, TypeOK, ExpirePlan, Cancel
  <2>2. /\ UNCHANGED <<status, row, run>>
        /\ \A p \in Plans : plan'[p] = "applying" <=> plan[p] = "applying"
    BY <1>0, <1>6 DEF ExpirePlan, Cancel, TypeOK
  <2>3. Rows'
    BY <1>0, <2>2 DEF Rows, OneActive, RowsMatch, PlanRunOperationAgree, IsApply
  <2> QED
    BY <2>1, <2>3 DEF Threads
<1>7. CASE Submit(c) \/ SubmitRaises(c)
  <2>1. c \in Ops /\ lock = c /\ status[c] = "queued" /\ exec[c] = "none"
    <3>1. pc[c] = "submit"
      BY <1>7 DEF Submit, SubmitRaises
    <3>2. c \in Ops
      BY <1>0, <1>7, <3>1 DEF Submit, SubmitRaises, TypeOK
    <3> QED
      BY <1>0, <3>1, <3>2 DEF Ownership, Untouched
  <2>2. \A o \in Ops : status[o] \in Active => o = c
    BY <1>0, <2>1 DEF Rows, OneActive, Active
  <2>3. Ownership' /\ Untouched'
    BY <1>0, <1>7, <2>1, <2>2 DEF Ownership, Untouched, TypeOK, Submit, SubmitRaises
  <2>4. UNCHANGED database
    BY <1>7 DEF Submit, SubmitRaises
  <2> QED
    BY <1>0, <2>3, <2>4, RowsUnchanged DEF Threads
<1>8. CASE Undispatch(c)
  <2>1. /\ Rows'
        /\ \A o \in Ops : status'[o] \notin Active
        /\ \A o \in Ops : status[o] \notin Active => status'[o] = status[o]
    BY <1>0, <1>8, ReconcileRows DEF Undispatch
  <2>2. Ownership' /\ Untouched'
    BY <1>0, <1>8, <2>1 DEF Ownership, Untouched, TypeOK, Undispatch, Active
  <2> QED
    BY <2>1, <2>2 DEF Threads
<1>9. CASE Release(c)
  <2>1. Ownership' /\ Untouched'
    BY <1>0, <1>9 DEF Ownership, Untouched, TypeOK, Release
  <2> QED
    BY <1>0, <1>9, <2>1, RowsUnchanged DEF Threads, Release
<1> QED
  BY <1>1, <1>2, <1>3, <1>4, <1>5, <1>6, <1>7, <1>8, <1>9 DEF CallerStep

LEMMA ExecutionStepInv ==
    ASSUME IInv, NEW o \in Ops, ExecutionStep(o)
    PROVE  Threads' /\ Rows'
<1> USE CallerKinds DEF Move, database, HoldingPcs, Executing
<1> DEFINE Inv == TypeOK /\ Ownership /\ Untouched /\ Rows
<1>0. Inv
  BY DEF IInv, Threads
<1>1. CASE TakeTask(o)
  <2>1. Ownership' /\ Untouched'
    BY <1>0, <1>1 DEF Ownership, Untouched, TypeOK, TakeTask
  <2> QED
    BY <1>0, <1>1, <2>1, RowsUnchanged DEF Threads, TakeTask
<1>2. CASE MarkRunning(o)
  <2>1. Ownership' /\ Untouched'
    BY <1>0, <1>2 DEF Ownership, Untouched, TypeOK, MarkRunning, Active
  <2>2. \A x \in Ops : /\ status'[x] \in Active <=> status[x] \in Active
                       /\ status'[x] = "absent" <=> status[x] = "absent"
    BY <1>0, <1>2 DEF MarkRunning, TypeOK, Active
  <2>3. UNCHANGED <<row, plan, run>>
    BY <1>2 DEF MarkRunning
  <2>4. Rows'
    BY <1>0, <2>2, <2>3 DEF Rows, OneActive, RowsMatch, PlanRunOperationAgree, IsApply
  <2> QED
    BY <2>1, <2>4 DEF Threads
<1>3. CASE WorkReturns(o) \/ WorkRaises(o)
  <2>1. Ownership' /\ Untouched'
    BY <1>0, <1>3 DEF Ownership, Untouched, TypeOK, WorkReturns, WorkRaises
  <2> QED
    BY <1>0, <1>3, <2>1, RowsUnchanged DEF Threads, WorkReturns, WorkRaises
<1>4. ASSUME NEW s \in Terminal, status[o] \in Active, Finish(o, s), exec[o] \in Executing,
             NEW next \in {"check", "leave"}, Move(o, next),
             UNCHANGED <<lock, sup, thread, pc>>
      PROVE  Threads' /\ Rows'
  <2>1. Rows' /\ status' = [status EXCEPT ![o] = s]
    BY <1>0, <1>4, FinishRows
  <2>2. Ownership' /\ Untouched'
    BY <1>0, <1>4, <2>1 DEF Ownership, Untouched, TypeOK, Active, Terminal
  <2> QED
    BY <2>1, <2>2 DEF Threads
<1>5. CASE WorkCommits(o)
  BY <1>4, <1>5 DEF WorkCommits, Active, Terminal
<1>6. CASE CheckFinished(o)
  <2>1. CASE status[o] = "running" /\ ~IsApply(o)
    BY <1>4, <1>6, <2>1 DEF CheckFinished, Active, Terminal
  <2>2. CASE ~(status[o] = "running" /\ ~IsApply(o))
    <3>1. Ownership' /\ Untouched'
      BY <1>0, <1>6, <2>2 DEF Ownership, Untouched, TypeOK, CheckFinished
    <3> QED
      BY <1>0, <1>6, <2>2, <3>1, RowsUnchanged DEF Threads, CheckFinished
  <2> QED
    BY <2>1, <2>2
<1>7. CASE HandleFailure(o)
  <2>1. CASE IsApply(o) /\ status[o] \in Active
    <3>1. Reconcile({o}) /\ lock = o
      BY <1>0, <1>7, <2>1 DEF HandleFailure, Ownership
    <3>2. /\ Rows'
          /\ \A x \in Ops : status'[x] \notin Active
          /\ \A x \in Ops : status[x] \notin Active => status'[x] = status[x]
          /\ \A x \in Ops : status[x] \in Active => status'[x] \in Terminal
      BY <1>0, <3>1, ReconcileRows
    <3>3. Ownership' /\ Untouched'
      BY <1>0, <1>7, <3>1, <3>2 DEF Ownership, Untouched, TypeOK, HandleFailure, Active, Terminal
    <3> QED
      BY <3>2, <3>3 DEF Threads
  <2>2. CASE ~IsApply(o) /\ status[o] = "running"
    BY <1>4, <1>7, <2>2 DEF HandleFailure, Active, Terminal
  <2>3. CASE ~(IsApply(o) /\ status[o] \in Active) /\ ~(~IsApply(o) /\ status[o] = "running")
    <3>1. Ownership' /\ Untouched'
      BY <1>0, <1>7, <2>3 DEF Ownership, Untouched, TypeOK, HandleFailure
    <3> QED
      BY <1>0, <1>7, <2>3, <3>1, RowsUnchanged DEF Threads, HandleFailure
  <2> QED
    BY <2>1, <2>2, <2>3
<1>8. CASE Leave(o)
  <2>1. Ownership' /\ Untouched'
    BY <1>0, <1>8 DEF Ownership, Untouched, TypeOK, Leave, Goto
  <2> QED
    BY <1>0, <1>8, <2>1, RowsUnchanged DEF Threads, Leave
<1> QED
  BY <1>1, <1>2, <1>3, <1>5, <1>6, <1>7, <1>8 DEF ExecutionStep

LEMMA SupervisorStepInv ==
    ASSUME IInv, SupervisorStep
    PROVE  Threads' /\ Rows'
<1> USE CallerKinds DEF PassEnds, execution, database, HoldingPcs, Executing
<1> DEFINE Inv == TypeOK /\ Ownership /\ Untouched /\ Rows
<1>0. Inv
  BY DEF IInv, Threads
<1>1. CASE SupervisorTries \/ SupervisorReleases \/ SupervisorWakes
  <2>1. Ownership' /\ Untouched'
    BY <1>0, <1>1 DEF Ownership, Untouched, TypeOK, SupervisorTries, SupervisorReleases, SupervisorWakes
  <2> QED
    BY <1>0, <1>1, <2>1, RowsUnchanged DEF Threads, SupervisorTries, SupervisorReleases, SupervisorWakes
<1>2. CASE SupervisorReconciles
  <2>1. /\ Rows'
        /\ \A o \in Ops : status'[o] \notin Active
        /\ \A o \in Ops : status[o] \notin Active => status'[o] = status[o]
    BY <1>0, <1>2, ReconcileRows DEF SupervisorReconciles
  <2>2. Ownership' /\ Untouched'
    BY <1>0, <1>2, <2>1 DEF Ownership, Untouched, TypeOK, SupervisorReconciles, Active
  <2> QED
    BY <2>1, <2>2 DEF Threads
<1>3. CASE SupervisorCleansUp
  <2>1. Rows' /\ status' = status
    BY <1>0, <1>3, CleanupRows DEF SupervisorCleansUp
  <2>2. Ownership' /\ Untouched'
    BY <1>0, <1>3, <2>1 DEF Ownership, Untouched, TypeOK, SupervisorCleansUp
  <2> QED
    BY <2>1, <2>2 DEF Threads
<1> QED
  BY <1>1, <1>2, <1>3 DEF SupervisorStep

LEMMA EnvironmentInv ==
    ASSUME IInv, Environment
    PROVE  Threads' /\ Rows'
<1> USE CallerKinds DEF execution, database, HoldingPcs, Executing
<1> DEFINE Inv == TypeOK /\ Ownership /\ Untouched /\ Rows
<1>0. Inv
  BY DEF IInv, Threads
<1>1. CASE StartWeb \/ Close \/ SupervisorFails
  <2>1. Ownership' /\ Untouched'
    BY <1>0, <1>1 DEF Ownership, Untouched, TypeOK, StartWeb, Close, SupervisorFails
  <2> QED
    BY <1>0, <1>1, <2>1, RowsUnchanged DEF Threads, StartWeb, Close, SupervisorFails
<1>2. CASE Exit
  <2>1. Ownership' /\ Untouched'
    BY <1>0, <1>2 DEF Ownership, Untouched, TypeOK, Exit, Lose, WebCallers, Ops
  <2> QED
    BY <1>0, <1>2, <2>1, RowsUnchanged DEF Threads, Exit
<1>3. CASE CrashWeb
  <2>1. Ownership' /\ Untouched'
    BY <1>0, <1>3 DEF Ownership, Untouched, TypeOK, CrashWeb, Lose, WebCallers
  <2> QED
    BY <1>0, <1>3, <2>1, RowsUnchanged DEF Threads, CrashWeb
<1>4. ASSUME NEW c \in Callers, CallerFails(c) \/ CrashCommand(c)
      PROVE  Threads' /\ Rows'
  <2>1. Ownership' /\ Untouched'
    BY <1>0, <1>4 DEF Ownership, Untouched, TypeOK, CallerFails, CrashCommand, Lose, Reply, Goto
  <2> QED
    BY <1>0, <1>4, <2>1, RowsUnchanged DEF Threads, CallerFails, CrashCommand
<1>5. ASSUME NEW o \in Ops, ExecutionFails(o)
      PROVE  Threads' /\ Rows'
  <2>1. Ownership' /\ Untouched'
    BY <1>0, <1>5 DEF Ownership, Untouched, TypeOK, ExecutionFails, Move
  <2> QED
    BY <1>0, <1>5, <2>1, RowsUnchanged DEF Threads, ExecutionFails
<1>6. ASSUME NEW o \in Ops, Elapse(o)
      PROVE  Threads' /\ Rows'
  <2>1. Ownership' /\ Untouched'
    BY <1>0, <1>6 DEF Ownership, Untouched, TypeOK, Elapse
  <2>2. Rows'
    BY <1>0, <1>6 DEF Rows, OneActive, RowsMatch, PlanRunOperationAgree, IsApply, Elapse
  <2> QED
    BY <2>1, <2>2 DEF Threads
<1> QED
  BY <1>1, <1>2, <1>3, <1>4, <1>5, <1>6 DEF Environment

LEMMA InitIInv == Init => IInv
<1> SUFFICES ASSUME Init PROVE IInv
  OBVIOUS
<1> USE CallerKinds
<1>1. Threads
  BY DEF Init, Threads, Ownership, Untouched, HoldingPcs, Executing
<1>2. Rows
  BY DEF Init, Rows, OneActive, RowsMatch, PlanRunOperationAgree, Active
<1> QED
  BY <1>1, <1>2, InitTypeOK DEF IInv

LEMMA NextIInv == IInv /\ [Next]_vars => IInv'
<1> SUFFICES ASSUME IInv, [Next]_vars PROVE IInv'
  OBVIOUS
<1>1. CASE Next
  <2>1. TypeOK'
    BY <1>1, CallerStepType, ExecutionStepType, SupervisorStepType, EnvironmentType DEF Next, IInv
  <2>2. Threads' /\ Rows'
    BY <1>1, CallerStepInv, ExecutionStepInv, SupervisorStepInv, EnvironmentInv DEF Next
  <2> QED
    BY <2>1, <2>2 DEF IInv
<1>2. CASE UNCHANGED vars
  BY <1>2 DEF vars, IInv, TypeOK, Threads, Ownership, Untouched, Rows, OneActive, RowsMatch,
              PlanRunOperationAgree, IsApply
<1> QED
  BY <1>1, <1>2

LEMMA Inductive == Spec => []IInv
BY InitIInv, NextIInv, PTL DEF Spec

-----------------------------------------------------------------------------
(* The theorems.                                                           *)

\* At most one Operation's work runs in all processes, under the lock and for a
\* running Operation (operation_composition.py, _run and run_inline).
THEOREM WorkIsExclusive == Spec => []ExclusiveWork
<1>1. IInv => ExclusiveWork
  BY DEF IInv, Threads, Ownership, ExclusiveWork, Executing, Active
<1> QED
  BY <1>1, Inductive, PTL

\* Plan, Run and Apply Operation open and settle together (claim_apply.py,
\* apply_plan.py _finish_apply, reconcile_operations.py).
THEOREM PlanRunOperationStayTogether == Spec => []PlanRunOperationAgree
<1>1. IInv => PlanRunOperationAgree
  BY DEF IInv, Rows
<1> QED
  BY <1>1, Inductive, PTL

-----------------------------------------------------------------------------
(* Refinement: every step is a step of the ledger or leaves it unchanged.  *)

Stutter == UNCHANGED <<status, row, plan, run>>

LEMMA ReconcileRefines ==
    ASSUME IInv, NEW failed, Reconcile(failed)
    PROVE  Ledger!LedgerNext \/ Stutter
<1> USE CallerKinds
<1>0. /\ TypeOK /\ OneActive /\ PlanRunOperationAgree
      /\ row' = row
  BY DEF IInv, Rows, Reconcile
<1>1. CASE \A o \in Ops : status[o] \notin Active
  <2>1. status' = status
    BY <1>0, <1>1 DEF Reconcile, TypeOK
  <2>2. \A o \in Ops : run[o] # "running"
    BY <1>0, <1>1 DEF PlanRunOperationAgree
  <2>3. \A p \in Plans : plan[p] # "applying"
    BY <1>0, <2>2 DEF PlanRunOperationAgree
  <2>4. run' = run /\ plan' = plan
    BY <1>0, <2>2, <2>3 DEF Reconcile, TypeOK
  <2> QED
    BY <1>0, <2>1, <2>4 DEF Stutter
<1>2. ASSUME NEW o \in Ops, status[o] \in Active
      PROVE  Ledger!Settle(o)
  <2>1. \A x \in Ops : status[x] \in Active <=> x = o
    BY <1>0, <1>2 DEF OneActive
  <2>2. \E s \in Terminal : status' = [status EXCEPT ![o] = s]
    <3>1. status'[o] \in Terminal
      BY <1>2 DEF Reconcile, Terminal
    <3>2. status' = [status EXCEPT ![o] = status'[o]]
      <4>1. \A x \in Ops : x # o => status'[x] = status[x]
        BY <2>1 DEF Reconcile
      <4>2. status' = [x \in Ops |-> status'[x]]
        BY DEF Reconcile
      <4> QED
        BY <1>0, <4>1, <4>2 DEF TypeOK
    <3>3. PICK s \in Terminal : s = status'[o]
      BY <3>1
    <3>4. status' = [status EXCEPT ![o] = s]
      BY <3>2, <3>3
    <3> QED
      BY <3>4
  <2>3. \A x \in Ops : run[x] = "running" => x = o
    BY <1>0, <2>1 DEF PlanRunOperationAgree
  <2>4. o \in Candidates
    BY <1>2 DEF Candidates
  <2>5. run' = [run EXCEPT ![o] = IF @ = "running" THEN "settled" ELSE @]
    <3>1. run' = [x \in Ops |-> IF x \in Candidates /\ run[x] = "running" THEN "settled" ELSE run[x]]
      BY DEF Reconcile
    <3>2. \A x \in Ops : x \in Candidates /\ run[x] = "running" <=> x = o /\ run[x] = "running"
      BY <2>3, <2>4
    <3> QED
      BY <1>0, <3>1, <3>2 DEF TypeOK
  <2>6. \A p \in Plans : plan[p] = "applying" <=> p = Target[o] /\ run[o] = "running"
    BY <1>0, <2>3 DEF PlanRunOperationAgree
  <2>7. plan' = [p \in Plans |-> IF p = Target[o] /\ plan[p] = "applying" THEN "settled" ELSE plan[p]]
    BY <1>0, <2>4, <2>6 DEF Reconcile, TypeOK
  <2> QED
    BY <1>0, <1>2, <2>2, <2>5, <2>7 DEF Ledger!Settle, Ledger!Active, Ledger!Terminal, Active, Terminal
<1> QED
  BY <1>1, <1>2 DEF Ledger!LedgerNext

LEMMA FinishRefines ==
    ASSUME IInv, NEW o \in Ops, NEW s \in Terminal, status[o] \in Active, Finish(o, s)
    PROVE  Ledger!Settle(o)
<1> USE CallerKinds
<1>1. TypeOK /\ PlanRunOperationAgree
  BY DEF IInv, Rows
<1>2. Target[o] \in Plans => run[o] = "running" /\ plan[Target[o]] = "applying"
  BY <1>1 DEF PlanRunOperationAgree, IsApply
<1>3. plan' = [p \in Plans |-> IF p = Target[o] /\ plan[p] = "applying" THEN "settled" ELSE plan[p]]
  BY <1>1, <1>2 DEF Finish, TypeOK
<1>4. run[o] = "running" <=> IsApply(o)
  BY <1>1 DEF PlanRunOperationAgree
<1>5. run' = [run EXCEPT ![o] = IF @ = "running" THEN "settled" ELSE @]
  BY <1>1, <1>4 DEF Finish, TypeOK
<1> QED
  BY <1>3, <1>5 DEF Finish, Ledger!Settle, Ledger!Active, Ledger!Terminal, Active, Terminal

LEMMA CleanupRefines ==
    ASSUME IInv, Cleanup
    PROVE  Ledger!LedgerNext
<1>1. TypeOK /\ RowsMatch
  BY DEF IInv, Rows
<1>2. row' \in [Ops -> {"absent", "full", "tombstone", "purged"}]
  BY <1>1, CleanupType
<1>3. ASSUME NEW o \in Ops
      PROVE  \/ row'[o] = row[o]
             \/ /\ status[o] \in Terminal
                /\ \/ row[o] = "full" /\ row'[o] \in {"tombstone", "purged"}
                   \/ row[o] = "tombstone" /\ row'[o] = "purged"
  <2>1. CASE status[o] \notin Terminal \/ row[o] = "purged" \/ age[o] = 0
    BY <2>1 DEF Cleanup
  <2>2. CASE ~(status[o] \notin Terminal \/ row[o] = "purged" \/ age[o] = 0)
    <3>1. row[o] \in {"full", "tombstone"}
      BY <1>1, <2>2 DEF RowsMatch, TypeOK, Terminal
    <3>2. row'[o] = IF age[o] = 1 THEN "tombstone" ELSE "purged"
      BY <2>2 DEF Cleanup
    <3> QED
      BY <2>2, <3>1, <3>2
  <2> QED
    BY <2>1, <2>2
<1> QED
  BY <1>2, <1>3 DEF Cleanup, Ledger!LedgerNext, Ledger!Forget, Ledger!Terminal, Terminal

LEMMA CallerRefines ==
    ASSUME IInv, NEW c \in Callers, CallerStep(c)
    PROVE  Ledger!LedgerNext \/ Stutter
<1> USE CallerKinds
<1>1. CASE \/ Arrive(c) \/ Invoke(c) \/ TryLock(c) \/ Contended(c) \/ Recheck(c) \/ Reject(c)
           \/ Refuse(c) \/ Submit(c) \/ SubmitRaises(c) \/ Release(c)
  BY <1>1 DEF Arrive, Invoke, TryLock, Contended, Recheck, Reject, Refuse, Submit,
              SubmitRaises, Release, database, Stutter
<1>2. CASE CallerReconciles(c) \/ Undispatch(c)
  BY <1>2, ReconcileRefines DEF CallerReconciles, Undispatch
<1>3. CASE CallerCleansUp(c)
  BY <1>3, CleanupRefines DEF CallerCleansUp
<1>4. CASE Reserve(c) \/ Claim(c)
  <2>1. c \in Ops /\ pc[c] = "reserve" /\ Admissible(c) /\ NewOperation(c)
    BY <1>4 DEF Reserve, Claim
  <2>2. status[c] = "absent"
    BY <2>1 DEF IInv, Threads, Untouched
  <2>3. \A x \in Ops : status[x] \notin Active
    BY <2>1 DEF Admissible, ActiveOps
  <2>4. \A x \in Ops : row[x] \in {"full", "tombstone"} => Key[x] # Key[c]
    BY <2>1 DEF Admissible, Retained
  <2>5. \/ Target[c] = NoPlan /\ UNCHANGED <<plan, run>>
        \/ /\ Target[c] # NoPlan /\ plan[Target[c]] = "ready"
           /\ plan' = [plan EXCEPT ![Target[c]] = "applying"]
           /\ run' = [run EXCEPT ![c] = "running"]
    BY <1>4 DEF Reserve, Claim, IsApply
  <2>6. Ledger!Accept(c)
    BY <2>1, <2>2, <2>3, <2>4, <2>5 DEF Ledger!Accept, Ledger!Active, Ledger!Retained,
       NewOperation, Active
  <2> QED
    BY <2>1, <2>6 DEF Ledger!LedgerNext
<1>5. CASE ExpirePlan(c) \/ Cancel(c)
  <2>1. Target[c] \in Plans \/ Stutter
    BY <1>5, CallersAssumption DEF ExpirePlan, Cancel, IsApply, Stutter
  <2>2. Ledger!Withdraw(Target[c]) \/ Stutter
    BY <1>5 DEF ExpirePlan, Cancel, Ledger!Withdraw, Stutter
  <2> QED
    BY <2>1, <2>2 DEF Ledger!LedgerNext
<1> QED
  BY <1>1, <1>2, <1>3, <1>4, <1>5 DEF CallerStep

LEMMA ExecutionRefines ==
    ASSUME IInv, NEW o \in Ops, ExecutionStep(o)
    PROVE  Ledger!LedgerNext \/ Stutter
<1>1. CASE TakeTask(o) \/ WorkReturns(o) \/ WorkRaises(o) \/ Leave(o)
  BY <1>1 DEF TakeTask, WorkReturns, WorkRaises, Leave, database, Stutter
<1>2. CASE MarkRunning(o)
  <2>1. Ledger!StartWork(o) \/ Stutter
    BY <1>2 DEF MarkRunning, Ledger!StartWork, Stutter
  <2> QED
    BY <2>1 DEF Ledger!LedgerNext
<1>3. ASSUME NEW s \in Terminal, status[o] \in Active, Finish(o, s)
      PROVE  Ledger!LedgerNext
  BY <1>3, FinishRefines DEF Ledger!LedgerNext
<1>4. CASE WorkCommits(o)
  BY <1>3, <1>4 DEF WorkCommits, Active, Terminal
<1>5. CASE CheckFinished(o)
  <2>1. CASE status[o] = "running" /\ ~IsApply(o)
    BY <1>3, <1>5, <2>1 DEF CheckFinished, Active, Terminal
  <2>2. CASE ~(status[o] = "running" /\ ~IsApply(o))
    BY <1>5, <2>2 DEF CheckFinished, database, Stutter
  <2> QED
    BY <2>1, <2>2
<1>6. CASE HandleFailure(o)
  <2>1. CASE IsApply(o) /\ status[o] \in Active
    BY <1>6, <2>1, ReconcileRefines DEF HandleFailure
  <2>2. CASE ~IsApply(o) /\ status[o] = "running"
    BY <1>3, <1>6, <2>2 DEF HandleFailure, Active, Terminal
  <2>3. CASE ~(IsApply(o) /\ status[o] \in Active) /\ ~(~IsApply(o) /\ status[o] = "running")
    BY <1>6, <2>3 DEF HandleFailure, database, Stutter
  <2> QED
    BY <2>1, <2>2, <2>3
<1> QED
  BY <1>1, <1>2, <1>4, <1>5, <1>6 DEF ExecutionStep

LEMMA SupervisorRefines ==
    ASSUME IInv, SupervisorStep
    PROVE  Ledger!LedgerNext \/ Stutter
<1>1. CASE SupervisorTries \/ SupervisorReleases \/ SupervisorWakes
  BY <1>1 DEF SupervisorTries, SupervisorReleases, SupervisorWakes, database, Stutter
<1>2. CASE SupervisorReconciles
  BY <1>2, ReconcileRefines DEF SupervisorReconciles
<1>3. CASE SupervisorCleansUp
  BY <1>3, CleanupRefines DEF SupervisorCleansUp
<1> QED
  BY <1>1, <1>2, <1>3 DEF SupervisorStep

LEMMA EnvironmentRefines == ASSUME Environment PROVE Stutter
BY DEF Environment, StartWeb, Close, Exit, CrashWeb, SupervisorFails, CallerFails, CrashCommand,
       ExecutionFails, Elapse, database, Stutter

LEMMA NextRefines ==
    ASSUME IInv, [Next]_vars
    PROVE  Ledger!LedgerNext \/ Stutter
<1>1. CASE Next
  BY <1>1, CallerRefines, ExecutionRefines, SupervisorRefines, EnvironmentRefines DEF Next
<1>2. CASE UNCHANGED vars
  BY <1>2 DEF vars, Stutter
<1> QED
  BY <1>1, <1>2

\* The runtime's transactions, whatever the interleaving of callers, workers and
\* supervisor and wherever a process dies, implement the abstract ledger.
THEOREM ImplementsLedger == Spec => LedgerSpec
<1>1. Init => Ledger!LedgerInit
  BY DEF Init, Ledger!LedgerInit
<1>2. IInv /\ [Next]_vars => [Ledger!LedgerNext]_(Ledger!ledgerVars)
  BY NextRefines DEF Stutter, Ledger!ledgerVars
<1> QED
  BY <1>1, <1>2, Inductive, PTL DEF Spec, LedgerSpec, Ledger!LedgerSpec

-----------------------------------------------------------------------------
(* Idempotency keys.                                                       *)

KeysDistinct ==
    \A o1, o2 \in Ops :
        /\ Key[o1] = Key[o2]
        /\ row[o1] \in {"full", "tombstone"} /\ row[o2] \in {"full", "tombstone"}
        => o1 = o2

WorkedExist == \A o \in worked : o \in Ops /\ status[o] # "absent"

\* Every step of the ledger keeps the keys of retained rows distinct.
LEMMA KeysStayDistinct ==
    ASSUME TypeOK, KeysDistinct, Ledger!LedgerNext \/ Stutter
    PROVE  KeysDistinct'
<1>1. ASSUME NEW o \in Ops, Ledger!Accept(o)
      PROVE  KeysDistinct'
  BY <1>1 DEF KeysDistinct, Ledger!Accept, Ledger!Retained, TypeOK
<1>2. ASSUME NEW o \in Ops, Ledger!StartWork(o) \/ Ledger!Settle(o)
      PROVE  KeysDistinct'
  BY <1>2 DEF KeysDistinct, Ledger!StartWork, Ledger!Settle
<1>3. CASE Ledger!Forget
  BY <1>3 DEF KeysDistinct, Ledger!Forget
<1>4. ASSUME NEW p \in Plans, Ledger!Withdraw(p)
      PROVE  KeysDistinct'
  BY <1>4 DEF KeysDistinct, Ledger!Withdraw
<1>5. CASE Stutter
  BY <1>5 DEF KeysDistinct, Stutter
<1> QED
  BY <1>1, <1>2, <1>3, <1>4, <1>5 DEF Ledger!LedgerNext

\* A status never goes back to absent.
LEMMA StatusStays ==
    ASSUME TypeOK, Ledger!LedgerNext \/ Stutter, NEW o \in Ops, status[o] # "absent"
    PROVE  status'[o] # "absent"
<1>1. ASSUME NEW x \in Ops, Ledger!Accept(x) \/ Ledger!StartWork(x)
      PROVE  status'[o] # "absent"
  BY <1>1 DEF Ledger!Accept, Ledger!StartWork, TypeOK
<1>2. ASSUME NEW x \in Ops, Ledger!Settle(x)
      PROVE  status'[o] # "absent"
  BY <1>2 DEF Ledger!Settle, Ledger!Terminal, TypeOK
<1>3. CASE Ledger!Forget \/ (\E p \in Plans : Ledger!Withdraw(p)) \/ Stutter
  BY <1>3 DEF Ledger!Forget, Ledger!Withdraw, Stutter
<1> QED
  BY <1>1, <1>2, <1>3 DEF Ledger!LedgerNext

\* Work is entered only by MarkRunning, for an Operation that exists.
LEMMA WorkedGrows ==
    ASSUME IInv, [Next]_vars
    PROVE  \A o \in worked' : o \in worked \/ (o \in Ops /\ status[o] # "absent")
<1>1. CASE UNCHANGED vars
  BY <1>1 DEF vars
<1>2. ASSUME NEW o \in Ops, ExecutionStep(o)
      PROVE  \A x \in worked' : x \in worked \/ (x \in Ops /\ status[x] # "absent")
  BY <1>2 DEF ExecutionStep, TakeTask, MarkRunning, WorkCommits, WorkReturns, WorkRaises,
              CheckFinished, HandleFailure, Leave
<1>3. ASSUME NEW c \in Callers, CallerStep(c)
      PROVE  worked' = worked
  BY <1>3 DEF CallerStep, execution, Arrive, Invoke, TryLock, Contended, Recheck, CallerReconciles,
              CallerCleansUp, Reject, Refuse, Reserve, Claim, ExpirePlan, Cancel, Submit,
              SubmitRaises, Undispatch, Release
<1>4. CASE SupervisorStep
  BY <1>4 DEF SupervisorStep, execution, SupervisorTries, SupervisorReconciles,
              SupervisorCleansUp, SupervisorReleases, SupervisorWakes
<1>5. CASE Environment
  BY <1>5 DEF Environment, execution, StartWeb, Close, Exit, CrashWeb, SupervisorFails,
              CallerFails, CrashCommand, ExecutionFails, Elapse
<1> QED
  BY <1>1, <1>2, <1>3, <1>4, <1>5 DEF Next

\* A retried request works at most once while its Operation's row is retained
\* (reserve_operation.py and claim_apply.py look the key up before they write).
THEOREM RequestKeyWorksOnce == Spec => []KeyWorksOnce
<1> DEFINE KInv == KeysDistinct /\ WorkedExist
<1>1. Init => KInv
  BY DEF Init, KeysDistinct, WorkedExist
<1>2. IInv /\ KInv /\ [Next]_vars => KInv'
  <2> SUFFICES ASSUME IInv, KInv, [Next]_vars PROVE KInv'
    OBVIOUS
  <2>1. TypeOK /\ (Ledger!LedgerNext \/ Stutter)
    BY NextRefines DEF IInv
  <2>2. KeysDistinct'
    BY <2>1, KeysStayDistinct
  <2>3. WorkedExist'
    BY <2>1, WorkedGrows, StatusStays DEF WorkedExist
  <2> QED
    BY <2>2, <2>3
<1>3. IInv /\ KInv => KeyWorksOnce
  <2> SUFFICES ASSUME IInv, KInv, NEW o1 \in worked, NEW o2 \in worked, o1 # o2, Key[o1] = Key[o2]
               PROVE  row[o1] = "purged" \/ row[o2] = "purged"
    BY DEF KeyWorksOnce
  <2>1. row[o1] # "absent" /\ row[o2] # "absent" /\ o1 \in Ops /\ o2 \in Ops
    BY DEF IInv, Rows, RowsMatch, WorkedExist
  <2> QED
    BY <2>1 DEF KeysDistinct, IInv, TypeOK
<1> QED
  BY <1>1, <1>2, <1>3, Inductive, PTL DEF Spec
=============================================================================
