--------------------------- MODULE OperationRuntime ---------------------------
(***************************************************************************)
(* The durable Operation runtime of omym2: one Web process whose request   *)
(* threads hand accepted Operations to a one-slot executor, CLI processes  *)
(* that execute their Operation inline, the cross-process exclusive lock   *)
(* they compete for, the SQLite rows they share, and the reconciliation    *)
(* that interrupts Operations whose executor is gone.                      *)
(*                                                                         *)
(* One step of the model is one SQLite transaction or one lock or thread   *)
(* event; every transaction may fail and every process may die between two *)
(* steps. The Operation created by a caller is named after the caller,     *)
(* which runs once: a retry is another caller with the same key. The lock  *)
(* is owned through an ExitStack that moves from the request thread to the *)
(* executor task, so its owner is named after the caller as well.          *)
(***************************************************************************)
EXTENDS Naturals, FiniteSets

CONSTANTS
    Starts,     \* Web requests that start an Operation (accept, accept_apply)
    Commands,   \* CLI invocations (run_inline, run_inline_apply)
    Cancels,    \* Web requests that cancel a Plan (execute_exclusive)
    Plans,      \* Plans, each ready at first
    NoPlan,     \* target of a caller whose Operation creates a Plan or a Check
    Target,     \* the Plan a caller applies or cancels, or NoPlan
    Key,        \* the idempotency key of a caller's Operation
    MaxFaults   \* bound on crashes, shutdowns and failing transactions

Ops        == Starts \cup Commands
WebCallers == Starts \cup Cancels
Callers    == Ops \cup Cancels

ASSUME CallersAssumption ==
    /\ Starts \cap Commands = {} /\ Starts \cap Cancels = {} /\ Commands \cap Cancels = {}
    /\ "free" \notin Callers /\ "supervisor" \notin Callers
    /\ NoPlan \notin Plans
    /\ \A c \in Callers : Target[c] \in Plans \cup {NoPlan}
    /\ \A c \in Cancels : Target[c] # NoPlan
    /\ MaxFaults \in Nat

\* new_uuid7() gives every CLI invocation a key of its own.
ASSUME FreshKeyAssumption ==
    \A c \in Commands, o \in Ops : Key[c] = Key[o] => c = o

VARIABLES
    lock,       \* holder of the exclusive operation lock, or "free"
    web,        \* life of the Web process: "down", "starting", "up", "closing"
    thread,     \* TRUE once the executor has started its worker thread
    sup,        \* program counter of the reconciliation supervisor
    pc,         \* pc[c]: program counter of a caller
    answer,     \* answer[c]: what the caller was told
    exec,       \* exec[o]: where the execution of an Operation's work stands
    worked,     \* Operations whose work was ever entered (history)
    status,     \* status[o]: operations.status, "absent" before the row exists
    row,        \* row[o]: "absent", "full", "tombstone", "purged"
    age,        \* age[o]: retention deadlines (result, tombstone) that have passed
    plan,       \* plan[p]: plans.status, "settled" standing for every Apply outcome
    run,        \* run[o]: status of the Run created by the claim of Operation o
    faults      \* crashes, shutdowns and failures so far

database  == <<status, row, age, plan, run>>
execution == <<thread, exec, worked>>
vars == <<lock, web, thread, sup, pc, answer, exec, worked,
          status, row, age, plan, run, faults>>

Active   == {"queued", "running"}
Terminal == {"succeeded", "failed", "interrupted"}
IsApply(o) == Target[o] # NoPlan

\* Pcs at which a caller itself owns the lock, and executions under way.
HoldingPcs == {"reconcile", "cleanup", "reserve", "submit", "undispatch", "inline", "release"}
Executing  == {"mark", "work", "check", "fail", "leave"}

TypeOK ==
    /\ lock \in Callers \cup {"free", "supervisor"}
    /\ web \in {"down", "starting", "up", "closing"}
    /\ thread \in BOOLEAN
    /\ sup \in {"off", "try", "reconcile", "cleanup", "release", "wait"}
    /\ pc \in [Callers -> {"idle", "lock", "contended", "recheck", "done", "lost"} \cup HoldingPcs]
    /\ answer \in [Callers -> {"none", "accepted", "replayed", "key_reused", "busy",
                               "not_ready", "expired", "rejected", "cancelled", "failed"}]
    /\ exec \in [Ops -> {"none", "waiting", "ended"} \cup Executing]
    /\ worked \in SUBSET Ops
    /\ status \in [Ops -> {"absent"} \cup Active \cup Terminal]
    /\ row \in [Ops -> {"absent", "full", "tombstone", "purged"}]
    /\ age \in [Ops -> 0 .. 2]
    /\ plan \in [Plans -> {"ready", "applying", "settled", "cancelled", "expired"}]
    /\ run \in [Ops -> {"none", "running", "settled"}]
    /\ faults \in 0 .. MaxFaults

Init ==
    /\ lock = "free"
    /\ web = "down"
    /\ thread = FALSE
    /\ sup = "off"
    /\ pc = [c \in Callers |-> "idle"]
    /\ answer = [c \in Callers |-> "none"]
    /\ exec = [o \in Ops |-> "none"]
    /\ worked = {}
    /\ status = [o \in Ops |-> "absent"]
    /\ row = [o \in Ops |-> "absent"]
    /\ age = [o \in Ops |-> 0]
    /\ plan = [p \in Plans |-> "ready"]
    /\ run = [o \in Ops |-> "none"]
    /\ faults = 0

-----------------------------------------------------------------------------
(* The repository transactions.                                            *)

\* Rows an idempotency-key lookup can still find.
Retained(k) == {o \in Ops : Key[o] = k /\ row[o] \in {"full", "tombstone"}}

ActiveOps == {o \in Ops : status[o] \in Active}

\* list_reconciliation_candidates: active Operations, and interrupted Applies
\* whose Plan or Run was left open.
Candidates ==
    {o \in Ops : \/ status[o] \in Active
                 \/ /\ status[o] = "interrupted" /\ row[o] # "purged" /\ IsApply(o)
                    /\ (plan[Target[o]] = "applying" \/ run[o] = "running")}

\* Mutant of Reconcile: the Run is left as it is.
ReconcileKeepsRun(failed) ==
    /\ status' = [o \in Ops |-> IF status[o] \in Active THEN "interrupted" ELSE status[o]]
    /\ plan' = [p \in Plans |-> IF plan[p] = "applying" THEN "settled" ELSE plan[p]]
    /\ UNCHANGED <<run, row, age>>

\* Mutant of Reconcile: Operations that never started are overlooked.
ReconcileRunningOnly(failed) ==
    /\ status' = [o \in Ops |-> IF status[o] = "running" THEN "interrupted" ELSE status[o]]
    /\ plan' = [p \in Plans |->
          IF plan[p] = "applying" /\ \E o \in Ops : status[o] = "running" THEN "settled" ELSE plan[p]]
    /\ run' = [o \in Ops |->
          IF status[o] = "running" /\ run[o] = "running" THEN "settled" ELSE run[o]]
    /\ UNCHANGED <<row, age>>

\* Reconcile on behalf of the executor of the Operations in failed (at most
\* one): a running Apply of theirs fails, every other active Operation is
\* interrupted, and the Plan and the Run of each candidate settle.
Reconcile(failed) ==
    /\ status' = [o \in Ops |->
          IF status[o] \notin Active THEN status[o]
          ELSE IF o \in failed /\ IsApply(o) /\ status[o] = "running" THEN "failed"
          ELSE "interrupted"]
    /\ plan' = [p \in Plans |->
          IF plan[p] = "applying" /\ \E o \in Candidates : Target[o] = p /\ run[o] # "none"
          THEN "settled" ELSE plan[p]]
    /\ run' = [o \in Ops |->
          IF o \in Candidates /\ run[o] = "running" THEN "settled" ELSE run[o]]
    /\ UNCHANGED <<row, age>>

\* Expire the payloads, then purge the tombstones, whose deadline has passed.
Cleanup ==
    /\ row' = [o \in Ops |->
          IF status[o] \notin Terminal \/ row[o] = "purged" \/ age[o] = 0 THEN row[o]
          ELSE IF age[o] = 1 THEN "tombstone" ELSE "purged"]
    /\ UNCHANGED <<status, age, plan, run>>

NewOperation(o) ==
    /\ status' = [status EXCEPT ![o] = "queued"]
    /\ row' = [row EXCEPT ![o] = "full"]
    /\ UNCHANGED age

\* A terminal write of the Operation by its own executor, with its Plan and Run.
Finish(o, s) ==
    /\ status' = [status EXCEPT ![o] = s]
    /\ plan' = [p \in Plans |-> IF p = Target[o] THEN "settled" ELSE plan[p]]
    /\ run' = [run EXCEPT ![o] = IF IsApply(o) THEN "settled" ELSE @]
    /\ UNCHANGED <<row, age>>

-----------------------------------------------------------------------------
(* Callers: HTTP request threads and CLI processes.                        *)

Goto(c, next)       == pc' = [pc EXCEPT ![c] = next]
Reply(c, a, next)   == answer' = [answer EXCEPT ![c] = a] /\ Goto(c, next)

\* Mutant of ReplayVerdict: the request behind the key is not compared.
AlwaysReplayed(r) == "replayed"

\* The verdict on a key that is retained: the same request or a reuse.
ReplayVerdict(r) ==
    IF \E o \in Retained(Key[r]) : Target[o] = Target[r] THEN "replayed" ELSE "key_reused"

\* A request arrives; accept and accept_apply first classify the key without the lock.
Arrive(r) ==
    /\ r \in WebCallers /\ web = "up"
    /\ pc[r] = "idle"
    /\ IF r \in Starts /\ Retained(Key[r]) # {}
       THEN Reply(r, ReplayVerdict(r), "done")
       ELSE Goto(r, "lock") /\ UNCHANGED answer
    /\ UNCHANGED <<lock, web, sup, faults, execution, database>>

Invoke(c) ==
    /\ c \in Commands
    /\ pc[c] = "idle"
    /\ Goto(c, "lock")
    /\ UNCHANGED <<lock, web, sup, answer, faults, execution, database>>

\* hold(): nonblocking. A contended CLI invocation gives up at once.
TryLock(c) ==
    /\ pc[c] = "lock"
    /\ \/ /\ lock = "free"
          /\ lock' = c
          /\ Goto(c, "reconcile")
          /\ UNCHANGED answer
       \/ /\ lock # "free"
          /\ IF c \in Commands THEN Reply(c, "busy", "done")
                               ELSE Goto(c, "contended") /\ UNCHANGED answer
          /\ UNCHANGED lock
    /\ UNCHANGED <<web, sup, faults, execution, database>>

\* Busy lock: classify the key again, in case the holder is committing this
\* request; then an Apply, like a Cancel, reads its Plan.
Contended(r) ==
    /\ pc[r] = "contended"
    /\ IF r \in Starts /\ Retained(Key[r]) # {}
       THEN Reply(r, ReplayVerdict(r), "done")
       ELSE IF Target[r] # NoPlan THEN Goto(r, "recheck") /\ UNCHANGED answer
       ELSE Reply(r, "busy", "done")
    /\ UNCHANGED <<lock, web, sup, faults, execution, database>>

Recheck(r) ==
    /\ pc[r] = "recheck"
    /\ Reply(r, IF plan[Target[r]] = "ready" THEN "busy" ELSE "not_ready", "done")
    /\ UNCHANGED <<lock, web, sup, faults, execution, database>>

\* _reconcile_and_cleanup under the caller's own lock: two transactions.
CallerReconciles(c) ==
    /\ pc[c] = "reconcile"
    /\ Reconcile({})
    /\ Goto(c, "cleanup")
    /\ UNCHANGED <<lock, web, sup, answer, faults, execution>>

CallerCleansUp(c) ==
    /\ pc[c] = "cleanup"
    /\ Cleanup
    /\ Goto(c, "reserve")
    /\ UNCHANGED <<lock, web, sup, answer, faults, execution>>

\* The preflight of a request that creates a Plan may refuse it.
Reject(r) ==
    /\ r \in Starts /\ pc[r] = "reserve" /\ ~IsApply(r)
    /\ Reply(r, "rejected", "release")
    /\ UNCHANGED <<lock, web, sup, faults, execution, database>>

\* Mutant of Admissible: the key is not looked up again under the lock.
AdmitsRetries(o) == ActiveOps = {}

\* ReserveOperationUseCase and ClaimApplyUseCase up to their first write.
Admissible(o) == Retained(Key[o]) = {} /\ ActiveOps = {}

Refuse(o) ==
    /\ o \in Ops /\ pc[o] = "reserve"
    /\ ~Admissible(o) \/ (IsApply(o) /\ plan[Target[o]] # "ready")
    /\ Reply(o, IF Retained(Key[o]) # {} THEN ReplayVerdict(o)
                ELSE IF ActiveOps # {} THEN "busy" ELSE "not_ready", "release")
    /\ UNCHANGED <<lock, web, sup, faults, execution, database>>

\* The committed acceptance. A Web caller goes on to dispatch it, a CLI
\* process executes it inline.
Accepted(o) ==
    IF o \in Starts
    THEN Goto(o, "submit") /\ UNCHANGED <<answer, exec>>
    ELSE Reply(o, "accepted", "inline") /\ exec' = [exec EXCEPT ![o] = "mark"]

Reserve(o) ==
    /\ o \in Ops /\ pc[o] = "reserve"
    /\ Admissible(o) /\ ~IsApply(o)
    /\ NewOperation(o)
    /\ Accepted(o)
    /\ UNCHANGED <<lock, web, sup, thread, worked, plan, run, faults>>

\* Mutant of Claim: the Plan is read before the transaction that claims it.
ClaimsAnyPlan(o) ==
    /\ o \in Ops /\ pc[o] = "reserve"
    /\ Admissible(o) /\ IsApply(o)
    /\ NewOperation(o)
    /\ plan' = [plan EXCEPT ![Target[o]] = "applying"]
    /\ run' = [run EXCEPT ![o] = "running"]
    /\ Accepted(o)
    /\ UNCHANGED <<lock, web, sup, thread, worked, faults>>

\* ClaimApply: the Plan, its Run and the Operation in one transaction.
Claim(o) ==
    /\ o \in Ops /\ pc[o] = "reserve"
    /\ Admissible(o) /\ IsApply(o) /\ plan[Target[o]] = "ready"
    /\ NewOperation(o)
    /\ plan' = [plan EXCEPT ![Target[o]] = "applying"]
    /\ run' = [run EXCEPT ![o] = "running"]
    /\ Accepted(o)
    /\ UNCHANGED <<lock, web, sup, thread, worked, faults>>

\* The Library root is no longer the one the Plan was reviewed against.
ExpirePlan(o) ==
    /\ o \in Ops /\ pc[o] = "reserve"
    /\ Admissible(o) /\ IsApply(o) /\ plan[Target[o]] = "ready"
    /\ plan' = [plan EXCEPT ![Target[o]] = "expired"]
    /\ Reply(o, "expired", "release")
    /\ UNCHANGED <<lock, web, sup, status, row, age, run, faults, execution>>

\* Mutant of Cancel: an update without its compare.
CancelsAnyPlan(c) ==
    /\ c \in Cancels /\ pc[c] = "reserve"
    /\ plan' = [plan EXCEPT ![Target[c]] = "cancelled"]
    /\ Reply(c, "cancelled", "release")
    /\ UNCHANGED <<lock, web, sup, status, row, age, run, faults, execution>>

\* CancelPlan: compare-and-set from ready.
Cancel(c) ==
    /\ c \in Cancels /\ pc[c] = "reserve"
    /\ IF plan[Target[c]] = "ready"
       THEN /\ plan' = [plan EXCEPT ![Target[c]] = "cancelled"]
            /\ Reply(c, "cancelled", "release")
       ELSE Reply(c, "not_ready", "release") /\ UNCHANGED plan
    /\ UNCHANGED <<lock, web, sup, status, row, age, run, faults, execution>>

\* executor.submit: the ExitStack, and the lock with it, moves to the task.
Submit(r) ==
    /\ r \in Starts /\ pc[r] = "submit" /\ web = "up"
    /\ thread' = TRUE
    /\ exec' = [exec EXCEPT ![r] = "waiting"]
    /\ Reply(r, "accepted", "done")
    /\ UNCHANGED <<lock, web, sup, worked, faults, database>>

\* submit raises RuntimeError: the executor is shut down, or its first thread
\* cannot be started, which leaves the task in the executor's queue.
SubmitRaises(r) ==
    /\ r \in Starts /\ pc[r] = "submit"
    /\ \/ web = "closing" /\ UNCHANGED <<exec, faults>>
       \/ /\ web = "up" /\ ~thread
          /\ faults < MaxFaults /\ faults' = faults + 1
          /\ exec' = [exec EXCEPT ![r] = "waiting"]
    /\ Goto(r, "undispatch")
    /\ UNCHANGED <<lock, web, thread, sup, answer, worked, database>>

\* _interrupt_dispatch_failure
Undispatch(r) ==
    /\ r \in Starts /\ pc[r] = "undispatch"
    /\ Reconcile({})
    /\ Reply(r, "failed", "release")
    /\ UNCHANGED <<lock, web, sup, faults, execution>>

Release(c) ==
    /\ pc[c] = "release"
    /\ lock' = "free"
    /\ Goto(c, "done")
    /\ UNCHANGED <<web, sup, answer, faults, execution, database>>

\* A transaction of the caller raises: it answers an error, releasing its lock.
CallerFails(c) ==
    /\ faults < MaxFaults /\ faults' = faults + 1
    /\ \/ /\ \/ pc[c] = "idle" /\ c \in Starts /\ web = "up"
             \/ pc[c] \in {"contended", "recheck"}
          /\ Reply(c, "failed", "done")
       \/ /\ pc[c] \in {"reconcile", "cleanup", "reserve", "undispatch"}
          /\ Reply(c, "failed", "release")
    /\ UNCHANGED <<lock, web, sup, execution, database>>

-----------------------------------------------------------------------------
(* Executions: the executor's tasks and the inline work of a CLI process.  *)

Move(o, next) == exec' = [exec EXCEPT ![o] = next]

\* The single worker thread takes a queued task; the queue's order is not kept.
TakeTask(o) ==
    /\ o \in Starts /\ exec[o] = "waiting"
    /\ thread /\ web \in {"up", "closing"}
    /\ \A other \in Starts : exec[other] \notin Executing
    /\ Move(o, "mark")
    /\ UNCHANGED <<lock, web, thread, sup, pc, answer, worked, faults, database>>

\* Mutant of MarkRunning: a task starts whatever became of its Operation.
StartsAnyway(o) ==
    /\ exec[o] = "mark"
    /\ status' = [status EXCEPT ![o] = "running"]
    /\ Move(o, "work")
    /\ worked' = worked \cup {o}
    /\ UNCHANGED <<lock, web, thread, sup, pc, answer, row, age, plan, run, faults>>

\* MarkOperationRunning: only a queued Operation can start. run_inline calls it
\* outside its try block, so its error skips the failure handling there.
MarkRunning(o) ==
    /\ exec[o] = "mark"
    /\ IF status[o] = "queued"
       THEN /\ status' = [status EXCEPT ![o] = "running"]
            /\ Move(o, "work")
            /\ worked' = worked \cup {o}
       ELSE /\ Move(o, IF o \in Starts \/ IsApply(o) THEN "fail" ELSE "leave")
            /\ UNCHANGED <<status, worked>>
    /\ UNCHANGED <<lock, web, thread, sup, pc, answer, row, age, plan, run, faults>>

\* The work's last transaction: results and terminal Operation together. It
\* requires its Operation to be running still; an Apply stopped by a changed
\* Library root is reported failed.
WorkCommits(o) ==
    /\ exec[o] = "work"
    /\ status[o] = "running"
    /\ \E s \in IF IsApply(o) THEN {"succeeded", "failed"} ELSE {"succeeded"} : Finish(o, s)
    /\ Move(o, "check")
    /\ UNCHANGED <<lock, web, thread, sup, pc, answer, worked, faults>>

\* The runtime does not rely on its work to finish the Operation.
WorkReturns(o) ==
    /\ exec[o] = "work"
    /\ Move(o, "check")
    /\ UNCHANGED <<lock, web, thread, sup, pc, answer, worked, faults, database>>

WorkRaises(o) ==
    /\ exec[o] = "work"
    /\ Move(o, "fail")
    /\ UNCHANGED <<lock, web, thread, sup, pc, answer, worked, faults, database>>

\* After the work: nothing to do for a terminal Operation; an unfinished
\* Apply is reconciled, other unfinished work of a task is finished here with
\* the result it returned, that of a CLI invocation as a failure.
CheckFinished(o) ==
    /\ exec[o] = "check"
    /\ IF status[o] = "running" /\ ~IsApply(o)
       THEN Finish(o, IF o \in Starts THEN "succeeded" ELSE "failed")
       ELSE UNCHANGED database
    /\ Move(o, IF status[o] = "running" /\ IsApply(o) THEN "fail" ELSE "leave")
    /\ UNCHANGED <<lock, web, thread, sup, pc, answer, worked, faults>>

\* Mutant of HandleFailure: work is failed without looking at its status.
FailsFinishedWork(o) ==
    /\ exec[o] = "fail"
    /\ Finish(o, "failed")
    /\ Move(o, "leave")
    /\ UNCHANGED <<lock, web, thread, sup, pc, answer, worked, faults>>

\* _fail_operation_execution: an active Apply is reconciled on its executor's
\* behalf, other running work fails, and a terminal Operation is left alone.
HandleFailure(o) ==
    /\ exec[o] = "fail"
    /\ IF IsApply(o) /\ status[o] \in Active THEN Reconcile({o})
       ELSE IF ~IsApply(o) /\ status[o] = "running" THEN Finish(o, "failed")
       ELSE UNCHANGED database
    /\ Move(o, "leave")
    /\ UNCHANGED <<lock, web, thread, sup, pc, answer, worked, faults>>

\* Mutant of Leave: only finished work gives the lock back.
LeavesLocked(o) ==
    /\ exec[o] = "leave"
    /\ lock' = IF lock = o /\ status[o] = "succeeded" THEN "free" ELSE lock
    /\ Move(o, "ended")
    /\ IF o \in Commands THEN Goto(o, "done") ELSE UNCHANGED pc
    /\ UNCHANGED <<web, thread, sup, answer, worked, faults, database>>

\* The worker_stack, or the CLI's with block, exits: the lock is released if
\* this stack still owns it.
Leave(o) ==
    /\ exec[o] = "leave"
    /\ lock' = IF lock = o THEN "free" ELSE lock
    /\ Move(o, "ended")
    /\ IF o \in Commands THEN Goto(o, "done") ELSE UNCHANGED pc
    /\ UNCHANGED <<web, thread, sup, answer, worked, faults, database>>

\* A transaction of the execution raises. Failures of the failure handling are
\* logged and swallowed, which leaves the Operation to a later reconciliation.
ExecutionFails(o) ==
    /\ exec[o] \in {"mark", "check", "fail"}
    /\ faults < MaxFaults /\ faults' = faults + 1
    /\ Move(o, IF \/ exec[o] = "fail"
                  \/ o \in Commands /\ ~(IsApply(o) /\ exec[o] = "mark")
               THEN "leave" ELSE "fail")
    /\ UNCHANGED <<lock, web, thread, sup, pc, answer, worked, database>>

-----------------------------------------------------------------------------
(* The supervisor and the life of the processes.                           *)

\* One pass ends; the pass made by start() also opens the Web process.
PassEnds ==
    /\ sup' = "wait"
    /\ web' = IF web = "starting" THEN "up" ELSE web

\* Mutant of SupervisorTries: reconciles without the lock.
SupervisorBargesIn ==
    /\ sup = "try"
    /\ sup' = "reconcile"
    /\ UNCHANGED <<lock, web, pc, answer, faults, execution, database>>

SupervisorTries ==
    /\ sup = "try"
    /\ IF lock = "free"
       THEN lock' = "supervisor" /\ sup' = "reconcile" /\ UNCHANGED web
       ELSE PassEnds /\ UNCHANGED lock
    /\ UNCHANGED <<pc, answer, faults, execution, database>>

SupervisorReconciles ==
    /\ sup = "reconcile"
    /\ Reconcile({})
    /\ sup' = "cleanup"
    /\ UNCHANGED <<lock, web, pc, answer, faults, execution>>

SupervisorCleansUp ==
    /\ sup = "cleanup"
    /\ Cleanup
    /\ sup' = "release"
    /\ UNCHANGED <<lock, web, pc, answer, faults, execution>>

SupervisorReleases ==
    /\ sup = "release"
    /\ lock' = "free"
    /\ PassEnds
    /\ UNCHANGED <<pc, answer, faults, execution, database>>

SupervisorFails ==
    /\ sup \in {"reconcile", "cleanup"}
    /\ faults < MaxFaults /\ faults' = faults + 1
    /\ sup' = "release"
    /\ UNCHANGED <<lock, web, pc, answer, execution, database>>

\* The interval elapses, or the stop event ends the loop.
SupervisorWakes ==
    /\ sup = "wait"
    /\ sup' = IF web = "closing" THEN "off" ELSE "try"
    /\ UNCHANGED <<lock, web, pc, answer, faults, execution, database>>

StartWeb ==
    /\ web = "down"
    /\ web' = "starting"
    /\ sup' = "try"
    /\ UNCHANGED <<lock, pc, answer, faults, execution, database>>

\* close(): stop the supervisor, then shut the executor down and wait for it.
Close ==
    /\ web = "up"
    /\ faults < MaxFaults /\ faults' = faults + 1
    /\ web' = "closing"
    /\ UNCHANGED <<lock, sup, pc, answer, execution, database>>

\* What remains of the callers, tasks and lock of the processes in gone.
Lose(callers) ==
    /\ pc' = [c \in Callers |->
                IF c \in callers /\ pc[c] \notin {"idle", "done"} THEN "lost" ELSE pc[c]]
    /\ exec' = [o \in Ops |->
                IF o \in callers /\ exec[o] # "none" THEN "ended" ELSE exec[o]]

Exit ==
    /\ web = "closing" /\ sup = "off"
    /\ \A r \in WebCallers : pc[r] \in {"idle", "done", "lost"}
    /\ \A o \in Starts : exec[o] \notin Executing /\ (exec[o] = "waiting" => ~thread)
    /\ web' = "down" /\ thread' = FALSE
    /\ Lose(WebCallers)
    /\ UNCHANGED <<lock, sup, answer, worked, faults, database>>

CrashWeb ==
    /\ web # "down"
    /\ faults < MaxFaults /\ faults' = faults + 1
    /\ web' = "down" /\ thread' = FALSE /\ sup' = "off"
    /\ lock' = IF lock \in WebCallers \cup {"supervisor"} THEN "free" ELSE lock
    /\ Lose(WebCallers)
    /\ UNCHANGED <<answer, worked, database>>

CrashCommand(c) ==
    /\ c \in Commands /\ pc[c] \notin {"idle", "done", "lost"}
    /\ faults < MaxFaults /\ faults' = faults + 1
    /\ lock' = IF lock = c THEN "free" ELSE lock
    /\ Lose({c})
    /\ UNCHANGED <<web, thread, sup, answer, worked, database>>

\* The next retention deadline of a terminal Operation passes.
Elapse(o) ==
    /\ status[o] \in Terminal /\ age[o] < 2
    /\ age' = [age EXCEPT ![o] = @ + 1]
    /\ UNCHANGED <<lock, web, sup, pc, answer, faults, execution, status, row, plan, run>>

-----------------------------------------------------------------------------

CallerStep(c) ==
    \/ Arrive(c) \/ Invoke(c) \/ TryLock(c) \/ Contended(c) \/ Recheck(c)
    \/ CallerReconciles(c) \/ CallerCleansUp(c) \/ Reject(c) \/ Refuse(c)
    \/ Reserve(c) \/ Claim(c) \/ ExpirePlan(c) \/ Cancel(c)
    \/ Submit(c) \/ SubmitRaises(c) \/ Undispatch(c) \/ Release(c)

ExecutionStep(o) ==
    \/ TakeTask(o) \/ MarkRunning(o) \/ WorkCommits(o) \/ WorkReturns(o) \/ WorkRaises(o)
    \/ CheckFinished(o) \/ HandleFailure(o) \/ Leave(o)

SupervisorStep ==
    \/ SupervisorTries \/ SupervisorReconciles \/ SupervisorCleansUp
    \/ SupervisorReleases \/ SupervisorWakes

Environment ==
    \/ StartWeb \/ Close \/ Exit \/ CrashWeb \/ SupervisorFails
    \/ \E c \in Callers : CallerFails(c) \/ CrashCommand(c)
    \/ \E o \in Ops : ExecutionFails(o) \/ Elapse(o)

Next ==
    \/ \E c \in Callers : CallerStep(c)
    \/ \E o \in Ops : ExecutionStep(o)
    \/ SupervisorStep
    \/ Environment

Spec == Init /\ [][Next]_vars

\* Threads keep running and work returns or raises. Nothing makes a user issue a
\* request, a process restart or a deadline pass.
Fairness ==
    /\ \A c \in Callers : WF_vars(pc[c] # "idle" /\ CallerStep(c))
    /\ \A o \in Ops : WF_vars(ExecutionStep(o))
    /\ WF_vars(SupervisorStep)

FairSpec == Spec /\ Fairness

-----------------------------------------------------------------------------
(* Properties.                                                             *)

\* Work runs only under the application lock and for a running Operation:
\* never two Operations at once in any process, and never a stale task whose
\* dispatch failed and whose ExitStack is already closed.
ExclusiveWork ==
    \A o \in Ops : exec[o] = "work" => lock = o /\ status[o] = "running"

\* From dispatch to its last transaction an Operation's status moves only with
\* its own execution: no reconciliation by a competing caller, process or
\* supervisor, nor the failure handling of a stale task, touches live work.
LiveOperationUndisturbed ==
    [][\A o \in Ops :
          /\ lock = o /\ pc[o] # "undispatch"
          /\ exec[o] \in {"waiting", "mark", "work"}
          /\ status'[o] # status[o]
          => exec'[o] # exec[o]]_vars

\* A Plan is applying exactly while one Run of it is running, and a Run is
\* running exactly while its Apply Operation is active: claim, finish and
\* reconciliation each move the three rows together, whatever crashes.
PlanRunOperationAgree ==
    /\ \A o \in Ops : run[o] = "running" <=> IsApply(o) /\ status[o] \in Active
    /\ \A p \in Plans : plan[p] = "applying" <=>
          \E o \in Ops : Target[o] = p /\ run[o] = "running"

\* A Plan has one fate: one Run, one successful cancellation or one expiry,
\* across competing requests, retries, restarts and purged Operations.
SinglePlanFate ==
    \A p \in Plans :
        Cardinality({o \in Ops : Target[o] = p /\ run[o] # "none"}
            \cup {c \in Callers : Target[c] = p /\ answer[c] \in {"cancelled", "expired"}}) <= 1

\* One request key works once while its row is retained: two Operations with
\* one key can both have worked only after the first was purged.
KeyWorksOnce ==
    \A o1, o2 \in worked :
        o1 # o2 /\ Key[o1] = Key[o2] => row[o1] = "purged" \/ row[o2] = "purged"

\* What a caller was told is so: a refused or replayed request left no
\* Operation of its own, a replay names an Operation for the same request, and
\* a Web request that failed never has its work entered, not even by the task
\* a failed submit left behind.
AnswersAreTrue ==
    \A c \in Callers :
        /\ answer[c] \in {"replayed", "key_reused", "busy", "not_ready", "expired", "rejected"}
              /\ c \in Ops => status[c] = "absent"
        /\ answer[c] = "replayed" =>
              \E o \in Ops : Key[o] = Key[c] /\ Target[o] = Target[c] /\ status[o] # "absent"
        /\ answer[c] = "accepted" => status[c] # "absent"
        /\ answer[c] = "failed" => c \notin worked

\* A terminal Operation stays as it is, and its row only loses data.
TerminalIsFinal ==
    [][\A o \in Ops : status[o] \in Terminal =>
          /\ status'[o] = status[o]
          /\ row'[o] # row[o] => <<row[o], row'[o]>> \in
                {<<"full", "tombstone">>, <<"full", "purged">>, <<"tombstone", "purged">>}]_vars

\* If the Web process eventually stays up, every accepted Operation becomes
\* terminal, the orphans of crashed processes and of failed terminal writes
\* included.
OrphansSettle ==
    <>[](web = "up") => \A o \in Ops : status[o] \in Active ~> status[o] \in Terminal

\* The lock is never kept for ever.
LockIsFreed == []<>(lock = "free")

\* Both: nothing waits for ever for what a crash or a lost write left behind.
NothingHangs == OrphansSettle /\ LockIsFreed

\* The transactions implement the ledger promised to readers.
Ledger == INSTANCE OperationLedger WITH
        Ops <- Ops, Plans <- Plans, NoPlan <- NoPlan, Target <- Target, Key <- Key,
        status <- status, row <- row, plan <- plan, run <- run
LedgerSpec == Ledger!LedgerSpec
=============================================================================
