------------------------ MODULE OperationAnswersProofs ------------------------
(***************************************************************************)
(* Further proofs about OperationRuntime, from the inductive invariant of  *)
(* OperationRuntimeProofs: callers are told the truth, a Plan has one      *)
(* fate, terminal Operations stay as they are, and live work is disturbed  *)
(* by nobody.                                                              *)
(***************************************************************************)
EXTENDS OperationRuntimeProofs, FiniteSetTheorems

-----------------------------------------------------------------------------
(* Action properties that follow from the refinement of the ledger.        *)

\* A terminal Operation keeps its status, and its row only loses data, whatever
\* reconciliation, late failure handling or retention runs
\* (reconcile_operations.py, _fail_operation_execution, operation retention).
THEOREM TerminalStays == Spec => TerminalIsFinal
<1> DEFINE Kept(o) == status[o] \in Terminal =>
              /\ status'[o] = status[o]
              /\ row'[o] # row[o] => <<row[o], row'[o]>> \in
                    {<<"full", "tombstone">>, <<"full", "purged">>, <<"tombstone", "purged">>}
<1>1. IInv /\ [Next]_vars => [\A o \in Ops : Kept(o)]_vars
  <2> SUFFICES ASSUME IInv, Next, NEW o \in Ops PROVE Kept(o)
    OBVIOUS
  <2>1. TypeOK /\ (Ledger!LedgerNext \/ Stutter)
    BY NextRefines DEF IInv
  <2>2. ASSUME NEW x \in Ops, Ledger!Accept(x) \/ Ledger!StartWork(x) \/ Ledger!Settle(x)
        PROVE  Kept(o)
    <3>1. status[x] \notin Terminal
      BY <2>2 DEF Ledger!Accept, Ledger!StartWork, Ledger!Settle, Ledger!Active, Terminal
    <3>2. x # o => status'[o] = status[o] /\ row'[o] = row[o]
      BY <2>1, <2>2 DEF Ledger!Accept, Ledger!StartWork, Ledger!Settle, TypeOK
    <3> QED
      BY <3>1, <3>2
  <2>3. CASE Ledger!Forget
    BY <2>3 DEF Ledger!Forget
  <2>4. CASE Stutter \/ \E p \in Plans : Ledger!Withdraw(p)
    BY <2>4 DEF Stutter, Ledger!Withdraw
  <2> QED
    BY <2>1, <2>2, <2>3, <2>4 DEF Ledger!LedgerNext
<1> QED
  BY <1>1, Inductive, PTL DEF Spec, TerminalIsFinal

\* No reconciliation and no failure handling but its own touches an Operation
\* that is dispatched and still owns the lock (operation_composition.py: the
\* ExitStack moves to the executor's task).
THEOREM LiveWorkUndisturbed == Spec => LiveOperationUndisturbed
<1> DEFINE Kept(o) ==
              /\ lock = o /\ pc[o] # "undispatch"
              /\ exec[o] \in {"waiting", "mark", "work"}
              /\ status'[o] # status[o]
              => exec'[o] # exec[o]
<1>1. IInv /\ [Next]_vars => [\A o \in Ops : Kept(o)]_vars
  <2> SUFFICES ASSUME IInv, Next, NEW o \in Ops,
                      lock = o, pc[o] # "undispatch", exec[o] \in {"waiting", "mark", "work"},
                      status'[o] # status[o]
               PROVE  exec'[o] # exec[o]
    OBVIOUS
  <2> USE CallerKinds DEF HoldingPcs, Executing
  <2>0. TypeOK /\ Ownership /\ Untouched
    BY DEF IInv, Threads
  <2>1. ASSUME NEW c \in Callers, CallerStep(c)
        PROVE  FALSE
    <3>1. CASE CallerReconciles(c) \/ Undispatch(c) \/ Reserve(c) \/ Claim(c)
      <4>1. pc[c] \in {"reconcile", "undispatch", "reserve"}
        BY <3>1 DEF CallerReconciles, Undispatch, Reserve, Claim
      <4> QED
        BY <2>0, <4>1 DEF Ownership, Untouched
    <3>2. CASE CallerCleansUp(c)
      BY <3>2 DEF CallerCleansUp, Cleanup
    <3> QED
      BY <2>1, <3>1, <3>2 DEF CallerStep, database, Arrive, Invoke, TryLock, Contended, Recheck,
            Reject, Refuse, ExpirePlan, Cancel, Submit, SubmitRaises, Release
  <2>2. ASSUME NEW x \in Ops, ExecutionStep(x)
        PROVE  exec'[o] # exec[o]
    <3>1. CASE MarkRunning(x) \/ WorkCommits(x)
      BY <2>0, <3>1 DEF MarkRunning, WorkCommits, Finish, Move, TypeOK
    <3>2. CASE CheckFinished(x)
      BY <2>0, <3>2 DEF CheckFinished, Finish, TypeOK, database
    <3>3. CASE HandleFailure(x)
      <4>1. o # x
        BY <3>3 DEF HandleFailure
      <4>2. IsApply(x) /\ status[x] \in Active
        BY <2>0, <3>3, <4>1 DEF HandleFailure, Finish, TypeOK, database
      <4> QED
        BY <2>0, <3>3, <4>1, <4>2 DEF HandleFailure, Ownership
    <3> QED
      BY <2>2, <3>1, <3>2, <3>3 DEF ExecutionStep, database, TakeTask, WorkReturns, WorkRaises, Leave
  <2>3. CASE SupervisorStep
    <3>1. CASE SupervisorReconciles
      BY <2>0, <3>1 DEF SupervisorReconciles, Ownership
    <3> QED
      BY <2>3, <3>1 DEF SupervisorStep, database, SupervisorTries, SupervisorCleansUp, Cleanup,
            SupervisorReleases, SupervisorWakes
  <2>4. CASE Environment
    BY <2>4, EnvironmentRefines DEF Stutter
  <2> QED
    BY <2>1, <2>2, <2>3, <2>4 DEF Next
<1> QED
  BY <1>1, Inductive, PTL DEF Spec, LiveOperationUndisturbed

-----------------------------------------------------------------------------
(* What callers are told.                                                  *)

Refusals == {"replayed", "key_reused", "busy", "not_ready", "expired", "rejected"}
Answered == {"release", "done", "lost"}

\* A refused caller has left the path on which its Operation could be created.
RefusedStay ==
    \A c \in Callers : answer[c] \in Refusals =>
        pc[c] \in Answered /\ (c \in Ops => status[c] = "absent")

ReplaysExist ==
    \A c \in Callers : answer[c] = "replayed" =>
        \E o \in Ops : Key[o] = Key[c] /\ Target[o] = Target[c] /\ status[o] # "absent"

AcceptedExist ==
    \A c \in Callers : answer[c] = "accepted" => c \in Ops /\ status[c] # "absent"

\* The task that a failed submit left in the queue cannot be taken as long as
\* its Operation is active, and never finds it queued.
FailedNeverWork ==
    \A c \in Callers : answer[c] = "failed" =>
        /\ pc[c] \in Answered /\ c \notin worked
        /\ c \in Ops /\ status[c] \in Active =>
              exec[c] \notin Executing /\ (exec[c] = "waiting" => ~thread)

\* Work is entered after the acceptance, so its caller does not fail any more.
WorkAccepted == \A o \in worked : pc[o] \in {"inline", "done", "lost"}

AInv == RefusedStay /\ ReplaysExist /\ AcceptedExist /\ FailedNeverWork /\ WorkAccepted

\* A verdict of "replayed" names a retained Operation for the same request.
LEMMA VerdictIsTrue ==
    ASSUME IInv, NEW c \in Callers
    PROVE  /\ ReplayVerdict(c) \in {"replayed", "key_reused"}
           /\ ReplayVerdict(c) = "replayed" =>
                 \E o \in Ops : Key[o] = Key[c] /\ Target[o] = Target[c] /\ status[o] # "absent"
BY DEF ReplayVerdict, Retained, IInv, Rows, RowsMatch

\* A step that leaves the rows and every answer alone can only move a caller on,
\* or an execution that is not the stale task of a failed caller.
LEMMA CallerAnswers ==
    ASSUME IInv, AInv, NEW c \in Callers, CallerStep(c)
    PROVE  AInv'
<1> USE CallerKinds DEF Goto, Reply, execution, database, HoldingPcs, Answered, Refusals
<1>0. TypeOK /\ Ownership /\ Untouched /\ OneActive
  BY DEF IInv, Threads, Rows
<1>1. CASE Arrive(c) \/ Contended(c) \/ Refuse(c)
  <2>1. UNCHANGED <<status, row, exec, thread, worked>>
    BY <1>1 DEF Arrive, Contended, Refuse
  <2>2. RefusedStay' /\ AcceptedExist' /\ FailedNeverWork'
    BY <1>0, <1>1, <2>1, VerdictIsTrue DEF AInv, RefusedStay, AcceptedExist, FailedNeverWork,
       TypeOK, Untouched, Arrive, Contended, Refuse
  <2>3. ReplaysExist'
    BY <1>0, <1>1, <2>1, VerdictIsTrue DEF AInv, ReplaysExist, TypeOK, Arrive, Contended, Refuse
  <2>4. WorkAccepted'
    BY <1>0, <1>1, <2>1 DEF AInv, WorkAccepted, TypeOK, Arrive, Contended, Refuse
  <2> QED
    BY <2>2, <2>3, <2>4 DEF AInv
<1>2. CASE Invoke(c) \/ TryLock(c) \/ Recheck(c) \/ Reject(c) \/ ExpirePlan(c) \/ Cancel(c) \/ Release(c)
  <2>1. UNCHANGED <<status, exec, thread, worked>>
    BY <1>2 DEF Invoke, TryLock, Recheck, Reject, ExpirePlan, Cancel, Release
  <2>2. RefusedStay' /\ FailedNeverWork'
    BY <1>0, <1>2, <2>1 DEF AInv, RefusedStay, FailedNeverWork, TypeOK, Untouched,
       Invoke, TryLock, Recheck, Reject, ExpirePlan, Cancel, Release
  <2>3. ReplaysExist' /\ AcceptedExist'
    BY <1>0, <1>2, <2>1 DEF AInv, ReplaysExist, AcceptedExist, TypeOK,
       Invoke, TryLock, Recheck, Reject, ExpirePlan, Cancel, Release
  <2>4. WorkAccepted'
    BY <1>0, <1>2, <2>1 DEF AInv, WorkAccepted, TypeOK,
       Invoke, TryLock, Recheck, Reject, ExpirePlan, Cancel, Release
  <2> QED
    BY <2>2, <2>3, <2>4 DEF AInv
<1>3. CASE CallerReconciles(c) \/ CallerCleansUp(c) \/ Undispatch(c)
  <2>1. /\ \A o \in Ops : status[o] # "absent" => status'[o] # "absent"
        /\ \A o \in Ops : status[o] = "absent" => status'[o] = "absent"
        /\ \A o \in Ops : status'[o] \in Active => status[o] \in Active
    BY <1>0, <1>3, ReconcileRows, CleanupRows DEF CallerReconciles, CallerCleansUp, Undispatch,
       IInv, Active, Terminal
  <2>2. UNCHANGED <<exec, thread, worked>>
    BY <1>3 DEF CallerReconciles, CallerCleansUp, Undispatch
  <2>3. RefusedStay' /\ ReplaysExist' /\ AcceptedExist' /\ WorkAccepted'
    BY <1>0, <1>3, <2>1, <2>2 DEF AInv, RefusedStay, ReplaysExist, AcceptedExist, WorkAccepted,
       TypeOK, CallerReconciles, CallerCleansUp, Undispatch
  <2>4. CASE Undispatch(c)
    <3>1. \A o \in Ops : status'[o] \notin Active
      BY <2>4, ReconcileRows DEF Undispatch, IInv
    <3>2. c \notin worked
      BY <2>4 DEF AInv, WorkAccepted, Undispatch
    <3> QED
      BY <1>0, <2>2, <2>3, <2>4, <3>1, <3>2 DEF AInv, FailedNeverWork, TypeOK, Undispatch
  <2>5. CASE ~Undispatch(c)
    BY <1>0, <1>3, <2>1, <2>2, <2>3, <2>5 DEF AInv, FailedNeverWork, TypeOK,
       CallerReconciles, CallerCleansUp
  <2> QED
    BY <2>4, <2>5
<1>4. CASE Reserve(c) \/ Claim(c)
  <2>1. c \in Ops /\ pc[c] = "reserve" /\ status' = [status EXCEPT ![c] = "queued"]
    BY <1>4 DEF Reserve, Claim, NewOperation
  <2>2. Accepted(c) /\ UNCHANGED <<thread, worked>>
    BY <1>4 DEF Reserve, Claim
  <2>3. RefusedStay' /\ AcceptedExist' /\ FailedNeverWork'
    BY <1>0, <2>1, <2>2 DEF AInv, RefusedStay, AcceptedExist, FailedNeverWork, TypeOK, Accepted, Active
  <2>4. ReplaysExist'
    BY <1>0, <2>1, <2>2 DEF AInv, ReplaysExist, TypeOK, Accepted
  <2>5. WorkAccepted'
    BY <1>0, <2>1, <2>2 DEF AInv, WorkAccepted, TypeOK, Accepted
  <2> QED
    BY <2>3, <2>4, <2>5 DEF AInv
<1>5. CASE Submit(c) \/ SubmitRaises(c)
  <2>1. c \in Ops /\ pc[c] = "submit" /\ status[c] = "queued"
    BY <1>0, <1>5 DEF Submit, SubmitRaises, Untouched
  <2>2. \A o \in Ops : status[o] \in Active => o = c
    BY <1>0, <2>1 DEF OneActive, Active
  <2>3. UNCHANGED <<status, worked>>
    BY <1>5 DEF Submit, SubmitRaises
  <2>4. RefusedStay' /\ ReplaysExist' /\ AcceptedExist' /\ WorkAccepted'
    BY <1>0, <1>5, <2>1, <2>3 DEF AInv, RefusedStay, ReplaysExist, AcceptedExist, WorkAccepted,
       TypeOK, Submit, SubmitRaises
  <2>5. FailedNeverWork'
    BY <1>0, <1>5, <2>1, <2>2, <2>3 DEF AInv, FailedNeverWork, TypeOK, Submit, SubmitRaises
  <2> QED
    BY <2>4, <2>5 DEF AInv
<1> QED
  BY <1>1, <1>2, <1>3, <1>4, <1>5 DEF CallerStep

LEMMA ExecutionAnswers ==
    ASSUME IInv, AInv, NEW o \in Ops, ExecutionStep(o)
    PROVE  AInv'
<1> USE CallerKinds DEF Answered, Refusals, Executing
<1>0. TypeOK /\ Ownership /\ OneActive
  BY DEF IInv, Threads, Rows
<1>1. /\ \A x \in Ops : status[x] = "absent" <=> status'[x] = "absent"
      /\ \A x \in Ops : status'[x] \in Active => status[x] \in Active
  <2>1. CASE MarkRunning(o)
    BY <1>0, <2>1 DEF MarkRunning, TypeOK, Active
  <2>2. ASSUME NEW s \in Terminal, status[o] \in Active, Finish(o, s) PROVE <1>1!1 /\ <1>1!2
    BY <1>0, <2>2 DEF Finish, TypeOK, Active, Terminal
  <2>3. CASE WorkCommits(o)
    BY <2>2, <2>3 DEF WorkCommits, Active, Terminal
  <2>4. CASE CheckFinished(o)
    BY <2>2, <2>4 DEF CheckFinished, Active, Terminal, database
  <2>5. CASE HandleFailure(o)
    BY <2>2, <2>5, ReconcileRows DEF HandleFailure, Active, Terminal, database, IInv
  <2> QED
    BY <2>1, <2>3, <2>4, <2>5 DEF ExecutionStep, TakeTask, WorkReturns, WorkRaises, Leave, database
<1>2. answer' = answer /\ thread' = thread
  BY DEF ExecutionStep, TakeTask, MarkRunning, WorkCommits, WorkReturns, WorkRaises,
         CheckFinished, HandleFailure, Leave
<1>3. \A c \in Callers : pc[c] \in Answered => pc'[c] \in Answered
  BY <1>0 DEF ExecutionStep, TakeTask, MarkRunning, WorkCommits, WorkReturns, WorkRaises,
              CheckFinished, HandleFailure, Leave, Goto, TypeOK
<1>4. RefusedStay' /\ ReplaysExist' /\ AcceptedExist'
  BY <1>1, <1>2, <1>3 DEF AInv, RefusedStay, ReplaysExist, AcceptedExist
<1>5. \A x \in Ops : x # o => exec'[x] = exec[x]
  BY <1>0 DEF ExecutionStep, TakeTask, MarkRunning, WorkCommits, WorkReturns, WorkRaises,
              CheckFinished, HandleFailure, Leave, Move, TypeOK
<1>6. \/ exec[o] = "waiting" /\ thread
      \/ exec[o] \in Executing
  BY DEF ExecutionStep, TakeTask, MarkRunning, WorkCommits, WorkReturns, WorkRaises,
         CheckFinished, HandleFailure, Leave
<1>7. worked' = worked \/ (worked' = worked \cup {o} /\ status[o] = "queued")
  BY DEF ExecutionStep, TakeTask, MarkRunning, WorkCommits, WorkReturns, WorkRaises,
         CheckFinished, HandleFailure, Leave
<1>8. FailedNeverWork'
  BY <1>1, <1>2, <1>3, <1>5, <1>6, <1>7 DEF AInv, FailedNeverWork, Active
<1>9. WorkAccepted'
  BY <1>0, <1>6, <1>7 DEF AInv, WorkAccepted, Ownership, TypeOK, ExecutionStep, TakeTask,
     MarkRunning, WorkCommits, WorkReturns, WorkRaises, CheckFinished, HandleFailure, Leave, Goto
<1> QED
  BY <1>4, <1>8, <1>9 DEF AInv

LEMMA OtherAnswers ==
    ASSUME IInv, AInv, SupervisorStep \/ Environment
    PROVE  AInv'
<1> USE CallerKinds DEF Answered, Refusals, Executing, execution, database
<1>0. TypeOK /\ Ownership /\ Untouched
  BY DEF IInv, Threads
<1>1. CASE SupervisorStep
  <2>1. /\ \A x \in Ops : status[x] = "absent" <=> status'[x] = "absent"
        /\ \A x \in Ops : status'[x] \in Active => status[x] \in Active
    BY <1>1, ReconcileRows DEF SupervisorStep, SupervisorTries, SupervisorReconciles,
       SupervisorCleansUp, Cleanup, SupervisorReleases, SupervisorWakes, IInv, Active, Terminal
  <2>2. UNCHANGED <<answer, pc, exec, thread, worked>>
    BY <1>1 DEF SupervisorStep, SupervisorTries, SupervisorReconciles, SupervisorCleansUp,
       SupervisorReleases, SupervisorWakes
  <2> QED
    BY <2>1, <2>2 DEF AInv, RefusedStay, ReplaysExist, AcceptedExist, FailedNeverWork, WorkAccepted
<1>2. CASE StartWeb \/ Close \/ SupervisorFails \/ (\E o \in Ops : Elapse(o))
  <2>1. UNCHANGED <<answer, pc, exec, thread, worked, status>>
    BY <1>2 DEF StartWeb, Close, SupervisorFails, Elapse
  <2> QED
    BY <2>1 DEF AInv, RefusedStay, ReplaysExist, AcceptedExist, FailedNeverWork, WorkAccepted
<1>3. ASSUME Exit \/ CrashWeb \/ \E c \in Callers : CrashCommand(c)
      PROVE  AInv'
  <2>1. UNCHANGED <<answer, worked, status>>
    BY <1>3 DEF Exit, CrashWeb, CrashCommand
  <2>2. thread' => thread
    BY <1>3 DEF Exit, CrashWeb, CrashCommand
  <2>3. /\ \A c \in Callers : pc'[c] \in {pc[c], "lost"}
        /\ \A o \in Ops : exec'[o] \in {exec[o], "ended"}
    BY <1>0, <1>3 DEF Exit, CrashWeb, CrashCommand, Lose, TypeOK
  <2> QED
    BY <1>0, <2>1, <2>2, <2>3 DEF TypeOK, AInv, RefusedStay, ReplaysExist, AcceptedExist, FailedNeverWork, WorkAccepted
<1>4. ASSUME NEW c \in Callers, CallerFails(c)
      PROVE  AInv'
  <2>1. UNCHANGED <<exec, thread, worked, status>>
    BY <1>4 DEF CallerFails
  <2>2. RefusedStay' /\ ReplaysExist' /\ AcceptedExist' /\ WorkAccepted'
    BY <1>0, <1>4, <2>1 DEF AInv, RefusedStay, ReplaysExist, AcceptedExist, WorkAccepted, TypeOK,
       CallerFails, Reply, Goto
  <2>3. c \notin worked
    BY <1>4 DEF AInv, WorkAccepted, CallerFails
  <2>4. c \in Ops /\ status[c] \in Active => exec[c] \notin Executing /\ (exec[c] = "waiting" => ~thread)
    BY <1>0, <1>4 DEF CallerFails, Ownership, Untouched, Active
  <2>5. FailedNeverWork'
    BY <1>0, <1>4, <2>1, <2>3, <2>4 DEF AInv, FailedNeverWork, TypeOK, CallerFails, Reply, Goto
  <2> QED
    BY <2>2, <2>5 DEF AInv
<1>5. ASSUME NEW o \in Ops, ExecutionFails(o)
      PROVE  AInv'
  <2>1. UNCHANGED <<answer, pc, thread, worked, status>>
    BY <1>5 DEF ExecutionFails
  <2>2. \A x \in Ops : \/ exec'[x] = exec[x]
                       \/ exec[x] \in Executing /\ exec'[x] \in Executing
    BY <1>0, <1>5 DEF ExecutionFails, Move, TypeOK
  <2> QED
    BY <2>1, <2>2 DEF AInv, RefusedStay, ReplaysExist, AcceptedExist, FailedNeverWork, WorkAccepted
<1> QED
  BY <1>1, <1>2, <1>3, <1>4, <1>5 DEF Environment

\* A caller that was refused left nothing behind, a replay names an Operation for
\* the same request, an accepted one exists, and a request that failed is never
\* worked on, by no stale task either (operation_composition.py: accept,
\* accept_apply, run_inline; durable_executor.py).
THEOREM AnswersTruth == Spec => []AnswersAreTrue
<1>1. Init => AInv
  BY DEF Init, AInv, RefusedStay, ReplaysExist, AcceptedExist, FailedNeverWork, WorkAccepted, Refusals
<1>2. IInv /\ AInv /\ [Next]_vars => AInv'
  <2>1. CASE UNCHANGED vars
    BY <2>1 DEF vars, AInv, RefusedStay, ReplaysExist, AcceptedExist, FailedNeverWork, WorkAccepted
  <2> QED
    BY <2>1, CallerAnswers, ExecutionAnswers, OtherAnswers DEF Next
<1>3. AInv => AnswersAreTrue
  BY DEF AInv, RefusedStay, ReplaysExist, AcceptedExist, FailedNeverWork, Refusals, AnswersAreTrue
<1> QED
  BY <1>1, <1>2, <1>3, Inductive, PTL DEF Spec

-----------------------------------------------------------------------------
(* The fate of a Plan.                                                     *)

\* What became of a Plan: the Apply that ran it, or the caller that ended it.
Fates(p) == {o \in Ops : Target[o] = p /\ run[o] # "none"}
            \cup {c \in Callers : Target[c] = p /\ answer[c] \in {"cancelled", "expired"}}

\* A Plan met its fate only by leaving "ready", and nothing makes it ready again.
OneFate ==
    \A p \in Plans : /\ plan[p] = "ready" => Fates(p) = {}
                     /\ \A x, y \in Fates(p) : x = y

\* The steps that decide nothing: no Plan becomes ready, no Run starts and no
\* caller learns that it cancelled or expired a Plan.
LEMMA UndecidedKeeps ==
    ASSUME OneFate,
           \A p \in Plans : plan'[p] = "ready" => plan[p] = "ready",
           \A o \in Ops : run'[o] # "none" => run[o] # "none",
           \A c \in Callers : answer'[c] \in {"cancelled", "expired"} => answer'[c] = answer[c]
    PROVE  OneFate'
<1>1. \A p : Fates(p)' \subseteq Fates(p)
  BY DEF Fates
<1> QED
  BY <1>1 DEF OneFate

\* The steps that decide the fate of a ready Plan.
LEMMA DecidedKeeps ==
    ASSUME OneFate, NEW c \in Callers, Target[c] \in Plans, plan[Target[c]] = "ready",
           plan'[Target[c]] # "ready",
           \A p \in Plans : p # Target[c] => plan'[p] = plan[p],
           \A o \in Ops : o # c => run'[o] = run[o],
           \A x \in Callers : x # c => answer'[x] = answer[x]
    PROVE  OneFate'
<1>1. \A p : p # Target[c] => Fates(p)' = Fates(p)
  BY DEF Fates
<1>2. Fates(Target[c]) = {}
  BY DEF OneFate
<1>3. \A x \in Fates(Target[c])' : x = c
  BY <1>2 DEF Fates
<1> QED
  BY <1>1, <1>3 DEF OneFate

LEMMA FateKeeps ==
    ASSUME IInv, OneFate, [Next]_vars
    PROVE  OneFate'
<1> USE CallerKinds
<1>0. TypeOK /\ PlanRunOperationAgree
  BY DEF IInv, Rows
<1>1. ASSUME NEW failed, Reconcile(failed)
      PROVE  /\ \A p \in Plans : plan'[p] = "ready" => plan[p] = "ready"
             /\ \A o \in Ops : run'[o] # "none" => run[o] # "none"
  BY <1>1 DEF Reconcile
<1>2. ASSUME NEW o \in Ops, status[o] = "running", NEW s, Finish(o, s)
      PROVE  /\ \A p \in Plans : plan'[p] = "ready" => plan[p] = "ready"
             /\ \A x \in Ops : run'[x] # "none" => run[x] # "none"
  BY <1>0, <1>2 DEF Finish, TypeOK, PlanRunOperationAgree, Active
<1>3. ASSUME NEW c \in Callers, CallerStep(c)
      PROVE  OneFate'
  <2>1. CASE Claim(c)
    <3>1. c \in Ops /\ Target[c] \in Plans /\ plan[Target[c]] = "ready"
      BY <2>1 DEF Claim, IsApply
    <3>2. /\ plan' = [plan EXCEPT ![Target[c]] = "applying"] /\ run' = [run EXCEPT ![c] = "running"]
          /\ \A x \in Callers : x # c => answer'[x] = answer[x]
      BY <1>0, <2>1 DEF Claim, Accepted, Reply, TypeOK
    <3> QED
      BY <1>0, <3>1, <3>2, DecidedKeeps DEF TypeOK
  <2>2. CASE ExpirePlan(c) \/ (Cancel(c) /\ plan[Target[c]] = "ready")
    <3>1. Target[c] \in Plans /\ plan[Target[c]] = "ready" /\ run' = run
      BY <2>2, CallersAssumption DEF ExpirePlan, Cancel, IsApply
    <3>2. /\ plan'[Target[c]] # "ready" /\ \A p \in Plans : p # Target[c] => plan'[p] = plan[p]
          /\ \A x \in Callers : x # c => answer'[x] = answer[x]
      BY <1>0, <2>2, <3>1 DEF ExpirePlan, Cancel, Reply, TypeOK
    <3> QED
      BY <3>1, <3>2, DecidedKeeps
  <2>3. CASE Cancel(c) /\ plan[Target[c]] # "ready"
    BY <1>0, <2>3, UndecidedKeeps DEF Cancel, Reply, TypeOK
  <2>4. CASE CallerReconciles(c) \/ Undispatch(c)
    BY <1>0, <1>1, <2>4, UndecidedKeeps DEF CallerReconciles, Undispatch, Reply, TypeOK
  <2>5. CASE CallerCleansUp(c) \/ Reserve(c)
    <3>1. /\ plan' = plan /\ run' = run
          /\ \A x \in Callers : answer'[x] \in {answer[x], "accepted"}
      BY <1>0, <2>5 DEF CallerCleansUp, Cleanup, Reserve, Accepted, Reply, TypeOK
    <3> QED
      BY <3>1, UndecidedKeeps
  <2>6. CASE \/ Arrive(c) \/ Invoke(c) \/ TryLock(c) \/ Contended(c) \/ Recheck(c) \/ Reject(c)
             \/ Refuse(c) \/ Submit(c) \/ SubmitRaises(c) \/ Release(c)
    <3>1. plan' = plan /\ run' = run
      BY <2>6 DEF database, Arrive, Invoke, TryLock, Contended, Recheck, Reject, Refuse, Submit,
                  SubmitRaises, Release
    <3>2. \A x \in Callers : \/ answer'[x] = answer[x]
                             \/ answer'[x] \notin {"cancelled", "expired"}
      BY <1>0, <2>6 DEF ReplayVerdict, Reply, TypeOK, Arrive, Invoke, TryLock, Contended, Recheck,
                  Reject, Refuse, Submit, SubmitRaises, Release
    <3> QED
      BY <3>1, <3>2, UndecidedKeeps
  <2> QED
    BY <1>3, <2>1, <2>2, <2>3, <2>4, <2>5, <2>6 DEF CallerStep
<1>4. ASSUME NEW o \in Ops, ExecutionStep(o)
      PROVE  OneFate'
  <2>1. answer' = answer
    BY <1>4 DEF ExecutionStep, TakeTask, MarkRunning, WorkCommits, WorkReturns, WorkRaises,
       CheckFinished, HandleFailure, Leave
  <2>2. /\ \A p \in Plans : plan'[p] = "ready" => plan[p] = "ready"
        /\ \A x \in Ops : run'[x] # "none" => run[x] # "none"
    <3>1. CASE WorkCommits(o)
      BY <1>2, <3>1 DEF WorkCommits
    <3>2. CASE CheckFinished(o)
      BY <1>2, <3>2 DEF CheckFinished, database
    <3>3. CASE HandleFailure(o)
      BY <1>1, <1>2, <3>3 DEF HandleFailure, database
    <3> QED
      BY <1>4, <3>1, <3>2, <3>3 DEF ExecutionStep, database, TakeTask, MarkRunning, WorkReturns,
         WorkRaises, Leave
  <2> QED
    BY <2>1, <2>2, UndecidedKeeps
<1>5. CASE SupervisorStep
  <2>1. answer' = answer
    BY <1>5 DEF SupervisorStep, SupervisorTries, SupervisorReconciles, SupervisorCleansUp,
       SupervisorReleases, SupervisorWakes
  <2>2. /\ \A p \in Plans : plan'[p] = "ready" => plan[p] = "ready"
        /\ \A x \in Ops : run'[x] # "none" => run[x] # "none"
    BY <1>1, <1>5 DEF SupervisorStep, database, SupervisorTries, SupervisorReconciles,
       SupervisorCleansUp, Cleanup, SupervisorReleases, SupervisorWakes
  <2> QED
    BY <2>1, <2>2, UndecidedKeeps
<1>6. CASE Environment
  <2>1. plan' = plan /\ run' = run
    BY <1>6, EnvironmentRefines DEF Stutter
  <2>2. \A x \in Callers : answer'[x] \in {answer[x], "failed"}
    BY <1>0, <1>6 DEF Environment, StartWeb, Close, Exit, CrashWeb, SupervisorFails, CallerFails,
       CrashCommand, ExecutionFails, Elapse, Reply, TypeOK
  <2> QED
    BY <2>1, <2>2, UndecidedKeeps
<1>7. CASE UNCHANGED vars
  BY <1>7, UndecidedKeeps DEF vars
<1> QED
  BY <1>3, <1>4, <1>5, <1>6, <1>7 DEF Next

\* One Run, one cancellation or one expiry per Plan, whoever competes, retries or
\* crashes (claim_apply.py and cancel_plan.py compare and set from ready).
THEOREM PlanHasOneFate == Spec => []SinglePlanFate
<1>1. Init => OneFate
  BY DEF Init, OneFate, Fates
<1>2. OneFate => SinglePlanFate
  <2> SUFFICES ASSUME OneFate, NEW p \in Plans PROVE Cardinality(Fates(p)) <= 1
    BY DEF SinglePlanFate, Fates
  <2>1. CASE Fates(p) = {}
    <3>1. Cardinality({}) = 0
      BY FS_EmptySet
    <3> QED
      BY <2>1, <3>1
  <2>2. CASE Fates(p) # {}
    <3>1. PICK x : Fates(p) = {x}
      BY <2>2 DEF OneFate
    <3>2. Cardinality({x}) = 1
      BY FS_Singleton
    <3> QED
      BY <3>1, <3>2
  <2> QED
    BY <2>1, <2>2
<1> QED
  BY <1>1, <1>2, FateKeeps, Inductive, PTL DEF Spec
=============================================================================
