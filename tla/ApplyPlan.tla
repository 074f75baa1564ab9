------------------------------ MODULE ApplyPlan ------------------------------
(***************************************************************************)
(* The work of one claimed Apply: ApplyPlanUseCase walks the recorded      *)
(* actions of a Plan in order, moves one file per action between two       *)
(* transactions (a pending FileEvent before, the outcome after), and       *)
(* finishes the Plan, its Run and its Operation in a last transaction. The *)
(* process may die and any transaction may raise between two steps; the    *)
(* reconciliation then settles the Plan from the rows alone. Meanwhile     *)
(* other programs edit the files.                                          *)
(*                                                                         *)
(* OperationRuntime shows that this work runs once, alone, and that no     *)
(* reconciliation interferes while it lives; here it starts claimed. Of a  *)
(* path the model keeps whose file is there. A check of the file mover and *)
(* the call it guards are two steps; FileMover has the rest of its detail. *)
(* runs.status is written with plans.status, in every transaction, so plan *)
(* stands for both.                                                        *)
(***************************************************************************)
EXTENDS Naturals, FiniteSets

CONSTANTS
    LastAction, \* the Plan's actions are 1 .. LastAction, in sort order
    Kind,       \* Kind[a]: "move", "companion", "unprocessed", "refresh", "skip"
    Blocked,    \* actions blocked when the Plan was created
    Deps,       \* Deps[a]: actions a depends on (plan_action_dependencies)
    Owner,      \* Owner[a]: owner_action_id of a companion, 0 when there is none
    Stale,      \* actions whose recorded provenance no longer verifies
    PlanType,   \* "add", "organize", "refresh" or "undo"
    MaxEdits    \* bound on the edits of other programs

Actions == 1 .. LastAction

ASSUME PlanAssumption ==
    /\ LastAction \in Nat /\ MaxEdits \in Nat
    /\ Kind \in [Actions -> {"move", "companion", "unprocessed", "refresh", "skip"}]
    /\ Blocked \subseteq Actions /\ Stale \subseteq Actions
    /\ Deps \in [Actions -> SUBSET Actions]
    /\ Owner \in [Actions -> Actions \cup {0}]
    /\ PlanType \in {"add", "organize", "refresh", "undo"}

VARIABLES
    pc,         \* where the worker stands
    current,    \* the action it works on
    successes, failures, stopped,       \* what it will report (_ApplyCompletion)
    sequence,   \* next FileEvent sequence number
    status,     \* status[a]: plan_actions.status, "interrupted" for that failure reason
    event,      \* event[a]: status of the action's FileEvent, "none" without one
    number,     \* number[a]: its sequence number
    managed,    \* actions whose Track or CompanionAsset row has been advanced
    source,     \* source[a]: "planned" while the reviewed file is at the source path
    target,     \* target[a]: "free", "foreign", "claimed" by the mover, "moved", or
                \* "namesake": of another program, with the inode of the removed claim
    edits,      \* edits of other programs so far
    raced,      \* raced[call]: actions whose files others edited between the check
                \* before that call and the call (history)
    root,       \* libraries.root_path: "reviewed", or "relinked" since
    stray,      \* actions whose mutation began under a relinked root (history)
    plan,       \* plans.status and runs.status
    operation,  \* operations.status
    registered  \* whether the Library has become registered

worker  == <<current, successes, failures, stopped, sequence>>
journal == <<status, event, number, managed>>
disk    == <<source, target, stray>>
outcome == <<plan, operation, registered>>
outside == <<edits, root, raced>>
vars    == <<pc, worker, journal, disk, outside, outcome>>

Mutating == {a \in Actions : Kind[a] \in {"move", "companion", "unprocessed"}}
Eligible == {a \in Actions \ Blocked : Kind[a] # "skip"}

\* Program counters at which the next step is, or ends with, a transaction.
Transactions == {"start", "next", "root", "verify", "capture", "intend",
                 "refreshed", "moved", "unmoved", "finish"}

\* Inside the file mover.
MoverSteps == {"open", "claim", "check", "unlink", "cleanup", "discard"}

TypeOK ==
    /\ pc \in Transactions \cup MoverSteps \cup {"raised", "gone", "done"}
    /\ current \in 1 .. LastAction + 1
    /\ successes \in 0 .. LastAction /\ failures \in 0 .. LastAction + 1
    /\ stopped \in BOOLEAN
    /\ sequence \in 1 .. LastAction + 1
    /\ status \in [Actions -> {"planned", "blocked", "applied", "failed", "interrupted"}]
    /\ event \in [Actions -> {"none", "pending", "succeeded", "failed"}]
    /\ number \in [Actions -> 0 .. LastAction]
    /\ managed \in SUBSET Actions
    /\ source \in [Actions -> {"planned", "changed", "missing"}]
    /\ target \in [Actions -> {"free", "foreign", "namesake", "claimed", "moved"}]
    /\ edits \in 0 .. MaxEdits
    /\ raced \in [{"unlink", "discard"} -> SUBSET Actions]
    /\ root \in {"reviewed", "relinked"}
    /\ stray \in SUBSET Actions
    /\ plan \in {"applying", "applied", "partial_failed", "failed"}
    /\ operation \in {"running", "succeeded", "failed", "interrupted"}
    /\ registered \in BOOLEAN

Init ==
    /\ pc = "start"
    /\ current = 1
    /\ successes = 0 /\ failures = 0 /\ stopped = FALSE
    /\ sequence = 1
    /\ status = [a \in Actions |-> IF a \in Blocked THEN "blocked" ELSE "planned"]
    /\ event = [a \in Actions |-> "none"]
    /\ number = [a \in Actions |-> 0]
    /\ managed = {}
    /\ source = [a \in Actions |-> "planned"]
    /\ target = [a \in Actions |-> "free"]
    /\ edits = 0
    /\ root = "reviewed"
    /\ stray = {}
    /\ raced = [call \in {"unlink", "discard"} |-> {}]
    /\ plan = "applying" /\ operation = "running" /\ registered = FALSE

-----------------------------------------------------------------------------
(* The loop over the actions.                                              *)

Goto(next) == pc' = next

\* The worker stops early: a changed Library root fails the Operation.
Stop ==
    /\ failures' = failures + 1
    /\ stopped' = TRUE
    /\ Goto("finish")
    /\ UNCHANGED <<current, successes, sequence>>

\* Mutant of Advance: only a success uses its sequence number.
NumbersSuccesses(ok, eventCreated) ==
    /\ successes' = IF ok THEN successes + 1 ELSE successes
    /\ failures' = IF ok THEN failures ELSE failures + 1
    /\ sequence' = IF ok /\ eventCreated THEN sequence + 1 ELSE sequence
    /\ current' = current + 1
    /\ Goto("next")
    /\ UNCHANGED stopped

\* The loop goes on; an action with a FileEvent used a sequence number.
Advance(ok, eventCreated) ==
    /\ successes' = IF ok THEN successes + 1 ELSE successes
    /\ failures' = IF ok THEN failures ELSE failures + 1
    /\ sequence' = IF eventCreated THEN sequence + 1 ELSE sequence
    /\ current' = current + 1
    /\ Goto("next")
    /\ UNCHANGED stopped

SetStatus(s) == status' = [status EXCEPT ![current] = s]

\* _load_claimed_apply and the first root check.
Start ==
    /\ pc = "start"
    /\ IF root = "reviewed" THEN Goto("next") /\ UNCHANGED worker ELSE Stop
    /\ UNCHANGED <<journal, disk, outside, outcome>>

\* A blocked action is passed over.
PassOver ==
    /\ pc = "next" /\ current \in Blocked
    /\ current' = current + 1
    /\ UNCHANGED <<pc, successes, failures, stopped, sequence, journal, disk, outside, outcome>>

\* A skip is applied: no root check, no FileEvent, no part in the outcome.
ApplySkip ==
    /\ pc = "next" /\ current \in Actions \ Blocked
    /\ Kind[current] = "skip"
    /\ SetStatus("applied")
    /\ current' = current + 1
    /\ UNCHANGED <<pc, successes, failures, stopped, sequence, event, number, managed>>
    /\ UNCHANGED <<disk, outside, outcome>>

TakeAction ==
    /\ pc = "next"
    /\ IF current > LastAction THEN Goto("finish")
       ELSE current \in Eligible /\ Goto("root")
    /\ UNCHANGED <<worker, journal, disk, outside, outcome>>

\* The head of the loop.
NextAction == pc = "next" /\ (PassOver \/ ApplySkip \/ TakeAction)

\* Mutant of CheckRoot: the root is only checked when the worker starts.
IgnoresRoot ==
    /\ pc = "root"
    /\ Goto("verify")
    /\ UNCHANGED <<worker, journal, disk, outside, outcome>>

CheckRoot ==
    /\ pc = "root"
    /\ IF root = "reviewed" THEN Goto("verify") /\ UNCHANGED worker ELSE Stop
    /\ UNCHANGED <<journal, disk, outside, outcome>>

\* An action that fails before its FileEvent is marked failed, nothing else.
FailAction ==
    /\ SetStatus("failed")
    /\ Advance(FALSE, FALSE)
    /\ UNCHANGED <<event, number, managed, disk, outside, outcome>>

\* Mutant of DependenciesApplied: one applied dependency is enough.
AnyDependencyApplied(a) == Deps[a] = {} \/ \E d \in Deps[a] : status[d] = "applied"

DependenciesApplied(a) == \A d \in Deps[a] : status[d] = "applied"

\* Semantic ownership of a companion: a forward owner has been applied and has
\* its Track, the owner of an inverse has not been undone yet.
OwnerHolds(a) ==
    \/ Owner[a] = 0
    \/ /\ PlanType = "undo"
       /\ status[Owner[a]] \in {"planned", "blocked"}
    \/ /\ PlanType # "undo"
       /\ status[Owner[a]] = "applied" /\ Owner[a] \in managed /\ Owner[a] \in Deps[a]

Verified(a) ==
    /\ DependenciesApplied(a)
    /\ a \notin Stale
    /\ Kind[a] = "unprocessed" => Deps[a] = {}
    /\ Kind[a] = "companion" => OwnerHolds(a)

\* Dependencies, then the durable provenance of the action's kind.
Verify ==
    /\ pc = "verify"
    /\ IF Verified(current)
       THEN Goto("capture") /\ UNCHANGED <<worker, journal, disk, outside, outcome>>
       ELSE FailAction

\* Mutant of Capture: the move starts before its pending FileEvent.
MovesWithoutEvent ==
    /\ pc = "capture"
    /\ source[current] = "planned"
    /\ Goto("open")
    /\ UNCHANGED <<worker, journal, disk, outside, outcome>>

\* The live source must be the reviewed one; it may also be unreadable.
Capture ==
    /\ pc = "capture"
    /\ \/ /\ source[current] = "planned"
          /\ Goto(IF Kind[current] = "refresh" THEN "refreshed" ELSE "intend")
          /\ UNCHANGED <<worker, journal, disk, outside, outcome>>
       \/ FailAction

\* Mutant of RefreshTrack: a refreshed Track is not counted as a success.
RefreshUncounted ==
    /\ pc = "refreshed"
    /\ SetStatus("applied")
    /\ managed' = managed \cup {current}
    /\ Advance(FALSE, FALSE)
    /\ UNCHANGED <<event, number, disk, outside, outcome>>

\* refresh_metadata: Track and action in one transaction, without a FileEvent.
RefreshTrack ==
    /\ pc = "refreshed"
    /\ SetStatus("applied")
    /\ managed' = managed \cup {current}
    /\ Advance(TRUE, FALSE)
    /\ UNCHANGED <<event, number, disk, outside, outcome>>

\* _record_pending_file_event, committed before the mutation.
Intend ==
    /\ pc = "intend"
    /\ event' = [event EXCEPT ![current] = "pending"]
    /\ number' = [number EXCEPT ![current] = sequence]
    /\ Goto("open")
    /\ UNCHANGED <<worker, status, managed, disk, outside, outcome>>

-----------------------------------------------------------------------------
(* The file mover, seen from its caller: an exclusive claim of the target, *)
(* then the removal of the verified source. Any call may raise; what was   *)
(* claimed is then taken back.                                             *)

MoverStep(next) ==
    /\ Goto(next)
    /\ UNCHANGED <<worker, journal, outside, outcome>>

\* The descriptor that is opened must hold the captured source.
OpenSource ==
    /\ pc = "open"
    /\ \/ source[current] = "planned" /\ MoverStep("claim")
       \/ MoverStep("unmoved")
    /\ UNCHANGED disk

\* Hardlink or exclusive copy of the opened file.
ClaimTarget ==
    /\ pc = "claim"
    /\ \/ /\ target[current] = "free"
          /\ target' = [target EXCEPT ![current] = "claimed"]
          /\ stray' = IF root = "relinked" THEN stray \cup {current} ELSE stray
          /\ MoverStep("check")
          /\ UNCHANGED source
       \/ MoverStep("unmoved") /\ UNCHANGED disk

\* Device and inode are all the mover compares.
LooksClaimed(a) == target[a] \in {"claimed", "namesake"}

\* The target must be the claimed file and the source the captured one. No
\* call depends on what happens between these two checks, so they are one step.
CheckMove ==
    /\ pc = "check"
    /\ \/ source[current] = "planned" /\ LooksClaimed(current) /\ MoverStep("unlink")
       \/ MoverStep("cleanup")
    /\ UNCHANGED disk

\* The call removes whatever is at the source path by then.
UnlinkSource ==
    /\ pc = "unlink"
    /\ \/ /\ source[current] # "missing"
          /\ source' = [source EXCEPT ![current] = "missing"]
          /\ target' = IF target[current] = "claimed"
                       THEN [target EXCEPT ![current] = "moved"] ELSE target
          /\ MoverStep("moved")
          /\ UNCHANGED stray
       \/ MoverStep("cleanup") /\ UNCHANGED disk

\* Mutant of MatchTarget: the cleanup removes whatever is at the target.
CleansUpBlindly ==
    /\ pc = "cleanup"
    /\ MoverStep("discard")
    /\ UNCHANGED disk

\* The cleanup leaves a target alone that is not the claimed file.
MatchTarget ==
    /\ pc = "cleanup"
    /\ \/ LooksClaimed(current) /\ MoverStep("discard")
       \/ MoverStep("unmoved")
    /\ UNCHANGED disk

\* Its unlink removes whatever is at the target by then, unless it fails too.
DiscardTarget ==
    /\ pc = "discard"
    /\ target' \in {target, [target EXCEPT ![current] = "free"]}
    /\ MoverStep("unmoved")
    /\ UNCHANGED <<source, stray>>

\* Event, Track or CompanionAsset, and action in one transaction. An
\* unprocessed file has no managed row.
RecordSuccess ==
    /\ pc = "moved"
    /\ event' = [event EXCEPT ![current] = "succeeded"]
    /\ managed' = IF Kind[current] = "unprocessed" THEN managed ELSE managed \cup {current}
    /\ SetStatus("applied")
    /\ Advance(TRUE, TRUE)
    /\ UNCHANGED <<number, disk, outside, outcome>>

RecordFailure ==
    /\ pc = "unmoved"
    /\ event' = [event EXCEPT ![current] = "failed"]
    /\ SetStatus("failed")
    /\ Advance(FALSE, TRUE)
    /\ UNCHANGED <<number, managed, disk, outside, outcome>>

-----------------------------------------------------------------------------
(* Terminal transactions.                                                  *)

Verdict(someSucceeded, someFailed) ==
    IF ~someFailed THEN "applied"
    ELSE IF someSucceeded THEN "partial_failed" ELSE "failed"

\* _finish_apply: Run, Plan, Operation and, for a fully applied organize Plan
\* without blocked actions, the registration of the Library.
Finish ==
    /\ pc = "finish"
    /\ plan' = Verdict(successes > 0, failures > 0)
    /\ operation' = IF stopped THEN "failed" ELSE "succeeded"
    /\ registered' = (registered \/ (plan' = "applied" /\ PlanType = "organize" /\ Blocked = {}))
    /\ Goto("done")
    /\ UNCHANGED <<worker, journal, disk, outside>>

\* The planned actions that a reconciliation cannot confirm.
Unconfirmed == {a \in Actions : status[a] = "planned"}

\* Mutant of Reconcile: pending events are guessed to have failed.
ReconcileGuesses ==
    /\ pc \in {"raised", "gone"}
    /\ status' = [a \in Actions |->
          IF a \notin Unconfirmed THEN status[a]
          ELSE IF Kind[a] = "skip" THEN "applied" ELSE "interrupted"]
    /\ event' = [a \in Actions |-> IF event[a] = "pending" THEN "failed" ELSE event[a]]
    /\ plan' = Verdict(\E a \in Eligible : status'[a] = "applied",
                       \E a \in Eligible : status'[a] \in {"failed", "interrupted"})
    /\ operation' = IF pc = "raised" THEN "failed" ELSE "interrupted"
    /\ Goto("done")
    /\ UNCHANGED <<worker, number, managed, disk, outside, registered>>

\* Mutant of Reconcile: only the worker's own process reconciles.
ReconcilesOwnOnly ==
    /\ pc = "raised"
    /\ status' = [a \in Actions |-> IF a \in Unconfirmed THEN "interrupted" ELSE status[a]]
    /\ plan' = "failed" /\ operation' = "failed"
    /\ Goto("done")
    /\ UNCHANGED <<worker, event, number, managed, disk, outside, registered>>

\* ReconcileOperationsUseCase, after the worker raised or its process died.
Reconcile ==
    /\ pc \in {"raised", "gone"}
    /\ status' = [a \in Actions |->
          IF a \notin Unconfirmed THEN status[a]
          ELSE IF Kind[a] = "skip" THEN "applied" ELSE "interrupted"]
    /\ plan' = Verdict(\E a \in Eligible : status'[a] = "applied",
                       \/ \E a \in Eligible : status'[a] \in {"failed", "interrupted"}
                       \/ \E a \in Actions : event[a] = "pending")
    /\ operation' = IF pc = "raised" THEN "failed" ELSE "interrupted"
    /\ Goto("done")
    /\ UNCHANGED <<worker, event, number, managed, disk, outside, registered>>

\* A transaction raises: its error reaches the runtime's failure handling,
\* which reconciles, and whose own errors are logged and swallowed.
Raises ==
    /\ \/ pc \in Transactions /\ Goto("raised")
       \/ pc = "raised" /\ Goto("gone")
    /\ UNCHANGED <<worker, journal, disk, outside, outcome>>

Crash ==
    /\ pc \notin {"gone", "done"}
    /\ Goto("gone")
    /\ UNCHANGED <<worker, journal, disk, outside, outcome>>

-----------------------------------------------------------------------------
(* Other programs.                                                         *)

\* An edit of the action in hand between a check and one of these calls.
Race(a, calls) ==
    raced' = IF a = current /\ pc \in calls THEN [raced EXCEPT ![pc] = @ \cup {a}] ELSE raced

EditSource(a) ==
    /\ edits < MaxEdits /\ edits' = edits + 1
    /\ source[a] = "planned"
    /\ \E s \in {"changed", "missing"} : source' = [source EXCEPT ![a] = s]
    /\ Race(a, {"unlink"})
    /\ UNCHANGED <<pc, target, stray, root, worker, journal, outcome>>

\* A file appears at the target; one just claimed there is removed or replaced,
\* by a file that may have got its inode.
OccupyTarget(a) ==
    /\ edits < MaxEdits /\ edits' = edits + 1
    /\ \E t \in {"free", "foreign", "namesake"} :
          /\ target[a] = "claimed" \/ (target[a] = "free" /\ t = "foreign")
          /\ target' = [target EXCEPT ![a] = t]
    /\ Race(a, {"unlink", "discard"})
    /\ UNCHANGED <<pc, source, stray, root, worker, journal, outcome>>

\* libraries.root_path changes. No operation does it yet: the worker guards
\* against a database edited behind its back and against a future relink.
Relink ==
    /\ edits < MaxEdits /\ edits' = edits + 1
    /\ root = "reviewed"
    /\ root' = "relinked"
    /\ UNCHANGED <<pc, raced, worker, journal, disk, outcome>>

-----------------------------------------------------------------------------

MoveFile ==
    \/ OpenSource \/ ClaimTarget \/ CheckMove \/ UnlinkSource \/ MatchTarget \/ DiscardTarget

WorkerStep ==
    \/ Start \/ NextAction \/ CheckRoot \/ Verify
    \/ Capture \/ RefreshTrack \/ Intend \/ MoveFile
    \/ RecordSuccess \/ RecordFailure \/ Finish

Others == Relink \/ \E a \in Eligible : EditSource(a) \/ OccupyTarget(a)

Done == pc = "done" /\ UNCHANGED vars

Next == WorkerStep \/ Reconcile \/ Raises \/ Crash \/ Others \/ Done

Spec == Init /\ [][Next]_vars

\* The worker runs on, and what it leaves behind is reconciled: by its own
\* failure handling, or by the supervisor or the next process to take the lock.
FairSpec == Spec /\ WF_vars(WorkerStep) /\ WF_vars(Reconcile)

-----------------------------------------------------------------------------
(* Properties.                                                             *)

\* FileEvents tell the truth about the disk, whatever crashed in between: no
\* file is touched without one, a succeeded one names a moved file (unless others
\* took the target away after the mover's last look) and a failed one a file
\* left in place; an action is applied exactly when its event succeeded, and an
\* event that is still pending when the Plan has settled belongs to an action
\* reported as interrupted.
EvidenceIsTrue ==
    \A a \in Mutating :
        /\ target[a] \in {"claimed", "moved"} => event[a] # "none"
        /\ event[a] = "succeeded" =>
              target[a] \in {"moved", "namesake"} \/ a \in raced["unlink"]
        /\ event[a] = "failed" => target[a] # "moved"
        /\ status[a] = "applied" <=> event[a] = "succeeded"
        /\ event[a] = "pending" /\ plan # "applying" => status[a] = "interrupted"

\* A file is touched or a managed row advanced only for an action all of whose
\* dependencies are durably applied; a forward companion never without its
\* owner's Track, an inverse audio move never before its companions' return.
DependenciesFirst ==
    \A a \in Actions : target[a] \in {"claimed", "moved"} \/ a \in managed =>
        /\ \A d \in Deps[a] : status[d] = "applied"
        /\ Kind[a] = "companion" /\ PlanType # "undo" /\ Owner[a] # 0 => Owner[a] \in managed

\* The outcome reported for the Plan is the one its actions add up to, whether
\* the worker counted it or a reconciliation derived it from the rows; only a
\* changed Library root leaves actions planned.
OutcomeIsTrue ==
    LET applied == {a \in Eligible : status[a] = "applied"} IN
    /\ plan = "applied" => applied = Eligible
    /\ plan = "partial_failed" => applied # {} /\ applied # Eligible
    /\ plan = "failed" => applied = {}
    /\ plan # "applying" /\ ~stopped => \A a \in Actions : status[a] # "planned"
    /\ operation = "succeeded" => ~stopped /\ \A a \in Actions : event[a] # "pending"

\* FileEvents of a Run are numbered without gaps in the order of its actions:
\* what History lists and Undo reverses.
EventsAreOrdered ==
    LET recorded == {a \in Actions : event[a] # "none"} IN
    \A a \in recorded : number[a] = Cardinality({b \in recorded : b <= a})

\* After the Library root changed at most the action under way mutates a file.
StopsAtRelink == Cardinality(stray) <= 1

\* The Library is registered only by an organize Plan that is fully applied.
RegistrationIsEarned ==
    registered => /\ PlanType = "organize" /\ plan = "applied"
                  /\ \A a \in Actions : status[a] = "applied"

\* Neither the mover nor its cleanup replaces or removes a file of others, at
\* the target or at the source, though they may come at any point of a move: only
\* one put there between the last check and the unlink it guards is lost.
ForeignFilesSurvive ==
    [][\A a \in Actions :
          /\ target[a] = "foreign" => target'[a] = "foreign" \/ a \in raced["discard"]
          /\ source[a] = "changed" => source'[a] = "changed" \/ a \in raced["unlink"]]_vars

\* Recorded evidence is never rewritten: terminal events and actions keep their
\* status, and a reconciliation leaves every event as it found it.
EvidenceIsFinal ==
    [][\A a \in Actions :
          /\ status[a] # "planned" => status'[a] = status[a]
          /\ event[a] \in {"succeeded", "failed"} => event'[a] = event[a]
          /\ pc \in {"raised", "gone"} => event'[a] = event[a]]_vars

\* Every claimed Apply settles, whatever raised or crashed.
ApplySettles == <>(plan # "applying" /\ operation # "running")

\* docs/execution/organize.md:35: "If the organize Plan applies successfully and
\* no blocking Library-state issues remain, the Library becomes registered".
AppliedOrganizeRegisters ==
    PlanType = "organize" /\ Blocked = {} /\ plan = "applied" => registered
=============================================================================
